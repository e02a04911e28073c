--------------------------- MODULE RelocPlanProofs ---------------------------
(***************************************************************************)
(* The planners of RelocPlan, for every table, every request and every     *)
(* usable area: a plan is executable from every half-relocated table it is *)
(* made on, lands every partition where the first plan of the job did,     *)
(* makes exactly the room that was asked for, and is optimal; "not enough  *)
(* space" is said only when there is none.                                 *)
(*                                                                         *)
(* The planners are recursive functions over the blockers in disk order.   *)
(* That such an order exists and is the only one, that the recursion has   *)
(* one value, and what it computes is shown by least counterexample: of    *)
(* the indices at which a statement fails, if any, there is a least one    *)
(* (LeastNatural), and there it cannot fail.                               *)
(***************************************************************************)
EXTENDS RelocPlan, FiniteSetTheorems, SequenceTheorems, WellFoundedInduction, TLAPS

-----------------------------------------------------------------------------
(* The blockers in disk order.                                             *)

(* A non-empty set of naturals has a least element: every induction below  *)
(* is a least counterexample.                                              *)
LEMMA LeastNatural ==
  ASSUME NEW T \in SUBSET Nat, T # {}
  PROVE  \E x \in T : \A y \in T : x <= y
<1>1. PICK x \in T : \A y \in T : ~ (<<y, x>> \in OpToRel(<, Nat))
  BY WFMin, NatLessThanWellFounded
<1>2. ASSUME NEW y \in T PROVE x <= y
  <2>1. ~ (y < x)
    BY <1>1, <1>2 DEF OpToRel
  <2> QED BY <2>1
<1> QED BY <1>1, <1>2

Sorted(b) == \A i, k \in DOMAIN b : i < k => b[i].first < b[k].first

(* A finite set of entries with distinct first LBAs can be listed in disk  *)
(* order, as the sort by first LBA does.                                   *)
LEMMA EnumerationExists ==
  ASSUME NEW S \in SUBSET EntryRecords, IsFiniteSet(S), NEW top \in Nat,
         \A e \in S : e.first <= top,
         \A e, f \in S : e # f => e.first # f.first
  PROVE  \E b \in [1 .. Cardinality(S) -> S] : Sorted(b)
<1> DEFINE Listed(R) == \E b \in [1 .. Cardinality(R) -> R] : Sorted(b)
           Bad == {n \in Nat : \E R \in SUBSET S : Cardinality(R) = n /\ ~ Listed(R)}
<1>1. SUFFICES Bad = {}
  <2>1. Cardinality(S) \in Nat
    BY FS_CardinalityType
  <2> QED BY <2>1
<1>2. SUFFICES ASSUME Bad # {} PROVE FALSE
  OBVIOUS
<1>3. PICK n \in Bad : \A y \in Bad : n <= y
  <2>1. Bad \in SUBSET Nat
    OBVIOUS
  <2> HIDE DEF Bad
  <2> QED BY <1>2, <2>1, LeastNatural
<1>4. n \in Nat
  BY <1>3
<1>5. PICK R \in SUBSET S : Cardinality(R) = n /\ ~ Listed(R)
  BY <1>3
<1>6. IsFiniteSet(R)
  BY <1>5, FS_Subset
<1>7. R # {}
  <2>1. SUFFICES ASSUME R = {} PROVE FALSE
    OBVIOUS
  <2>2. Cardinality(R) = 0
    BY <2>1, FS_EmptySet
  <2>3. [i \in 1 .. 0 |-> i] \in [1 .. Cardinality(R) -> R]
    BY <2>2
  <2>4. Sorted([i \in 1 .. 0 |-> i])
    BY DEF Sorted
  <2> QED BY <1>5, <2>3, <2>4
<1>8. PICK e \in R : \A f \in R : f.first <= e.first
  <2> DEFINE Gaps == {top - f.first : f \in R}
  <2>1. Gaps \in SUBSET Nat
    BY <1>5 DEF EntryRecords
  <2>2. Gaps # {}
    BY <1>7
  <2>3. PICK g \in Gaps : \A h \in Gaps : g <= h
    <3> HIDE DEF Gaps
    <3> QED BY <2>1, <2>2, LeastNatural
  <2>4. PICK e \in R : g = top - e.first
    BY <2>3
  <2>5. ASSUME NEW f \in R PROVE f.first <= e.first
    <3>1. g <= top - f.first
      BY <2>3
    <3>2. f.first \in Nat /\ e.first \in Nat
      BY <1>5, <2>4, <2>5 DEF EntryRecords
    <3> QED BY <2>4, <3>1, <3>2
  <2> QED BY <2>5
<1> DEFINE Rest == R \ {e}
<1>9. Cardinality(Rest) = n - 1 /\ n - 1 \in Nat
  <2>1. Cardinality(Rest) = n - 1
    BY <1>5, <1>6, <1>8, FS_RemoveElement
  <2>2. IsFiniteSet(Rest)
    BY <1>6, FS_RemoveElement
  <2>3. Cardinality(Rest) \in Nat
    BY <2>2, FS_CardinalityType
  <2> QED BY <2>1, <2>3
<1>10. Listed(Rest)
  <2>1. Rest \in SUBSET S
    BY <1>5
  <2>2. n - 1 \notin Bad
    BY <1>3, <1>4
  <2> QED BY <1>9, <2>1, <2>2
<1>11. PICK b \in [1 .. (n - 1) -> Rest] : Sorted(b)
  BY <1>9, <1>10
<1> DEFINE c == [i \in 1 .. n |-> IF i = n THEN e ELSE b[i]]
<1>12. c \in [1 .. n -> R]
  BY <1>4, <1>8, <1>11
<1>13. Sorted(c)
  <2>1. SUFFICES ASSUME NEW i \in 1 .. n, NEW k \in 1 .. n, i < k
                 PROVE  c[i].first < c[k].first
    BY DEF Sorted
  <2>2. i \in 1 .. (n - 1) /\ c[i] = b[i]
    BY <1>4, <2>1
  <2>3. CASE k = n
    <3>1. b[i] \in Rest
      BY <1>11, <2>2
    <3>2. b[i].first <= e.first /\ b[i].first # e.first
      BY <1>5, <1>8, <3>1
    <3>3. b[i].first \in Nat /\ e.first \in Nat
      BY <1>5, <1>8, <3>1 DEF EntryRecords
    <3> QED BY <2>2, <2>3, <3>2, <3>3
  <2>4. CASE k # n
    <3>1. k \in 1 .. (n - 1) /\ c[k] = b[k]
      BY <1>4, <2>1, <2>4
    <3> QED BY <1>11, <2>1, <2>2, <3>1 DEF Sorted
  <2> QED BY <2>3, <2>4
<1>14. c \in [1 .. Cardinality(R) -> R]
  BY <1>5, <1>12
<1> HIDE DEF c
<1> QED BY <1>5, <1>13, <1>14

(* A sorted enumeration of the right length leaves nothing out. *)
LEMMA EnumerationIsOnto ==
  ASSUME NEW S \in SUBSET EntryRecords, IsFiniteSet(S),
         NEW b \in [1 .. Cardinality(S) -> S], Sorted(b)
  PROVE  \A e \in S : \E i \in DOMAIN b : b[i] = e
<1> DEFINE n == Cardinality(S)
<1>1. n \in Nat
  BY FS_CardinalityType
<1>2. b \in Injection(1 .. n, S)
  <2>1. ASSUME NEW i \in 1 .. n, NEW k \in 1 .. n, b[i] = b[k] PROVE i = k
    <3>1. b[i].first \in Nat
      BY DEF EntryRecords
    <3>2. ~ (i < k) /\ ~ (k < i)
      BY <2>1, <3>1 DEF Sorted
    <3> QED BY <1>1, <3>2
  <2> QED BY <2>1 DEF Injection, IsInjective
<1>3. Cardinality(1 .. n) = n
  BY <1>1, FS_Interval
<1>4. b \in Surjection(1 .. n, S)
  BY <1>2, <1>3, FS_Injection
<1> QED BY <1>4 DEF Surjection

(* No natural is below itself, and no two are below each other.            *)
LEMMA Irreflexive == \A x, y \in Nat : ~ (x < x) /\ ~ (x < y /\ y < x)
  OBVIOUS

(* Two sorted enumerations of one set are the same. *)
LEMMA EnumerationIsUnique ==
  ASSUME NEW S \in SUBSET EntryRecords, NEW n \in Nat,
         NEW b \in [1 .. n -> S], Sorted(b), \A e \in S : \E i \in 1 .. n : b[i] = e,
         NEW c \in [1 .. n -> S], Sorted(c), \A e \in S : \E i \in 1 .. n : c[i] = e
  PROVE  b = c
<1> DEFINE Bad == {i \in 1 .. n : b[i] # c[i]}
<1>1. SUFFICES ASSUME Bad # {} PROVE FALSE
  <2>1. ASSUME Bad = {} PROVE b = c
    <3>1. \A i \in 1 .. n : b[i] = c[i]
      BY <2>1
    <3>2. b = [i \in 1 .. n |-> b[i]] /\ c = [i \in 1 .. n |-> c[i]]
      OBVIOUS
    <3> HIDE DEF Bad
    <3> QED BY <3>1, <3>2
  <2> HIDE DEF Bad
  <2> QED BY <2>1
<1>2. PICK i \in Bad : \A k \in Bad : i <= k
  <2>1. Bad \in SUBSET Nat
    OBVIOUS
  <2> HIDE DEF Bad
  <2> QED BY <1>1, <2>1, LeastNatural
<1>3. i \in 1 .. n /\ b[i] # c[i] /\ \A k \in 1 .. (i - 1) : b[k] = c[k]
  BY <1>2
<1>4. PICK p \in 1 .. n : b[p] = c[i]
  BY <1>3
<1>5. PICK q \in 1 .. n : c[q] = b[i]
  BY <1>3
<1>6. \A k \in 1 .. n : b[k].first \in Nat /\ c[k].first \in Nat
  <2>1. \A e \in S : e.first \in Nat
    BY DEF EntryRecords
  <2> QED BY <2>1
<1>7. p > i
  <2>1. p # i
    BY <1>3, <1>4
  <2>2. ASSUME p < i PROVE FALSE
    <3>1. c[p] = c[i]
      BY <1>3, <1>4, <2>2
    <3>2. c[p].first < c[i].first
      <4>1. p \in DOMAIN c /\ i \in DOMAIN c
        BY <1>3
      <4> QED BY <2>2, <4>1 DEF Sorted
    <3>3. c[i].first \in Nat
      BY <1>3, <1>6
    <3>4. c[i].first < c[i].first
      BY <3>1, <3>2
    <3> QED BY <3>3, <3>4, Irreflexive
  <2> QED BY <1>3, <2>1, <2>2
<1>8. q > i
  <2>1. q # i
    BY <1>3, <1>5
  <2>2. ASSUME q < i PROVE FALSE
    <3>1. b[q] = b[i]
      BY <1>3, <1>5, <2>2
    <3>2. b[q].first < b[i].first
      <4>1. q \in DOMAIN b /\ i \in DOMAIN b
        BY <1>3
      <4> QED BY <2>2, <4>1 DEF Sorted
    <3>3. b[i].first \in Nat
      BY <1>3, <1>6
    <3>4. b[i].first < b[i].first
      BY <3>1, <3>2
    <3> QED BY <3>3, <3>4, Irreflexive
  <2> QED BY <1>3, <2>1, <2>2
<1>9. b[i].first < b[p].first /\ c[i].first < c[q].first
  BY <1>3, <1>7, <1>8 DEF Sorted
<1>10. b[i].first \in Nat /\ c[i].first \in Nat
  BY <1>3, <1>6
<1>11. b[i].first < c[i].first /\ c[i].first < b[i].first
  BY <1>4, <1>5, <1>9
<1> QED BY <1>10, <1>11, Irreflexive

-----------------------------------------------------------------------------
(* A value for each of 1 .. n, each computed from its predecessor's by G:  *)
(* the recursion both planners follow.                                         *)
Follows(s, n, base, G) == \A i \in 1 .. n : s[i] = G[i][IF i = 1 THEN base ELSE s[i - 1]]

(* A recursion along 1 .. n has a solution on every prefix, hence on all   *)
(* of it.                                                                  *)
LEMMA RecursionHasSolution ==
  ASSUME NEW n \in Nat, NEW base \in Int, NEW G \in [1 .. n -> [Int -> Int]]
  PROVE  \E s \in [1 .. n -> Int] : Follows(s, n, base, G)
<1> DEFINE Solved(m) == \E s \in [1 .. m -> Int] : Follows(s, m, base, G)
           Bad == {m \in 0 .. n : ~ Solved(m)}
<1>1. SUFFICES ASSUME Bad # {} PROVE FALSE
  <2>1. n \in 0 .. n
    OBVIOUS
  <2>2. n \notin Bad => Solved(n)
    <3> HIDE DEF Solved
    <3> QED BY <2>1
  <2> HIDE DEF Bad
  <2> QED BY <2>2
<1>2. PICK m \in Bad : \A k \in Bad : m <= k
  <2>1. Bad \in SUBSET Nat
    OBVIOUS
  <2> HIDE DEF Bad
  <2> QED BY <1>1, <2>1, LeastNatural
<1>3. m \in 0 .. n /\ ~ Solved(m)
  BY <1>2
<1>4. m # 0
  <2>1. [i \in 1 .. 0 |-> 0] \in [1 .. 0 -> Int] /\ Follows([i \in 1 .. 0 |-> 0], 0, base, G)
    BY DEF Follows
  <2>2. Solved(0)
    BY <2>1
  <2> HIDE DEF Solved
  <2> QED BY <1>3, <2>2
<1>5. m - 1 \in 0 .. n /\ m - 1 < m
  BY <1>3, <1>4
<1>6. Solved(m - 1)
  <2> HIDE DEF Solved
  <2>1. m - 1 \notin Bad
    <3> HIDE DEF Bad
    <3>1. m \in Nat
      BY <1>3
    <3> QED BY <1>2, <1>5, <3>1
  <2> QED BY <1>5, <2>1
<1>7. PICK s \in [1 .. (m - 1) -> Int] : Follows(s, m - 1, base, G)
  BY <1>6
<1> DEFINE last == G[m][IF m = 1 THEN base ELSE s[m - 1]]
           c == [i \in 1 .. m |-> IF i = m THEN last ELSE s[i]]
<1>8. last \in Int
  <2>1. (IF m = 1 THEN base ELSE s[m - 1]) \in Int
    BY <1>3, <1>4
  <2>2. m \in 1 .. n
    BY <1>3, <1>4
  <2>3. G[m] \in [Int -> Int]
    BY <2>2
  <2> QED BY <2>1, <2>3
<1>9. c \in [1 .. m -> Int]
  <2> HIDE DEF last
  <2> QED BY <1>3, <1>4, <1>8
<1>10. Follows(c, m, base, G)
  <2>1. SUFFICES ASSUME NEW i \in 1 .. m
                 PROVE  c[i] = G[i][IF i = 1 THEN base ELSE c[i - 1]]
    BY DEF Follows
  <2>2. CASE i = m
    <3>1. c[i] = last
      BY <2>2
    <3>2. i = 1 \/ c[i - 1] = s[i - 1]
      BY <1>3, <2>2
    <3> QED BY <2>2, <3>1, <3>2
  <2>3. CASE i # m
    <3>1. i \in 1 .. (m - 1) /\ c[i] = s[i]
      BY <1>3, <2>3
    <3>2. i = 1 \/ c[i - 1] = s[i - 1]
      BY <1>3, <2>3
    <3>3. s[i] = G[i][IF i = 1 THEN base ELSE s[i - 1]]
      BY <1>7, <3>1 DEF Follows
    <3> QED BY <3>1, <3>2, <3>3
  <2> QED BY <2>2, <2>3
<1> HIDE DEF c
<1>11. Solved(m)
  BY <1>9, <1>10
<1> HIDE DEF Solved
<1> QED BY <1>3, <1>11

-----------------------------------------------------------------------------
(* Where the planners put the blockers: the recursive functions of the     *)
(* module have a value, and only one.                                      *)
LEMMA LengthIsPositive ==
  ASSUME NEW e \in EntryRecords, e.first <= e.last
  PROVE  Length(e) \in Nat \ {0}
  BY DEF Length, EntryRecords

ShiftSteps(s, t, b, shift, n) ==
  \A i \in 1 .. n :
    s[i] = Max2(b[i].first, IF i = 1 THEN GrowEntry(t).last + shift + 1
                                    ELSE s[i - 1] + Length(b[i - 1]))

(* The shift recursion has one solution: at the least index where two      *)
(* differ, they follow from the same predecessor.                          *)
LEMMA ShiftStepsDetermine ==
  ASSUME NEW t, NEW b, NEW shift, NEW n \in Nat,
         NEW s, s = [i \in 1 .. n |-> s[i]], ShiftSteps(s, t, b, shift, n),
         NEW c, c = [i \in 1 .. n |-> c[i]], ShiftSteps(c, t, b, shift, n)
  PROVE  s = c
<1> DEFINE Bad == {i \in 1 .. n : s[i] # c[i]}
<1>1. SUFFICES ASSUME Bad # {} PROVE FALSE
  <2>1. ASSUME Bad = {} PROVE s = c
    <3>1. \A i \in 1 .. n : s[i] = c[i]
      BY <2>1
    <3>2. [i \in 1 .. n |-> s[i]] = [i \in 1 .. n |-> c[i]]
      BY <3>1
    <3> QED BY <3>2
  <2> HIDE DEF Bad
  <2> QED BY <2>1
<1>2. PICK i \in Bad : \A k \in Bad : i <= k
  <2>1. Bad \in SUBSET Nat
    OBVIOUS
  <2> HIDE DEF Bad
  <2> QED BY <1>1, <2>1, LeastNatural
<1>3. i \in 1 .. n /\ s[i] # c[i]
  BY <1>2
<1>4. i = 1 \/ s[i - 1] = c[i - 1]
  <2>1. SUFFICES ASSUME i # 1, s[i - 1] # c[i - 1] PROVE FALSE
    OBVIOUS
  <2>2. i - 1 \in 1 .. n
    BY <1>3, <2>1
  <2>3. i - 1 \in Bad
    BY <2>1, <2>2
  <2>4. i <= i - 1
    BY <1>2, <2>3
  <2> HIDE DEF Bad
  <2> QED BY <1>3, <2>4
<1> QED BY <1>3, <1>4 DEF ShiftSteps

(* ShiftStarts is that solution.                                           *)
LEMMA ShiftStartsValue ==
  ASSUME NEW t, GrowEntry(t).last \in Nat, NEW shift \in Nat,
         NEW n \in Nat, NEW b \in [1 .. n -> EntryRecords]
  PROVE  /\ ShiftStarts(t, b, shift) \in [1 .. n -> Int]
         /\ ShiftSteps(ShiftStarts(t, b, shift), t, b, shift, n)
         /\ \A c \in [1 .. n -> Int] :
              ShiftSteps(c, t, b, shift, n) => c = ShiftStarts(t, b, shift)
<1> DEFINE base == GrowEntry(t).last + shift + 1
           G == [i \in 1 .. n |->
                  [x \in Int |-> Max2(b[i].first, IF i = 1 THEN x ELSE x + Length(b[i - 1]))]]
           Steps(s) == s = [i \in 1 .. Len(b) |->
                              Max2(b[i].first, IF i = 1 THEN GrowEntry(t).last + shift + 1
                                                        ELSE s[i - 1] + Length(b[i - 1]))]
<1>1. base \in Int
  OBVIOUS
<1>2. Len(b) = n
  OBVIOUS
<1>3. \A i \in 1 .. n : b[i].first \in Int /\ Length(b[i]) \in Int
  BY DEF EntryRecords, Length
<1>4. G \in [1 .. n -> [Int -> Int]]
  <2>1. ASSUME NEW i \in 1 .. n, NEW x \in Int
        PROVE  Max2(b[i].first, IF i = 1 THEN x ELSE x + Length(b[i - 1])) \in Int
    <3>1. i = 1 \/ i - 1 \in 1 .. n
      OBVIOUS
    <3> QED BY <1>3, <3>1 DEF Max2
  <2> QED BY <2>1
<1>5. \A s \in [1 .. n -> Int] : Follows(s, n, base, G) <=> ShiftSteps(s, t, b, shift, n)
  <2>1. ASSUME NEW s \in [1 .. n -> Int], NEW i \in 1 .. n
        PROVE  G[i][IF i = 1 THEN base ELSE s[i - 1]] =
                 Max2(b[i].first, IF i = 1 THEN GrowEntry(t).last + shift + 1
                                           ELSE s[i - 1] + Length(b[i - 1]))
    <3>1. (IF i = 1 THEN base ELSE s[i - 1]) \in Int
      BY <1>1
    <3> HIDE DEF base
    <3>2. G[i][IF i = 1 THEN base ELSE s[i - 1]] =
            Max2(b[i].first, IF i = 1 THEN base ELSE s[i - 1] + Length(b[i - 1]))
      BY <3>1
    <3> QED BY <3>2 DEF base
  <2>2. SUFFICES ASSUME NEW s \in [1 .. n -> Int]
                 PROVE  Follows(s, n, base, G) <=> ShiftSteps(s, t, b, shift, n)
    OBVIOUS
  <2>3. \A i \in 1 .. n :
          s[i] = G[i][IF i = 1 THEN base ELSE s[i - 1]]
            <=> s[i] = Max2(b[i].first, IF i = 1 THEN GrowEntry(t).last + shift + 1
                                                 ELSE s[i - 1] + Length(b[i - 1]))
    BY <2>1
  <2> HIDE DEF G, base
  <2> QED BY <2>3 DEF Follows, ShiftSteps
<1>6. \A s \in [1 .. n -> Int] : ShiftSteps(s, t, b, shift, n) => Steps(s)
  <2>1. SUFFICES ASSUME NEW s \in [1 .. n -> Int], ShiftSteps(s, t, b, shift, n)
                 PROVE  Steps(s)
    OBVIOUS
  <2>2. s = [i \in 1 .. n |-> s[i]]
    OBVIOUS
  <2> QED BY <1>2, <2>1, <2>2 DEF ShiftSteps
<1>7. PICK s \in [1 .. n -> Int] : Follows(s, n, base, G)
  <2> HIDE DEF G, base
  <2> QED BY <1>1, <1>4, RecursionHasSolution
<1>8. Steps(ShiftStarts(t, b, shift))
  <2>1. \E f : Steps(f)
    <3> HIDE DEF Steps, G, base
    <3> QED BY <1>5, <1>6, <1>7
  <2>2. Steps(CHOOSE f : Steps(f))
    <3> HIDE DEF Steps
    <3> QED BY <2>1
  <2> QED BY <2>2 DEF ShiftStarts
<1> DEFINE v == ShiftStarts(t, b, shift)
<1>9. v = [i \in 1 .. n |-> v[i]] /\ ShiftSteps(v, t, b, shift, n)
  <2> HIDE DEF v
  <2>1. Steps(v)
    BY <1>8 DEF v
  <2> QED BY <1>2, <2>1 DEF ShiftSteps
<1>10. \A c \in [1 .. n -> Int] : ShiftSteps(c, t, b, shift, n) => c = v
  <2>1. SUFFICES ASSUME NEW c \in [1 .. n -> Int], ShiftSteps(c, t, b, shift, n)
                 PROVE  c = v
    OBVIOUS
  <2>2. c = [i \in 1 .. n |-> c[i]]
    OBVIOUS
  <2> HIDE DEF v
  <2> QED BY <1>9, <2>1, <2>2, ShiftStepsDetermine
<1>11. ShiftSteps(s, t, b, shift, n)
  <2> HIDE DEF G, base
  <2> QED BY <1>5, <1>7
<1> QED BY <1>9, <1>10, <1>11

TailSteps(s, b, n) ==
  \A i \in 1 .. n : s[i] = (IF i = n THEN LastUsable + 1 ELSE s[i + 1]) - Length(b[i])

(* Packing the tail has one solution, by the greatest index where two      *)
(* differ.                                                                 *)
LEMMA TailStepsDetermine ==
  ASSUME NEW b, NEW n \in Nat,
         NEW s, s = [i \in 1 .. n |-> s[i]], TailSteps(s, b, n),
         NEW c, c = [i \in 1 .. n |-> c[i]], TailSteps(c, b, n)
  PROVE  s = c
<1> DEFINE Bad == {d \in 0 .. (n - 1) : s[n - d] # c[n - d]}
<1>1. SUFFICES ASSUME Bad # {} PROVE FALSE
  <2>1. ASSUME Bad = {} PROVE s = c
    <3>1. \A i \in 1 .. n : s[i] = c[i]
      <4>1. SUFFICES ASSUME NEW i \in 1 .. n PROVE s[i] = c[i]
        OBVIOUS
      <4>2. n - i \in 0 .. (n - 1) /\ n - (n - i) = i
        OBVIOUS
      <4> QED BY <2>1, <4>2
    <3>2. [i \in 1 .. n |-> s[i]] = [i \in 1 .. n |-> c[i]]
      BY <3>1
    <3> QED BY <3>2
  <2> HIDE DEF Bad
  <2> QED BY <2>1
<1>2. PICK d \in Bad : \A k \in Bad : d <= k
  <2>1. Bad \in SUBSET Nat
    OBVIOUS
  <2> HIDE DEF Bad
  <2> QED BY <1>1, <2>1, LeastNatural
<1>3. d \in 0 .. (n - 1) /\ s[n - d] # c[n - d]
  BY <1>2
<1>4. d = 0 \/ s[(n - d) + 1] = c[(n - d) + 1]
  <2>1. SUFFICES ASSUME d # 0, s[(n - d) + 1] # c[(n - d) + 1] PROVE FALSE
    OBVIOUS
  <2>2. d - 1 \in 0 .. (n - 1) /\ n - (d - 1) = (n - d) + 1
    BY <1>3, <2>1
  <2>3. d - 1 \in Bad
    BY <2>1, <2>2
  <2>4. d <= d - 1
    BY <1>2, <2>3
  <2> HIDE DEF Bad
  <2> QED BY <1>3, <2>4
<1>5. n - d \in 1 .. n /\ (n - d = n <=> d = 0)
  BY <1>3
<1> QED BY <1>3, <1>4, <1>5 DEF TailSteps

(* TailStarts is that solution.                                            *)
LEMMA TailStartsValue ==
  ASSUME NEW n \in Nat, NEW b \in [1 .. n -> EntryRecords]
  PROVE  /\ TailStarts(b) \in [1 .. n -> Int]
         /\ TailSteps(TailStarts(b), b, n)
         /\ \A c \in [1 .. n -> Int] : TailSteps(c, b, n) => c = TailStarts(b)
<1> DEFINE base == LastUsable + 1
           G == [i \in 1 .. n |-> [x \in Int |-> x - Length(b[n - i + 1])]]
           Steps(s) == s = [i \in 1 .. Len(b) |->
                              (IF i = Len(b) THEN LastUsable + 1 ELSE s[i + 1]) - Length(b[i])]
<1>1. base \in Int
  BY RelocPlanAssumption
<1>2. Len(b) = n
  OBVIOUS
<1>3. \A i \in 1 .. n : Length(b[i]) \in Int
  BY DEF EntryRecords, Length
<1>4. G \in [1 .. n -> [Int -> Int]]
  <2>1. ASSUME NEW i \in 1 .. n, NEW x \in Int
        PROVE  x - Length(b[n - i + 1]) \in Int
    <3>1. n - i + 1 \in 1 .. n
      OBVIOUS
    <3> QED BY <1>3, <3>1
  <2> QED BY <2>1
<1>5. PICK r \in [1 .. n -> Int] : Follows(r, n, base, G)
  <2> HIDE DEF G, base
  <2> QED BY <1>1, <1>4, RecursionHasSolution
<1> DEFINE s == [i \in 1 .. n |-> r[n - i + 1]]
<1>6. s \in [1 .. n -> Int]
  <2>1. \A i \in 1 .. n : n - i + 1 \in 1 .. n
    OBVIOUS
  <2> QED BY <2>1
<1>7. TailSteps(s, b, n)
  <2>1. SUFFICES ASSUME NEW i \in 1 .. n
                 PROVE  s[i] = (IF i = n THEN LastUsable + 1 ELSE s[i + 1]) - Length(b[i])
    BY DEF TailSteps
  <2> DEFINE j == n - i + 1
             prev == IF j = 1 THEN base ELSE r[j - 1]
  <2>2. j \in 1 .. n /\ n - j + 1 = i /\ (j = 1 <=> i = n)
    OBVIOUS
  <2>3. prev \in Int
    <3>1. j = 1 \/ j - 1 \in 1 .. n
      BY <2>2
    <3> HIDE DEF base, j
    <3> QED BY <1>1, <3>1
  <2>4. r[j] = G[j][prev]
    <3> HIDE DEF G, base, j
    <3> QED BY <1>5, <2>2 DEF Follows
  <2>5. G[j][prev] = prev - Length(b[i])
    <3> HIDE DEF prev, j
    <3> QED BY <2>2, <2>3
  <2>6. s[i] = r[j]
    OBVIOUS
  <2>7. i # n => s[i + 1] = r[j - 1]
    <3>1. i # n => i + 1 \in 1 .. n /\ n - (i + 1) + 1 = j - 1
      OBVIOUS
    <3> QED BY <3>1
  <2> HIDE DEF s, G, j
  <2> QED BY <2>2, <2>4, <2>5, <2>6, <2>7
<1>8. Steps(s)
  <2>1. s = [i \in 1 .. n |-> s[i]]
    OBVIOUS
  <2> HIDE DEF s
  <2> QED BY <1>2, <1>7, <2>1 DEF TailSteps
<1>9. Steps(TailStarts(b))
  <2>1. \E f : Steps(f)
    <3> HIDE DEF Steps, s
    <3> QED BY <1>8
  <2>2. Steps(CHOOSE f : Steps(f))
    <3> HIDE DEF Steps
    <3> QED BY <2>1
  <2> QED BY <2>2 DEF TailStarts
<1> DEFINE v == TailStarts(b)
<1>10. v = [i \in 1 .. n |-> v[i]] /\ TailSteps(v, b, n)
  <2>1. Steps(v)
    BY <1>9
  <2> HIDE DEF v
  <2> QED BY <1>2, <2>1 DEF TailSteps
<1>11. \A c \in [1 .. n -> Int] : TailSteps(c, b, n) => c = v
  <2>1. SUFFICES ASSUME NEW c \in [1 .. n -> Int], TailSteps(c, b, n)
                 PROVE  c = v
    OBVIOUS
  <2>2. c = [i \in 1 .. n |-> c[i]]
    OBVIOUS
  <2> HIDE DEF v
  <2> QED BY <1>10, <2>1, <2>2, TailStepsDetermine
<1> HIDE DEF s
<1> QED BY <1>6, <1>7, <1>10, <1>11

-----------------------------------------------------------------------------
(* A table that can be planned for, its blockers in order, and a landing   *)
(* of the blockers that keeps their order, overlaps nothing, stays in the  *)
(* usable area and leaves no gap but in front of an entry that does not    *)
(* move.                                                                   *)
GoodTable(t) ==
  /\ t \subseteq EntryRecords /\ IsFiniteSet(t) /\ TableOK(t)
  /\ \E e \in t : e.part = 1

Count(t) == Cardinality(Behind(t))

Ordered(t, b, n) ==
  /\ n \in Nat /\ b \in [1 .. n -> EntryRecords]
  /\ \A i \in 1 .. n : /\ b[i] \in t /\ GrowEntry(t).last < b[i].first
                       /\ b[i].first <= b[i].last /\ b[i].last <= LastUsable
  /\ \A i, k \in 1 .. n : i < k => b[i].last < b[k].first
  /\ \A e \in t : e.first > GrowEntry(t).last => \E i \in 1 .. n : e = b[i]

Lands(b, s, n) ==
  /\ s \in [1 .. n -> Int]
  /\ \A i \in 1 .. n : b[i].first <= s[i] /\ s[i] + Length(b[i]) - 1 <= LastUsable
  /\ \A i, k \in 1 .. n : i < k => s[i] + Length(b[i]) <= s[k]
  /\ \A i \in 2 .. n : s[i] = s[i - 1] + Length(b[i - 1]) \/ s[i] = b[i].first

Starts(t, r) ==
  IF r.kind = "tail" THEN TailStarts(Blockers(t)) ELSE ShiftStarts(t, Blockers(t), r.shift)

(* The moves of the first k blockers, the rightmost first.                 *)
Remaining(b, s, k) == [j \in 1 .. k |-> MoveTo(b[k - j + 1], s[k - j + 1])]

(* What every reachable state satisfies: a plan being carried out is the   *)
(* plan of the table as it stands, without the moves already committed;    *)
(* and the first plan of the job is still the plan of the table, so that   *)
(* planning again pins every partition to the same place.                  *)
Underway ==
  LET b == Blockers(table)
      s == Starts(table, request)
      n == Count(table)
  IN /\ Lands(b, s, n)
     /\ \E k \in 0 .. n : /\ plan = Planned(Remaining(b, s, k))
                          /\ \A i \in (k + 1) .. n : b[i].first = s[i]

Pinned ==
  \A i \in 1 .. Count(table) : <<Blockers(table)[i].part, Starts(table, request)[i]>> \in goal

IInv ==
  /\ GoodTable(table) /\ request \in Requests /\ goal \subseteq (Nat \X Nat)
  /\ plan.refused = "no" => Underway
  /\ plan.refused # "no" => plan = Refused(plan.refused)
  /\ plan.refused = "no" \/ (plan = NoPlan /\ goal # {}) => Pinned

(* A good table has exactly one entry for the partition that is to grow.   *)
LEMMA GrowEntryFacts ==
  ASSUME NEW t, GoodTable(t)
  PROVE  /\ GrowEntry(t) \in t /\ GrowEntry(t).part = 1
         /\ GrowEntry(t).first \in Nat /\ GrowEntry(t).last \in Nat
         /\ GrowEntry(t).first <= GrowEntry(t).last
         /\ \A e \in t : e.part = 1 => e = GrowEntry(t)
<1>1. GrowEntry(t) \in t /\ GrowEntry(t).part = 1
  BY DEF GoodTable, GrowEntry
<1>2. GrowEntry(t).first \in Nat /\ GrowEntry(t).last \in Nat
  BY <1>1 DEF GoodTable, EntryRecords
<1>3. GrowEntry(t).first <= GrowEntry(t).last
  BY <1>1, <1>2, RelocPlanAssumption DEF GoodTable, TableOK
<1>4. \A e \in t : e.part = 1 => e = GrowEntry(t)
  BY <1>1 DEF GoodTable, TableOK
<1> QED BY <1>1, <1>2, <1>3, <1>4

(* Every entry lies within the usable area and has at least one sector.    *)
LEMMA EntryFacts ==
  ASSUME NEW t, GoodTable(t), NEW e \in t
  PROVE  /\ e \in EntryRecords /\ e.first \in Nat /\ e.last \in Nat /\ e.part \in Nat \ {0}
         /\ FirstUsable <= e.first /\ e.first <= e.last /\ e.last <= LastUsable
         /\ Length(e) \in Nat \ {0} /\ Length(e) = e.last - e.first + 1
<1>1. e \in EntryRecords /\ e.first \in Nat /\ e.last \in Nat /\ e.part \in Nat \ {0}
  BY DEF GoodTable, EntryRecords
<1>2. FirstUsable <= e.first /\ e.first <= e.last /\ e.last <= LastUsable
  BY <1>1, RelocPlanAssumption DEF GoodTable, TableOK
<1> QED BY <1>1, <1>2 DEF Length

(* Two entries of a table lie one behind the other.                        *)
LEMMA EntriesApart ==
  ASSUME NEW t, GoodTable(t), NEW e \in t, NEW f \in t, e # f
  PROVE  e.part # f.part /\ (e.last < f.first \/ f.last < e.first)
<1>1. e.part # f.part /\ Disjoint(EntryExtent(e), EntryExtent(f))
  BY DEF GoodTable, TableOK
<1>2. /\ e.first \in Nat /\ e.last \in Nat /\ e.first <= e.last
      /\ f.first \in Nat /\ f.last \in Nat /\ f.first <= f.last
  BY EntryFacts
<1>3. SUFFICES ASSUME f.first <= e.last, e.first <= f.last PROVE FALSE
  BY <1>1, <1>2
<1>4. CASE e.first <= f.first
  <2>1. f.first \in EntryExtent(e) \cap EntryExtent(f)
    BY <1>2, <1>3, <1>4 DEF EntryExtent
  <2> QED BY <1>1, <2>1 DEF Disjoint
<1>5. CASE f.first <= e.first
  <2>1. e.first \in EntryExtent(e) \cap EntryExtent(f)
    BY <1>2, <1>3, <1>5 DEF EntryExtent
  <2> QED BY <1>1, <2>1 DEF Disjoint
<1> QED BY <1>2, <1>4, <1>5

(* The blockers are finitely many entries of the table, no two of which    *)
(* begin on the same LBA.                                                  *)
LEMMA BehindFacts ==
  ASSUME NEW t, GoodTable(t)
  PROVE  /\ Behind(t) \in SUBSET EntryRecords /\ IsFiniteSet(Behind(t))
         /\ Count(t) \in Nat
         /\ \A e, f \in Behind(t) : e # f => e.first # f.first
         /\ \A e \in Behind(t) : e \in t
<1>1. \A e \in Behind(t) : e \in t
  BY DEF Behind
<1>2. Behind(t) \in SUBSET EntryRecords
  BY <1>1, EntryFacts
<1>3. IsFiniteSet(Behind(t))
  <2>1. Behind(t) \in SUBSET t
    BY <1>1
  <2> QED BY <2>1, FS_Subset DEF GoodTable
<1>4. ASSUME NEW e \in Behind(t), NEW f \in Behind(t), e # f PROVE e.first # f.first
  <2>1. e \in t /\ f \in t
    BY <1>1
  <2>2. /\ e.first \in Nat /\ e.last \in Nat /\ e.first <= e.last
        /\ f.first \in Nat /\ f.last \in Nat /\ f.first <= f.last
    BY <2>1, EntryFacts
  <2>3. e.last < f.first \/ f.last < e.first
    BY <1>4, <2>1, EntriesApart
  <2> QED BY <2>2, <2>3
<1> QED BY <1>1, <1>2, <1>3, <1>4, FS_CardinalityType DEF Count

(* blockers_after returns every entry behind the target, in order.         *)
LEMMA BlockersAreOrdered ==
  ASSUME NEW t, GoodTable(t)
  PROVE  Ordered(t, Blockers(t), Count(t))
<1> DEFINE b == Blockers(t)
           n == Count(t)
           S == Behind(t)
<1>1. n \in Nat /\ S \in SUBSET EntryRecords /\ IsFiniteSet(S)
  BY BehindFacts
<1>2. b \in [1 .. n -> S] /\ Sorted(b)
  <2>1. \E c \in [1 .. n -> S] : Sorted(c)
    <3>1. LastUsable \in Nat /\ \A e \in S : e.first <= LastUsable
      <4>1. ASSUME NEW e \in S PROVE e.first <= LastUsable
        <5>1. e \in t
          BY BehindFacts
        <5>2. e.first \in Nat /\ e.last \in Nat /\ e.first <= e.last /\ e.last <= LastUsable
          BY <5>1, EntryFacts
        <5> QED BY <5>2, RelocPlanAssumption
      <4> QED BY <4>1, RelocPlanAssumption
    <3>2. \A e, f \in S : e # f => e.first # f.first
      BY BehindFacts
    <3> HIDE DEF S
    <3>3. \E c \in [1 .. Cardinality(S) -> S] : Sorted(c)
      BY <1>1, <3>1, <3>2, EnumerationExists
    <3> QED BY <3>3 DEF S, Count
  <2> QED BY <2>1 DEF Blockers, Sorted, Count
<1>3. \A e \in S : \E i \in 1 .. n : b[i] = e
  <2> HIDE DEF b
  <2>1. b \in [1 .. Cardinality(S) -> S]
    BY <1>2 DEF Count
  <2>2. \A e \in S : \E i \in DOMAIN b : b[i] = e
    <3> HIDE DEF S
    <3> QED BY <1>1, <1>2, <2>1, EnumerationIsOnto
  <2> QED BY <1>2, <2>2
<1> HIDE DEF b
<1>4. \A i \in 1 .. n : b[i] \in S /\ b[i] \in t
  BY <1>2, BehindFacts
<1>5. \A i \in 1 .. n : /\ b[i] \in t /\ GrowEntry(t).last < b[i].first
                        /\ b[i].first <= b[i].last /\ b[i].last <= LastUsable
  <2>1. \A e \in S : GrowEntry(t).last < e.first
    <3>1. ASSUME NEW e \in S PROVE GrowEntry(t).last < e.first
      <4>1. e \in t /\ e.first > GrowEntry(t).last
        BY DEF Behind
      <4>2. e.first \in Nat /\ GrowEntry(t).last \in Nat
        BY <4>1, EntryFacts, GrowEntryFacts
      <4> QED BY <4>1, <4>2
    <3> QED BY <3>1
  <2> QED BY <1>4, <2>1, EntryFacts
<1>6. ASSUME NEW i \in 1 .. n, NEW k \in 1 .. n, i < k PROVE b[i].last < b[k].first
  <2>1. b[i].first < b[k].first
    BY <1>2, <1>6 DEF Sorted
  <2>2. b[i] \in t /\ b[k] \in t
    BY <1>4
  <2>3. /\ b[i].first \in Nat /\ b[i].last \in Nat /\ b[i].first <= b[i].last
        /\ b[k].first \in Nat /\ b[k].last \in Nat /\ b[k].first <= b[k].last
    BY <2>2, EntryFacts
  <2>4. b[i] # b[k]
    BY <2>1, <2>3, Irreflexive
  <2>5. b[i].last < b[k].first \/ b[k].last < b[i].first
    BY <2>2, <2>4, EntriesApart
  <2> QED BY <2>1, <2>3, <2>5
<1>7. ASSUME NEW e \in t, e.first > GrowEntry(t).last PROVE \E i \in 1 .. n : e = b[i]
  <2>1. e \in S
    BY <1>7 DEF Behind
  <2> QED BY <1>3, <2>1
<1>8. b \in [1 .. n -> EntryRecords]
  <2> HIDE DEF S
  <2> QED BY <1>1, <1>2
<1> QED BY <1>1, <1>5, <1>6, <1>7, <1>8 DEF Ordered, b

(* And nothing else is that.                                               *)
LEMMA BlockersAreUnique ==
  ASSUME NEW t, GoodTable(t), NEW c, NEW n, Ordered(t, c, n)
  PROVE  Blockers(t) = c /\ Count(t) = n
<1> DEFINE b == Blockers(t)
           S == Behind(t)
<1>1. n \in Nat /\ c \in [1 .. n -> EntryRecords]
  BY DEF Ordered
<1>2. ASSUME NEW i \in 1 .. n PROVE c[i] \in S
  <2>1. c[i] \in t /\ GrowEntry(t).last < c[i].first
    BY <1>2 DEF Ordered
  <2>2. c[i].first \in Nat /\ GrowEntry(t).last \in Nat
    BY <2>1, EntryFacts, GrowEntryFacts
  <2>3. c[i].first > GrowEntry(t).last
    BY <2>1, <2>2
  <2> QED BY <2>1, <2>3 DEF Behind
<1>3. c \in [1 .. n -> S]
  <2> HIDE DEF S
  <2> QED BY <1>1, <1>2
<1>4. \A e \in S : \E i \in 1 .. n : c[i] = e
  <2>1. SUFFICES ASSUME NEW e \in S PROVE \E i \in 1 .. n : c[i] = e
    OBVIOUS
  <2>2. e \in t /\ e.first > GrowEntry(t).last
    BY DEF Behind
  <2> QED BY <2>2 DEF Ordered
<1>5. Sorted(c)
  <2>1. SUFFICES ASSUME NEW i \in 1 .. n, NEW k \in 1 .. n, i < k
                 PROVE  c[i].first < c[k].first
    BY <1>1 DEF Sorted
  <2>2. c[i] \in t /\ c[k] \in t /\ c[i].last < c[k].first
    BY <2>1 DEF Ordered
  <2>3. c[i].first \in Nat /\ c[i].last \in Nat /\ c[i].first <= c[i].last /\ c[k].first \in Nat
    BY <2>2, EntryFacts
  <2> QED BY <2>2, <2>3
<1>6. c \in Bijection(1 .. n, S)
  <2>1. ASSUME NEW i \in 1 .. n, NEW k \in 1 .. n, c[i] = c[k] PROVE i = k
    <3>1. c[i].first \in Nat
      BY <1>1 DEF EntryRecords
    <3>2. i < k => c[i].first < c[k].first
      BY <1>1, <1>5 DEF Sorted
    <3>3. k < i => c[k].first < c[i].first
      BY <1>1, <1>5 DEF Sorted
    <3>4. ~ (c[i].first < c[i].first)
      BY <3>1, Irreflexive
    <3>5. ~ (i < k) /\ ~ (k < i)
      BY <2>1, <3>2, <3>3, <3>4
    <3> QED BY <1>1, <3>5
  <2>2. IsInjective(c)
    BY <1>1, <2>1 DEF IsInjective
  <2> HIDE DEF S
  <2>3. c \in Injection(1 .. n, S)
    BY <1>3, <2>2 DEF Injection
  <2>4. c \in Surjection(1 .. n, S)
    BY <1>3, <1>4 DEF Surjection
  <2> QED BY <2>3, <2>4 DEF Bijection
<1>7. Count(t) = n
  <2> HIDE DEF S
  <2>1. ExistsBijection(1 .. n, S)
    BY <1>6 DEF ExistsBijection
  <2>2. Cardinality(S) = n
    BY <1>1, <2>1, FS_CountingElements
  <2> QED BY <2>2 DEF Count, S
<1>8. Ordered(t, b, n)
  BY <1>7, BlockersAreOrdered
<1>9. S \in SUBSET EntryRecords /\ IsFiniteSet(S)
  BY BehindFacts
<1>10. b \in [1 .. n -> S] /\ Sorted(b)
  <2>1. \E d \in [1 .. Cardinality(S) -> S] : \A i, k \in DOMAIN d : i < k => d[i].first < d[k].first
    <3> HIDE DEF S
    <3>1. c \in [1 .. Cardinality(S) -> S]
      BY <1>3, <1>7 DEF Count, S
    <3> QED BY <1>5, <3>1 DEF Sorted
  <2>2. /\ b \in [1 .. Cardinality(S) -> S]
        /\ \A i, k \in DOMAIN b : i < k => b[i].first < b[k].first
    BY <2>1 DEF Blockers
  <2> HIDE DEF S, b
  <2> QED BY <1>7, <2>2 DEF Sorted, Count, S
<1>11. \A e \in S : \E i \in 1 .. n : b[i] = e
  <2>1. SUFFICES ASSUME NEW e \in S PROVE \E i \in 1 .. n : b[i] = e
    OBVIOUS
  <2>2. e \in t /\ e.first > GrowEntry(t).last
    BY DEF Behind
  <2> HIDE DEF b
  <2> QED BY <1>8, <2>2 DEF Ordered
<1>12. b = c
  <2> HIDE DEF S, b
  <2> QED BY <1>1, <1>3, <1>4, <1>5, <1>9, <1>10, <1>11, EnumerationIsUnique
<1> QED BY <1>7, <1>12

-----------------------------------------------------------------------------
(* What the planners see to.                                               *)

(* Neighbours that do not meet do not meet at any distance.                *)
LEMMA SpacedOut ==
  ASSUME NEW n \in Nat, NEW s \in [1 .. n -> Int], NEW len \in [1 .. n -> Nat],
         \A i \in 2 .. n : s[i - 1] + len[i - 1] <= s[i]
  PROVE  \A i, k \in 1 .. n : i < k => s[i] + len[i] <= s[k]
<1>1. SUFFICES ASSUME NEW i \in 1 .. n PROVE \A k \in 1 .. n : i < k => s[i] + len[i] <= s[k]
  OBVIOUS
<1> DEFINE Bad == {k \in 1 .. n : i < k /\ ~ (s[i] + len[i] <= s[k])}
<1>2. SUFFICES ASSUME Bad # {} PROVE FALSE
  OBVIOUS
<1>3. PICK k \in Bad : \A j \in Bad : k <= j
  <2>1. Bad \in SUBSET Nat
    OBVIOUS
  <2> HIDE DEF Bad
  <2> QED BY <1>2, <2>1, LeastNatural
<1>4. k \in 2 .. n /\ i < k /\ ~ (s[i] + len[i] <= s[k])
  BY <1>3
<1>5. s[k - 1] + len[k - 1] <= s[k]
  BY <1>4
<1>6. k - 1 \in 1 .. n /\ k - 1 < k
  BY <1>4
<1>7. k - 1 \notin Bad
  <2> HIDE DEF Bad
  <2> QED BY <1>3, <1>4, <1>6
<1>8. i = k - 1 \/ s[i] + len[i] <= s[k - 1]
  BY <1>4, <1>6, <1>7
<1>9. s[i] \in Int /\ len[i] \in Nat /\ s[k] \in Int /\ s[k - 1] \in Int /\ len[k - 1] \in Nat
  BY <1>4, <1>6
<1>10. CASE i = k - 1
  <2>1. s[i] + len[i] <= s[k]
    BY <1>5, <1>10
  <2> QED BY <1>4, <2>1
<1>11. CASE s[i] + len[i] <= s[k - 1]
  <2>1. s[k - 1] <= s[k]
    BY <1>5, <1>9
  <2>2. s[i] + len[i] <= s[k]
    BY <1>9, <1>11, <2>1
  <2> QED BY <1>4, <2>2
<1> QED BY <1>8, <1>10, <1>11

(* Each blocker in disk order is an entry of the table with a positive     *)
(* length.                                                                 *)
LEMMA LengthsOfBlockers ==
  ASSUME NEW t, GoodTable(t), NEW b, NEW n, Ordered(t, b, n)
  PROVE  /\ n \in Nat
         /\ \A i \in 1 .. n : /\ b[i] \in EntryRecords /\ b[i] \in t
                              /\ b[i].part \in Nat \ {0} /\ b[i].first \in Nat /\ b[i].last \in Nat
                              /\ Length(b[i]) \in Nat \ {0}
                              /\ Length(b[i]) = b[i].last - b[i].first + 1
         /\ [i \in 1 .. n |-> Length(b[i])] \in [1 .. n -> Nat]
<1>1. ASSUME NEW i \in 1 .. n
      PROVE  /\ b[i] \in EntryRecords /\ b[i] \in t
             /\ b[i].part \in Nat \ {0} /\ b[i].first \in Nat /\ b[i].last \in Nat
             /\ Length(b[i]) \in Nat \ {0}
             /\ Length(b[i]) = b[i].last - b[i].first + 1
  <2>1. b[i] \in t
    BY DEF Ordered
  <2> QED BY <2>1, EntryFacts
<1> QED BY <1>1 DEF Ordered

(* plan_tail_packed leaves no gap at all.                                  *)
LEMMA TailLands ==
  ASSUME NEW t, GoodTable(t), NEW b, NEW n, Ordered(t, b, n),
         \A i \in 1 .. n : ~ (TailStarts(b)[i] < b[i].first)
  PROVE  Lands(b, TailStarts(b), n)
<1> DEFINE s == TailStarts(b)
           len == [i \in 1 .. n |-> Length(b[i])]
<1>1. n \in Nat /\ b \in [1 .. n -> EntryRecords]
  BY DEF Ordered
<1>2. s \in [1 .. n -> Int] /\ TailSteps(s, b, n)
  BY <1>1, TailStartsValue
<1>3. \A i \in 1 .. n : ~ (s[i] < b[i].first)
  OBVIOUS
<1> HIDE DEF s
<1>4. len \in [1 .. n -> Nat]
  BY LengthsOfBlockers
<1>5. ASSUME NEW i \in 2 .. n PROVE s[i] = s[i - 1] + Length(b[i - 1])
  <2>1. i - 1 \in 1 .. n /\ i - 1 # n /\ (i - 1) + 1 = i /\ i \in 1 .. n
    BY <1>1
  <2>2. s[i - 1] = s[i] - Length(b[i - 1])
    BY <1>2, <2>1 DEF TailSteps
  <2>3. s[i] \in Int /\ s[i - 1] \in Int /\ Length(b[i - 1]) \in Nat
    BY <1>2, <2>1, LengthsOfBlockers
  <2> QED BY <2>2, <2>3
<1>6. \A i, k \in 1 .. n : i < k => s[i] + Length(b[i]) <= s[k]
  <2>1. \A i \in 2 .. n : s[i - 1] + len[i - 1] <= s[i]
    <3>1. SUFFICES ASSUME NEW i \in 2 .. n PROVE s[i - 1] + len[i - 1] <= s[i]
      OBVIOUS
    <3>2. i - 1 \in 1 .. n /\ i \in 1 .. n
      BY <1>1
    <3>3. len[i - 1] = Length(b[i - 1]) /\ s[i] \in Int
      BY <1>2, <3>2
    <3> QED BY <1>5, <3>3
  <2>2. \A i \in 1 .. n : len[i] = Length(b[i])
    OBVIOUS
  <2> HIDE DEF len
  <2>3. \A i, k \in 1 .. n : i < k => s[i] + len[i] <= s[k]
    BY <1>1, <1>2, <1>4, <2>1, SpacedOut
  <2> QED BY <2>2, <2>3
<1>7. ASSUME NEW i \in 1 .. n PROVE b[i].first <= s[i] /\ s[i] + Length(b[i]) - 1 <= LastUsable
  <2>1. s[i] \in Int /\ b[i].first \in Nat /\ Length(b[i]) \in Nat /\ LastUsable \in Nat
    BY <1>2, LengthsOfBlockers, RelocPlanAssumption
  <2>2. CASE i = n
    <3>1. s[n] = (IF n = n THEN LastUsable + 1 ELSE s[n + 1]) - Length(b[n])
      BY <1>2, <2>2 DEF TailSteps
    <3>2. s[i] = LastUsable + 1 - Length(b[i])
      BY <2>1, <2>2, <3>1
    <3> QED BY <1>3, <2>1, <3>2
  <2>3. CASE i # n
    <3>1. n \in 1 .. n /\ i < n
      BY <1>1, <2>3
    <3>2. s[n] = LastUsable + 1 - Length(b[n])
      <4>1. s[n] = (IF n = n THEN LastUsable + 1 ELSE s[n + 1]) - Length(b[n])
        BY <1>2, <3>1 DEF TailSteps
      <4>2. Length(b[n]) \in Nat
        BY <3>1, LengthsOfBlockers
      <4> QED BY <2>1, <4>1, <4>2
    <3>3. s[i] + Length(b[i]) <= s[n]
      BY <1>6, <3>1
    <3>4. Length(b[n]) \in Nat /\ s[n] \in Int
      BY <1>2, <3>1, LengthsOfBlockers
    <3> QED BY <1>3, <2>1, <3>2, <3>3, <3>4
  <2> QED BY <2>2, <2>3
<1> HIDE DEF len
<1>8. Lands(b, s, n)
  BY <1>2, <1>5, <1>6, <1>7 DEF Lands
<1> QED BY <1>8 DEF s

(* shift_plan_from leaves a gap only in front of an entry it does not move,*)
(* and starts behind the requested end.                                    *)
LEMMA ShiftLands ==
  ASSUME NEW t, GoodTable(t), NEW b, NEW n, Ordered(t, b, n), NEW shift \in Nat,
         \A i \in 1 .. n : ~ (ShiftStarts(t, b, shift)[i] + Length(b[i]) - 1 > LastUsable)
  PROVE  Lands(b, ShiftStarts(t, b, shift), n)
<1> DEFINE s == ShiftStarts(t, b, shift)
           len == [i \in 1 .. n |-> Length(b[i])]
<1>1. n \in Nat /\ b \in [1 .. n -> EntryRecords]
  BY DEF Ordered
<1>2. s \in [1 .. n -> Int] /\ ShiftSteps(s, t, b, shift, n)
  <2>1. GrowEntry(t).last \in Nat
    BY GrowEntryFacts
  <2> QED BY <1>1, <2>1, ShiftStartsValue
<1>3. \A i \in 1 .. n : ~ (s[i] + Length(b[i]) - 1 > LastUsable)
  OBVIOUS
<1> HIDE DEF s
<1>4. len \in [1 .. n -> Nat]
  BY LengthsOfBlockers
<1>5. ASSUME NEW i \in 2 .. n
      PROVE  /\ s[i] = s[i - 1] + Length(b[i - 1]) \/ s[i] = b[i].first
             /\ s[i - 1] + Length(b[i - 1]) <= s[i]
  <2>1. i - 1 \in 1 .. n /\ i \in 1 .. n /\ i # 1
    BY <1>1
  <2>2. s[i] = Max2(b[i].first, s[i - 1] + Length(b[i - 1]))
    BY <1>2, <2>1 DEF ShiftSteps
  <2>3. s[i - 1] \in Int /\ Length(b[i - 1]) \in Nat /\ b[i].first \in Nat
    BY <1>2, <2>1, LengthsOfBlockers
  <2> QED BY <2>2, <2>3 DEF Max2
<1>6. \A i, k \in 1 .. n : i < k => s[i] + Length(b[i]) <= s[k]
  <2>1. \A i \in 2 .. n : s[i - 1] + len[i - 1] <= s[i]
    <3>1. SUFFICES ASSUME NEW i \in 2 .. n PROVE s[i - 1] + len[i - 1] <= s[i]
      OBVIOUS
    <3>2. i - 1 \in 1 .. n
      BY <1>1
    <3>3. len[i - 1] = Length(b[i - 1])
      BY <3>2
    <3> QED BY <1>5, <3>3
  <2>2. \A i \in 1 .. n : len[i] = Length(b[i])
    OBVIOUS
  <2> HIDE DEF len
  <2>3. \A i, k \in 1 .. n : i < k => s[i] + len[i] <= s[k]
    BY <1>1, <1>2, <1>4, <2>1, SpacedOut
  <2> QED BY <2>2, <2>3
<1>7. ASSUME NEW i \in 1 .. n PROVE b[i].first <= s[i] /\ s[i] + Length(b[i]) - 1 <= LastUsable
  <2>1. s[i] \in Int /\ b[i].first \in Nat /\ Length(b[i]) \in Nat /\ LastUsable \in Nat
    BY <1>2, LengthsOfBlockers, RelocPlanAssumption
  <2>2. b[i].first <= s[i]
    <3> DEFINE low == IF i = 1 THEN GrowEntry(t).last + shift + 1 ELSE s[i - 1] + Length(b[i - 1])
    <3>1. s[i] = Max2(b[i].first, low)
      BY <1>2 DEF ShiftSteps
    <3>2. low \in Int
      <4>1. CASE i = 1
        <5>1. GrowEntry(t).last \in Nat
          BY GrowEntryFacts
        <5> QED BY <4>1, <5>1
      <4>2. CASE i # 1
        <5>1. i - 1 \in 1 .. n
          BY <1>1, <4>2
        <5>2. s[i - 1] \in Int /\ Length(b[i - 1]) \in Nat
          BY <1>2, <5>1, LengthsOfBlockers
        <5> QED BY <4>2, <5>2
      <4> QED BY <4>1, <4>2
    <3> HIDE DEF low
    <3> QED BY <2>1, <3>1, <3>2 DEF Max2
  <2> QED BY <1>3, <2>1, <2>2
<1> HIDE DEF len
<1>8. Lands(b, s, n)
  BY <1>2, <1>5, <1>6, <1>7 DEF Lands
<1> QED BY <1>8 DEF s

-----------------------------------------------------------------------------
(* The moves of a landing.                                                 *)
LEMMA MoveFacts ==
  ASSUME NEW t, GoodTable(t), NEW b, NEW n, Ordered(t, b, n), NEW s, Lands(b, s, n),
         NEW i \in 1 .. n
  PROVE  LET m == MoveTo(b[i], s[i])
         IN /\ m \in MoveRecords /\ m.part = b[i].part
            /\ m.len = Length(b[i]) /\ NewFirst(m) = s[i]
            /\ Source(m) = b[i].first .. b[i].last
            /\ Target(m) = s[i] .. (s[i] + Length(b[i]) - 1)
            /\ m.delta # 0 => b[i].first < s[i]
            /\ s[i] \in Nat
<1> DEFINE m == MoveTo(b[i], s[i])
<1>1. /\ b[i] \in EntryRecords /\ b[i].part \in Nat \ {0}
      /\ b[i].first \in Nat /\ b[i].last \in Nat
      /\ Length(b[i]) \in Nat \ {0} /\ Length(b[i]) = b[i].last - b[i].first + 1
  BY LengthsOfBlockers
<1>2. s[i] \in Int /\ b[i].first <= s[i]
  BY DEF Lands
<1>3. /\ m.part = b[i].part /\ m.first = b[i].first /\ m.len = Length(b[i])
      /\ m.delta = s[i] - b[i].first /\ m.swap = (b[i].kind = "swap")
  BY DEF MoveTo
<1>4. s[i] - b[i].first \in Nat /\ b[i].first + (s[i] - b[i].first) = s[i] /\ s[i] \in Nat
  BY <1>1, <1>2
<1>5. m \in MoveRecords
  BY <1>1, <1>4 DEF MoveTo, MoveRecords
<1>6. NewFirst(m) = s[i]
  BY <1>3, <1>4 DEF NewFirst
<1>7. Source(m) = b[i].first .. b[i].last
  <2>1. b[i].first + Length(b[i]) - 1 = b[i].last
    BY <1>1
  <2> QED BY <1>3, <2>1 DEF Source, Extent
<1>8. Target(m) = s[i] .. (s[i] + Length(b[i]) - 1)
  BY <1>3, <1>6 DEF Target, Extent
<1>9. m.delta # 0 => b[i].first < s[i]
  BY <1>1, <1>2, <1>3
<1> HIDE DEF m
<1>10. /\ m \in MoveRecords /\ m.part = b[i].part
       /\ m.len = Length(b[i]) /\ NewFirst(m) = s[i]
       /\ Source(m) = b[i].first .. b[i].last
       /\ Target(m) = s[i] .. (s[i] + Length(b[i]) - 1)
       /\ m.delta # 0 => b[i].first < s[i]
       /\ s[i] \in Nat
  BY <1>3, <1>4, <1>5, <1>6, <1>7, <1>8, <1>9
<1> QED BY <1>10 DEF m

(* The moves of the k leftmost blockers, the rightmost first.              *)
LEMMA RemainingFacts ==
  ASSUME NEW n \in Nat, NEW b, NEW s, NEW k \in 0 .. n
  PROVE  /\ DOMAIN Remaining(b, s, k) = 1 .. k
         /\ \A j \in 1 .. k : /\ k - j + 1 \in 1 .. k /\ k - j + 1 \in 1 .. n
                              /\ Remaining(b, s, k)[j] = MoveTo(b[k - j + 1], s[k - j + 1])
                              /\ Remaining(b, s, k)[k - j + 1] = MoveTo(b[j], s[j])
         /\ Remaining(b, s, k) = <<>> <=> k = 0
<1>1. DOMAIN Remaining(b, s, k) = 1 .. k
  BY DEF Remaining
<1>2. ASSUME NEW j \in 1 .. k
      PROVE  /\ k - j + 1 \in 1 .. k /\ k - j + 1 \in 1 .. n
             /\ Remaining(b, s, k)[j] = MoveTo(b[k - j + 1], s[k - j + 1])
             /\ Remaining(b, s, k)[k - j + 1] = MoveTo(b[j], s[j])
  <2>1. k - j + 1 \in 1 .. k /\ k - j + 1 \in 1 .. n /\ k - (k - j + 1) + 1 = j
    OBVIOUS
  <2> QED BY <2>1 DEF Remaining
<1>3. k = 0 => Remaining(b, s, k) = <<>>
  <2>1. SUFFICES ASSUME k = 0 PROVE Remaining(b, s, k) = <<>>
    OBVIOUS
  <2> QED BY <2>1 DEF Remaining
<1>4. k # 0 => Remaining(b, s, k) # <<>>
  <2>1. SUFFICES ASSUME k # 0 PROVE Remaining(b, s, k) # <<>>
    OBVIOUS
  <2>2. 1 \in 1 .. k
    BY <2>1
  <2>3. DOMAIN <<>> = {}
    OBVIOUS
  <2> QED BY <1>1, <2>2, <2>3
<1> QED BY <1>1, <1>2, <1>3, <1>4

(* What remains of a plan that lands is a sequence of moves.               *)
LEMMA RemainingType ==
  ASSUME NEW t, GoodTable(t), NEW b, NEW n, Ordered(t, b, n), NEW s, Lands(b, s, n),
         NEW k \in 0 .. n
  PROVE  Remaining(b, s, k) \in Seq(MoveRecords) /\ Len(Remaining(b, s, k)) = k
<1>1. n \in Nat
  BY DEF Ordered
<1>2. \A j \in 1 .. k : MoveTo(b[k - j + 1], s[k - j + 1]) \in MoveRecords
  BY <1>1, RemainingFacts, MoveFacts
<1>3. Remaining(b, s, k) \in [1 .. k -> MoveRecords]
  BY <1>2 DEF Remaining
<1>4. k \in Nat
  BY <1>1
<1> QED BY <1>3, <1>4

(* The grown partition ends right before the first blocker's new start.    *)
LEMMA GrowEndIs ==
  ASSUME NEW t, GoodTable(t), NEW b, NEW n, Ordered(t, b, n), NEW s, Lands(b, s, n),
         NEW k \in 1 .. n
  PROVE  GrowEnd(Remaining(b, s, k), LastUsable) = s[1] - 1
<1> DEFINE moves == Remaining(b, s, k)
           starts == {NewFirst(moves[i]) : i \in DOMAIN moves}
           least == CHOOSE f \in starts : \A g \in starts : f <= g
<1>1. n \in Nat /\ k \in 0 .. n /\ 1 \in 1 .. n /\ k \in 1 .. k
  BY DEF Ordered
<1>2. /\ DOMAIN moves = 1 .. k /\ moves # <<>>
      /\ \A j \in 1 .. k : /\ k - j + 1 \in 1 .. n
                           /\ moves[j] = MoveTo(b[k - j + 1], s[k - j + 1])
  <2>1. k # 0
    BY <1>1
  <2> QED BY <1>1, <2>1, RemainingFacts
<1>3. \A j \in 1 .. k : NewFirst(moves[j]) = s[k - j + 1]
  BY <1>2, MoveFacts
<1>4. \A i \in 1 .. n : s[1] <= s[i]
  <2>1. SUFFICES ASSUME NEW i \in 1 .. n PROVE s[1] <= s[i]
    OBVIOUS
  <2>2. s[1] \in Int /\ s[i] \in Int /\ Length(b[1]) \in Nat
    BY <1>1, LengthsOfBlockers DEF Lands
  <2>3. i = 1 \/ s[1] + Length(b[1]) <= s[i]
    BY <1>1 DEF Lands
  <2> QED BY <2>2, <2>3
<1>5. s[1] \in starts
  <2>1. NewFirst(moves[k]) = s[1]
    BY <1>1, <1>3
  <2> HIDE DEF moves
  <2> QED BY <1>1, <1>2, <2>1
<1>6. \A g \in starts : s[1] <= g /\ g \in Int
  <2>1. \A i \in 1 .. n : s[i] \in Int
    BY DEF Lands
  <2> HIDE DEF moves
  <2> QED BY <1>2, <1>3, <1>4, <2>1
<1>7. least = s[1]
  <2> HIDE DEF starts
  <2>1. least \in starts /\ \A g \in starts : least <= g
    BY <1>5, <1>6
  <2>2. least <= s[1] /\ s[1] <= least /\ least \in Int /\ s[1] \in Int
    BY <1>5, <1>6, <2>1
  <2> HIDE DEF least
  <2> QED BY <2>2
<1> HIDE DEF moves
<1>8. GrowEnd(moves, LastUsable) = least - 1
  BY <1>2 DEF GrowEnd
<1> QED BY <1>7, <1>8 DEF moves

(* A landing is carried out from the right without a move covering another *)
(* target, what is still to be copied, or a partition that does not move.  *)
LEMMA LandingIsExecutable ==
  ASSUME NEW t, GoodTable(t), NEW b, NEW n, Ordered(t, b, n), NEW s, Lands(b, s, n),
         NEW k \in 0 .. n
  PROVE  Executable(Remaining(b, s, k), LastUsable)
<1> DEFINE moves == Remaining(b, s, k)
<1>1. n \in Nat
  BY DEF Ordered
<1>2. /\ DOMAIN moves = 1 .. k
      /\ \A j \in 1 .. k : /\ k - j + 1 \in 1 .. n
                           /\ moves[j] = MoveTo(b[k - j + 1], s[k - j + 1])
  BY <1>1, RemainingFacts
<1> HIDE DEF moves
<1>3. ASSUME NEW j \in 1 .. k PROVE NewFirst(moves[j]) + moves[j].len - 1 <= LastUsable
  <2>1. s[k - j + 1] + Length(b[k - j + 1]) - 1 <= LastUsable
    BY <1>2 DEF Lands
  <2>2. NewFirst(moves[j]) = s[k - j + 1] /\ moves[j].len = Length(b[k - j + 1])
    BY <1>2, MoveFacts
  <2> QED BY <2>1, <2>2
<1>4. ASSUME NEW i \in 1 .. k, NEW j \in 1 .. k, i < j
      PROVE  /\ Disjoint(Source(moves[i]), Source(moves[j]))
             /\ Disjoint(Target(moves[i]), Target(moves[j]))
             /\ Disjoint(Target(moves[i]), Source(moves[j]))
  <2> DEFINE p == k - i + 1
             q == k - j + 1
  <2>1. p \in 1 .. n /\ q \in 1 .. n /\ q < p
    BY <1>1, <1>2, <1>4
  <2>2. /\ Source(moves[i]) = b[p].first .. b[p].last
        /\ Target(moves[i]) = s[p] .. (s[p] + Length(b[p]) - 1)
        /\ Source(moves[j]) = b[q].first .. b[q].last
        /\ Target(moves[j]) = s[q] .. (s[q] + Length(b[q]) - 1)
    BY <1>2, MoveFacts
  <2> HIDE DEF p, q
  <2>3. b[q].last < b[p].first
    BY <2>1 DEF Ordered
  <2>4. s[q] + Length(b[q]) <= s[p] /\ b[p].first <= s[p]
    BY <2>1 DEF Lands
  <2>5. /\ s[p] \in Int /\ s[q] \in Int /\ Length(b[p]) \in Nat /\ Length(b[q]) \in Nat
        /\ b[p].first \in Nat /\ b[p].last \in Nat /\ b[q].first \in Nat /\ b[q].last \in Nat
    BY <2>1, LengthsOfBlockers DEF Lands
  <2>6. (b[p].first .. b[p].last) \cap (b[q].first .. b[q].last) = {}
    BY <2>3, <2>5
  <2>7. (s[p] .. (s[p] + Length(b[p]) - 1)) \cap (s[q] .. (s[q] + Length(b[q]) - 1)) = {}
    BY <2>4, <2>5
  <2>8. (s[p] .. (s[p] + Length(b[p]) - 1)) \cap (b[q].first .. b[q].last) = {}
    BY <2>3, <2>4, <2>5
  <2> QED BY <2>2, <2>6, <2>7, <2>8 DEF Disjoint
<1>5. Executable(moves, LastUsable)
  BY <1>2, <1>3, <1>4 DEF Executable
<1> QED BY <1>5 DEF moves

(* Of the blockers whose new start is not behind x, the last one.          *)
LEMMA LastNotBehind ==
  ASSUME NEW n \in Nat, NEW s \in [1 .. n -> Int], NEW i \in 1 .. n, NEW x \in Int, s[1] <= x
  PROVE  \E p \in 1 .. i : s[p] <= x /\ \A q \in 1 .. i : p < q => x < s[q]
<1> DEFINE D == {d \in 0 .. (i - 1) : s[i - d] <= x}
<1>1. D \in SUBSET Nat
  OBVIOUS
<1>2. i - 1 \in D
  <2>1. i - 1 \in 0 .. (i - 1) /\ i - (i - 1) = 1
    OBVIOUS
  <2> QED BY <2>1
<1>3. PICK d \in D : \A e \in D : d <= e
  <2> HIDE DEF D
  <2> QED BY <1>1, <1>2, LeastNatural
<1>4. d \in 0 .. (i - 1) /\ s[i - d] <= x
  BY <1>3
<1>5. ASSUME NEW q \in 1 .. i, i - d < q PROVE x < s[q]
  <2>1. i - q \in 0 .. (i - 1) /\ i - q < d /\ i - (i - q) = q
    BY <1>4, <1>5
  <2>2. i - q \notin D
    <3> HIDE DEF D
    <3>1. ~ (d <= i - q)
      BY <1>4, <2>1
    <3> QED BY <1>3, <3>1
  <2>3. ~ (s[q] <= x)
    BY <2>1, <2>2
  <2>4. s[q] \in Int
    OBVIOUS
  <2> QED BY <2>3, <2>4
<1>6. i - d \in 1 .. i
  BY <1>4
<1> QED BY <1>4, <1>5, <1>6

(* Whatever a moving blocker leaves goes to the grown partition or to      *)
(* another blocker: in front of a blocker that moves there is no gap.      *)
LEMMA LandingLeavesNoGap ==
  ASSUME NEW t, GoodTable(t), NEW b, NEW n, Ordered(t, b, n), NEW s, Lands(b, s, n),
         NEW k \in 0 .. n
  PROVE  LeavesNoGap(Remaining(b, s, k), LastUsable)
<1> DEFINE moves == Remaining(b, s, k)
<1>1. n \in Nat /\ s \in [1 .. n -> Int]
  BY DEF Ordered, Lands
<1>2. /\ DOMAIN moves = 1 .. k
      /\ \A j \in 1 .. k : /\ k - j + 1 \in 1 .. n /\ k - j + 1 \in 1 .. k
                           /\ moves[j] = MoveTo(b[k - j + 1], s[k - j + 1])
                           /\ moves[k - j + 1] = MoveTo(b[j], s[j])
  <2>1. DOMAIN moves = 1 .. k
    BY <1>1, RemainingFacts
  <2>2. \A j \in 1 .. k : /\ k - j + 1 \in 1 .. n /\ k - j + 1 \in 1 .. k
                         /\ moves[j] = MoveTo(b[k - j + 1], s[k - j + 1])
                         /\ moves[k - j + 1] = MoveTo(b[j], s[j])
    <3>1. SUFFICES ASSUME NEW j \in 1 .. k
                   PROVE  /\ k - j + 1 \in 1 .. n /\ k - j + 1 \in 1 .. k
                          /\ moves[j] = MoveTo(b[k - j + 1], s[k - j + 1])
                          /\ moves[k - j + 1] = MoveTo(b[j], s[j])
      OBVIOUS
    <3>2. k - j + 1 \in 1 .. n /\ k - j + 1 \in 1 .. k
      BY <1>1
    <3>3. moves[j] = MoveTo(b[k - j + 1], s[k - j + 1])
      BY <1>1, RemainingFacts
    <3>4. moves[k - j + 1] = MoveTo(b[j], s[j])
      <4>1. k - (k - j + 1) + 1 = j
        BY <1>1
      <4> QED BY <3>2, <4>1 DEF Remaining
    <3> QED BY <3>2, <3>3, <3>4
  <2> QED BY <2>1, <2>2
<1>3. k # 0 => GrowEnd(moves, LastUsable) = s[1] - 1
  BY <1>1, GrowEndIs
<1> HIDE DEF moves
<1>4. SUFFICES ASSUME NEW j \in 1 .. k, moves[j].delta # 0, NEW x \in Source(moves[j]),
                      ~ (x <= GrowEnd(moves, LastUsable))
               PROVE  \E m \in 1 .. k : x \in Target(moves[m])
  <2>1. LeavesNoGap(moves, LastUsable)
    <3>1. SUFFICES ASSUME NEW j \in DOMAIN moves, moves[j].delta # 0, NEW x \in Source(moves[j])
                   PROVE  x <= GrowEnd(moves, LastUsable) \/ \E m \in DOMAIN moves : x \in Target(moves[m])
      BY DEF LeavesNoGap
    <3> QED BY <1>2, <1>4, <3>1
  <2> QED BY <2>1 DEF moves
<1> DEFINE i == k - j + 1
<1>5. i \in 1 .. n /\ i \in 1 .. k /\ moves[j] = MoveTo(b[i], s[i])
  BY <1>2
<1>6. b[i].first < s[i] /\ x \in b[i].first .. b[i].last
  <2>1. MoveTo(b[i], s[i]).delta # 0 /\ x \in Source(MoveTo(b[i], s[i]))
    BY <1>4, <1>5
  <2> HIDE DEF i
  <2>2. /\ Source(MoveTo(b[i], s[i])) = b[i].first .. b[i].last
        /\ MoveTo(b[i], s[i]).delta # 0 => b[i].first < s[i]
    BY <1>5, MoveFacts
  <2> QED BY <2>1, <2>2
<1> HIDE DEF i
<1>7. /\ b[i].first \in Nat /\ b[i].last \in Nat /\ s[i] \in Int /\ s[1] \in Int
      /\ Length(b[i]) = b[i].last - b[i].first + 1
  BY <1>1, <1>5, LengthsOfBlockers
<1>8. x \in Int /\ s[1] <= x
  BY <1>3, <1>4, <1>6, <1>7
<1>9. PICK p \in 1 .. i : s[p] <= x /\ \A q \in 1 .. i : p < q => x < s[q]
  BY <1>1, <1>5, <1>8, LastNotBehind
<1>10. p \in 1 .. n /\ p \in 1 .. k
  BY <1>1, <1>5
<1>11. s[p] \in Int /\ Length(b[p]) \in Nat
  BY <1>1, <1>10, LengthsOfBlockers
<1>12. x <= s[p] + Length(b[p]) - 1
  <2>1. CASE p = i
    BY <1>6, <1>7, <1>11, <2>1
  <2>2. CASE p # i
    <3>1. p + 1 \in 1 .. i /\ p < p + 1 /\ p + 1 \in 2 .. n /\ (p + 1) - 1 = p
      BY <1>1, <1>5, <1>9, <2>2
    <3>2. x < s[p + 1]
      BY <1>9, <3>1
    <3>3. s[p + 1] = s[p] + Length(b[p]) \/ s[p + 1] = b[p + 1].first
      BY <3>1 DEF Lands
    <3>4. b[p + 1].first <= x
      <4>1. p + 1 = i \/ b[p + 1].last < b[i].first
        BY <1>1, <1>5, <3>1 DEF Ordered
      <4>2. p + 1 \in 1 .. n
        BY <1>1, <3>1
      <4>3. b[p + 1].first \in Nat /\ b[p + 1].last \in Nat /\ b[p + 1].first <= b[p + 1].last
        <5>1. b[p + 1] \in t
          BY <4>2, LengthsOfBlockers
        <5> QED BY <5>1, EntryFacts
      <4> QED BY <1>6, <1>7, <4>1, <4>3
    <3>5. s[p + 1] \in Int
      BY <1>1, <3>1
    <3>6. s[p + 1] # b[p + 1].first
      BY <1>8, <3>2, <3>4, <3>5
    <3> QED BY <1>8, <1>11, <3>2, <3>3, <3>5, <3>6
  <2> QED BY <2>1, <2>2
<1>13. x \in s[p] .. (s[p] + Length(b[p]) - 1)
  BY <1>8, <1>9, <1>11, <1>12
<1>14. x \in Target(moves[k - p + 1])
  <2>1. moves[k - p + 1] = MoveTo(b[p], s[p])
    BY <1>2, <1>10
  <2>2. Target(MoveTo(b[p], s[p])) = s[p] .. (s[p] + Length(b[p]) - 1)
    BY <1>10, MoveFacts
  <2> QED BY <1>13, <2>1, <2>2
<1>15. k - p + 1 \in 1 .. k
  BY <1>2, <1>10
<1> QED BY <1>14, <1>15

(* The entries that do not move any more: the target, what lies in front   *)
(* of it, and the blockers that stand where the plan puts them.            *)
LEMMA OthersKeepClear ==
  ASSUME NEW t, GoodTable(t), NEW b, NEW n, Ordered(t, b, n), NEW s, Lands(b, s, n),
         NEW k \in 0 .. n, \A i \in (k + 1) .. n : b[i].first = s[i],
         NEW i \in 1 .. k, NEW e \in t, \A j \in 1 .. k : e # b[j]
  PROVE  e.last < s[i] \/ s[i] + Length(b[i]) - 1 < e.first
<1>1. n \in Nat /\ i \in 1 .. n /\ b[i] \in t
  BY DEF Ordered
<1>2. /\ e.first \in Nat /\ e.last \in Nat /\ e.first <= e.last
      /\ b[i].first \in Nat /\ Length(b[i]) \in Nat /\ s[i] \in Int /\ b[i].first <= s[i]
      /\ GrowEntry(t).last < b[i].first /\ GrowEntry(t).last \in Nat /\ GrowEntry(t).first \in Nat
      /\ GrowEntry(t).first <= GrowEntry(t).last
  BY <1>1, EntryFacts, LengthsOfBlockers, GrowEntryFacts DEF Lands, Ordered
<1>3. CASE e.first > GrowEntry(t).last
  <2>1. PICK j \in 1 .. n : e = b[j]
    BY <1>3 DEF Ordered
  <2>2. j \in (k + 1) .. n /\ i < j
    BY <1>1, <2>1
  <2>3. e.first = s[j] /\ s[i] + Length(b[i]) <= s[j]
    BY <1>1, <2>1, <2>2 DEF Lands
  <2> QED BY <1>2, <2>3
<1>4. CASE e = GrowEntry(t)
  BY <1>2, <1>4
<1>5. CASE ~ (e.first > GrowEntry(t).last) /\ e # GrowEntry(t)
  <2>1. GrowEntry(t) \in t
    BY GrowEntryFacts
  <2>2. e.last < GrowEntry(t).first \/ GrowEntry(t).last < e.first
    BY <1>5, <2>1, EntriesApart
  <2> QED BY <1>2, <1>5, <2>2
<1> QED BY <1>3, <1>4, <1>5

-----------------------------------------------------------------------------
(* What MakePlan answers.                                                  *)
LEMMA BlockersFacts ==
  ASSUME NEW t, GoodTable(t)
  PROVE  /\ Ordered(t, Blockers(t), Count(t))
         /\ Count(t) \in Nat /\ Blockers(t) \in [1 .. Count(t) -> EntryRecords]
         /\ DOMAIN Blockers(t) = 1 .. Count(t)
         /\ Blockers(t) # <<>> => 1 \in 1 .. Count(t)
<1>1. Ordered(t, Blockers(t), Count(t))
  BY BlockersAreOrdered
<1>2. /\ Count(t) \in Nat /\ Blockers(t) \in [1 .. Count(t) -> EntryRecords]
      /\ DOMAIN Blockers(t) = 1 .. Count(t)
  BY <1>1 DEF Ordered
<1>3. ASSUME Blockers(t) # <<>> PROVE 1 \in 1 .. Count(t)
  <2>1. SUFFICES ASSUME Count(t) = 0 PROVE Blockers(t) = <<>>
    BY <1>2, <1>3
  <2>2. Blockers(t) \in [1 .. 0 -> EntryRecords]
    BY <1>2, <2>1
  <2> QED BY <2>2
<1> QED BY <1>1, <1>2, <1>3

(* The moves a planner emits are the remaining moves of all the blockers.  *)
LEMMA MovesOfPlan ==
  ASSUME NEW n \in Nat, NEW b \in [1 .. n -> EntryRecords], NEW s
  PROVE  Moves(b, s) = Remaining(b, s, n)
<1> DEFINE f == [i \in DOMAIN b |-> MoveTo(b[i], s[i])]
<1>1. DOMAIN b = 1 .. n
  OBVIOUS
<1>2. Len(f) = n
  BY <1>1
<1>3. Moves(b, s) = [i \in 1 .. n |-> f[(n - i) + 1]]
  <2> HIDE DEF f
  <2>1. Moves(b, s) = Reverse(f)
    BY DEF Moves, f
  <2> QED BY <1>2, <2>1 DEF Reverse
<1>4. \A i \in 1 .. n : f[(n - i) + 1] = MoveTo(b[n - i + 1], s[n - i + 1])
  <2>1. \A i \in 1 .. n : (n - i) + 1 \in 1 .. n
    OBVIOUS
  <2> QED BY <1>1, <2>1
<1> HIDE DEF f
<1> QED BY <1>3, <1>4 DEF Remaining

(* A request names a kind and a shift.                                     *)
LEMMA RequestFacts ==
  ASSUME NEW r \in Requests
  PROVE  r.kind \in {"tail", "shift"} /\ r.shift \in Nat
  BY RelocPlanAssumption

(* Whichever the request, the starts it asks for solve that planner's      *)
(* recursion.                                                              *)
LEMMA StartsFacts ==
  ASSUME NEW t, GoodTable(t), NEW r \in Requests
  PROVE  LET b == Blockers(t)
             n == Count(t)
             s == Starts(t, r)
         IN /\ s \in [1 .. n -> Int]
            /\ r.kind = "tail" => TailSteps(s, b, n)
            /\ r.kind # "tail" => ShiftSteps(s, t, b, r.shift, n)
<1>1. Count(t) \in Nat /\ Blockers(t) \in [1 .. Count(t) -> EntryRecords]
  BY BlockersFacts
<1>2. GrowEntry(t).last \in Nat /\ r.shift \in Nat
  BY GrowEntryFacts, RequestFacts
<1>3. CASE r.kind = "tail"
  BY <1>1, <1>3, TailStartsValue DEF Starts
<1>4. CASE r.kind # "tail"
  BY <1>1, <1>2, <1>4, ShiftStartsValue DEF Starts
<1> QED BY <1>3, <1>4

(* The first blocker of a shift plan starts right behind the requested end.*)
LEMMA MakePlanFacts ==
  ASSUME NEW t, GoodTable(t), NEW r \in Requests
  PROVE  LET b == Blockers(t)
             n == Count(t)
             s == Starts(t, r)
             p == MakePlan(t, r)
         IN /\ p.refused = "no" =>
                 /\ Lands(b, s, n) /\ p = Planned(Remaining(b, s, n))
                 /\ r.kind = "shift" => /\ 1 \in 1 .. n
                                        /\ s[1] = GrowEntry(t).last + r.shift + 1
            /\ p.refused # "no" => p = Refused(p.refused)
            /\ p.refused # "none yet"
            /\ p.refused = "space" =>
                 \E i \in 1 .. n : IF r.kind = "tail" THEN s[i] < b[i].first
                                   ELSE s[i] + Length(b[i]) - 1 > LastUsable
<1> DEFINE b == Blockers(t)
           n == Count(t)
           s == Starts(t, r)
           p == MakePlan(t, r)
<1>1. Ordered(t, b, n) /\ n \in Nat /\ b \in [1 .. n -> EntryRecords] /\ DOMAIN b = 1 .. n
  BY BlockersFacts
<1>2. r.kind \in {"tail", "shift"} /\ r.shift \in Nat
  BY RequestFacts
<1>3. Moves(b, s) = Remaining(b, s, n)
  <2> HIDE DEF b, n, s
  <2> QED BY <1>1, MovesOfPlan
<1>4. b # <<>> => 1 \in 1 .. n
  BY BlockersFacts
<1>5. CASE r.kind = "tail"
  <2>1. s = TailStarts(b)
    BY <1>5 DEF Starts
  <2>2. p = IF HasLocked(b) THEN Refused("locked")
            ELSE IF \E i \in 1 .. n : s[i] < b[i].first THEN Refused("space")
            ELSE Planned(Moves(b, s))
    <3>1. p = PlanTailPacked(t)
      BY <1>5 DEF MakePlan
    <3> QED BY <1>1, <2>1, <3>1 DEF PlanTailPacked
  <2> HIDE DEF b, n, s, p
  <2>3. CASE HasLocked(b)
    <3>1. p = Refused("locked") /\ p.refused = "locked"
      BY <2>2, <2>3 DEF Refused
    <3> QED BY <3>1 DEF b, n, s, p
  <2>4. CASE ~ HasLocked(b) /\ \E i \in 1 .. n : s[i] < b[i].first
    <3>1. p = Refused("space") /\ p.refused = "space"
      BY <2>2, <2>4 DEF Refused
    <3> QED BY <1>5, <2>4, <3>1 DEF b, n, s, p
  <2>5. CASE ~ HasLocked(b) /\ ~ \E i \in 1 .. n : s[i] < b[i].first
    <3>1. p = Planned(Remaining(b, s, n)) /\ p.refused = "no"
      BY <1>3, <2>2, <2>5 DEF Planned
    <3>2. Lands(b, s, n)
      BY <1>1, <2>1, <2>5, TailLands
    <3> QED BY <1>5, <3>1, <3>2 DEF b, n, s, p
  <2> QED BY <2>3, <2>4, <2>5
<1>6. CASE r.kind = "shift"
  <2> DEFINE shift == r.shift
             room == \E i \in 1 .. n : s[i] + Length(b[i]) - 1 > LastUsable
  <2>1. s = ShiftStarts(t, b, shift)
    BY <1>6 DEF Starts
  <2>2. p = IF shift = 0 THEN Refused("zero shift")
            ELSE IF HasLocked(b) THEN Refused("locked")
            ELSE IF b = <<>> THEN Refused("nothing to move")
            ELSE IF shift < b[1].first - GrowEntry(t).last THEN Refused("not needed")
            ELSE IF room THEN Refused("space")
            ELSE Planned(Moves(b, s))
    <3>1. p = PlanShift(t, shift)
      BY <1>6 DEF MakePlan
    <3> QED BY <1>1, <2>1, <3>1 DEF PlanShift
  <2> HIDE DEF b, n, s, p
  <2>3. CASE shift = 0 \/ HasLocked(b) \/ b = <<>> \/ shift < b[1].first - GrowEntry(t).last
    <3>1. p = Refused(p.refused) /\ p.refused \in {"zero shift", "locked", "nothing to move", "not needed"}
      BY <2>2, <2>3 DEF Refused
    <3> QED BY <3>1 DEF b, n, s, p
  <2>4. CASE /\ ~ (shift = 0 \/ HasLocked(b) \/ b = <<>> \/ shift < b[1].first - GrowEntry(t).last)
             /\ room
    <3>1. p = Refused("space") /\ p.refused = "space"
      BY <2>2, <2>4 DEF Refused
    <3> QED BY <1>6, <2>4, <3>1 DEF b, n, s, p
  <2>5. CASE /\ ~ (shift = 0 \/ HasLocked(b) \/ b = <<>> \/ shift < b[1].first - GrowEntry(t).last)
             /\ ~ room
    <3>1. p = Planned(Remaining(b, s, n)) /\ p.refused = "no"
      BY <1>3, <2>2, <2>5 DEF Planned
    <3>2. Lands(b, s, n)
      BY <1>1, <1>2, <2>1, <2>5, ShiftLands
    <3>3. 1 \in 1 .. n
      BY <1>4, <2>5
    <3>4. s[1] = Max2(b[1].first, GrowEntry(t).last + shift + 1)
      <4>1. ShiftSteps(s, t, b, shift, n)
        BY <1>6, StartsFacts DEF b, n, s
      <4>2. s[1] = Max2(b[1].first, IF 1 = 1 THEN GrowEntry(t).last + shift + 1
                                             ELSE s[1 - 1] + Length(b[1 - 1]))
        BY <3>3, <4>1 DEF ShiftSteps
      <4> QED BY <4>2
    <3>5. s[1] = GrowEntry(t).last + shift + 1
      <4>1. b[1].first \in Nat /\ GrowEntry(t).last \in Nat /\ shift \in Nat
        BY <1>1, <1>2, <3>3, LengthsOfBlockers, GrowEntryFacts
      <4> QED BY <2>5, <3>4, <4>1 DEF Max2
    <3> QED BY <1>6, <3>1, <3>2, <3>3, <3>5 DEF b, n, s, p
  <2> QED BY <2>3, <2>4, <2>5
<1> QED BY <1>2, <1>5, <1>6

-----------------------------------------------------------------------------
(* Committing the rightmost pending move: the blockers stay in order, and  *)
(* the plan of the new table is the plan of the old one.                   *)
Moved(e, start) == [e EXCEPT !.first = start, !.last = start + Length(e) - 1]

(* A committed move changes an entry's place and nothing else.             *)
LEMMA MovedFacts ==
  ASSUME NEW e \in EntryRecords, NEW start \in Nat, Length(e) \in Nat \ {0}
  PROVE  /\ Moved(e, start) \in EntryRecords
         /\ Moved(e, start).part = e.part /\ Moved(e, start).first = start
         /\ Moved(e, start).last = start + Length(e) - 1
         /\ Length(Moved(e, start)) = Length(e)
<1> DEFINE f == Moved(e, start)
<1>1. /\ f.part = e.part /\ f.first = start /\ f.last = start + Length(e) - 1
      /\ f.kind = e.kind
  BY DEF Moved, EntryRecords
<1>2. start + Length(e) - 1 \in Nat
  OBVIOUS
<1>5. f \in EntryRecords
  BY <1>2 DEF Moved, EntryRecords
<1> HIDE DEF f
<1>6. Length(f) = Length(e)
  BY <1>1, <1>2 DEF Length
<1> QED BY <1>1, <1>5, <1>6 DEF f

(* What a plan that lands says of the k-th blocker.                        *)
LEMMA BlockerFacts ==
  ASSUME NEW t, GoodTable(t), NEW b, NEW n, Ordered(t, b, n), NEW s, Lands(b, s, n),
         NEW k \in 1 .. n
  PROVE  /\ n \in Nat /\ b \in [1 .. n -> EntryRecords] /\ s \in [1 .. n -> Int]
         /\ b[k] \in t /\ b[k] \in EntryRecords
         /\ b[k].first \in Nat /\ b[k].last \in Nat /\ b[k].first <= b[k].last
         /\ Length(b[k]) \in Nat \ {0}
         /\ s[k] \in Nat /\ b[k].first <= s[k] /\ s[k] + Length(b[k]) - 1 <= LastUsable
<1>1. n \in Nat /\ b \in [1 .. n -> EntryRecords] /\ s \in [1 .. n -> Int]
  BY DEF Ordered, Lands
<1>2. b[k] \in t /\ b[k] \in EntryRecords
  BY LengthsOfBlockers
<1>3. b[k].first \in Nat /\ b[k].last \in Nat /\ b[k].first <= b[k].last /\ Length(b[k]) \in Nat \ {0}
  BY <1>2, EntryFacts
<1>4. s[k] \in Int /\ b[k].first <= s[k] /\ s[k] + Length(b[k]) - 1 <= LastUsable
  BY <1>1 DEF Lands
<1>5. s[k] \in Nat
  BY <1>3, <1>4
<1> QED BY <1>1, <1>2, <1>3, <1>4, <1>5

(* The table after the commit.                                             *)
Committed(t, e, start) == (t \ {e}) \cup {Moved(e, start)}

(* Committing the k-th move, the ones to its right done, leaves a good     *)
(* table: the blocker lands on nobody.                                     *)
LEMMA CommittedTable ==
  ASSUME NEW t, GoodTable(t), NEW b, NEW n, Ordered(t, b, n), NEW s, Lands(b, s, n),
         NEW k \in 1 .. n, \A i \in (k + 1) .. n : b[i].first = s[i]
  PROVE  /\ GoodTable(Committed(t, b[k], s[k]))
         /\ GrowEntry(Committed(t, b[k], s[k])) = GrowEntry(t)
<1> DEFINE u == Committed(t, b[k], s[k])
           f == Moved(b[k], s[k])
<1>1. /\ n \in Nat /\ b[k] \in t /\ b[k] \in EntryRecords /\ k \in 0 .. n /\ k \in 1 .. k
      /\ Length(b[k]) \in Nat \ {0} /\ s[k] \in Nat
      /\ b[k].first \in Nat /\ b[k].first <= s[k]
      /\ s[k] + Length(b[k]) - 1 <= LastUsable
  <2>1. /\ n \in Nat /\ b[k] \in t /\ b[k] \in EntryRecords
        /\ Length(b[k]) \in Nat \ {0} /\ s[k] \in Nat
        /\ b[k].first \in Nat /\ b[k].first <= s[k]
        /\ s[k] + Length(b[k]) - 1 <= LastUsable
    BY BlockerFacts
  <2> QED BY <2>1
<1>2. /\ f \in EntryRecords /\ f.part = b[k].part /\ f.first = s[k]
      /\ f.last = s[k] + Length(b[k]) - 1
  BY <1>1, MovedFacts
<1>3. u = (t \ {b[k]}) \cup {f}
  BY DEF Committed
<1> HIDE DEF u, f
<1>4. u \subseteq EntryRecords /\ IsFiniteSet(u)
  <2>1. t \subseteq EntryRecords /\ IsFiniteSet(t)
    BY DEF GoodTable
  <2>2. IsFiniteSet(t \ {b[k]})
    BY <2>1, FS_RemoveElement
  <2>3. IsFiniteSet((t \ {b[k]}) \cup {f})
    BY <2>2, FS_AddElement
  <2> QED BY <1>2, <1>3, <2>1, <2>3
<1>5. ASSUME NEW e \in t \ {b[k]} PROVE e.last < f.first \/ f.last < e.first
  <2>1. CASE \E j \in 1 .. k : e = b[j]
    <3>1. PICK j \in 1 .. k : e = b[j]
      BY <2>1
    <3>2. j \in 1 .. n /\ j < k
      BY <1>1, <1>5, <3>1
    <3>3. e.last < b[k].first
      BY <3>1, <3>2 DEF Ordered
    <3>4. e.last \in Nat
      BY EntryFacts
    <3> QED BY <1>1, <1>2, <3>3, <3>4
  <2>2. CASE \A j \in 1 .. k : e # b[j]
    <3>1. e.last < s[k] \/ s[k] + Length(b[k]) - 1 < e.first
      BY <1>1, <2>2, OthersKeepClear
    <3> QED BY <1>2, <3>1
  <2> QED BY <2>1, <2>2
<1>6. ASSUME NEW e \in t \ {b[k]}
      PROVE  /\ e.part # f.part
             /\ Disjoint(EntryExtent(e), EntryExtent(f)) /\ Disjoint(EntryExtent(f), EntryExtent(e))
  <2>1. e.part # b[k].part
    BY <1>1, EntriesApart
  <2>2. e.first \in Nat /\ e.last \in Nat
    BY EntryFacts
  <2>3. f.first \in Nat /\ f.last \in Nat
    BY <1>1, <1>2
  <2>4. (e.first .. e.last) \cap (f.first .. f.last) = {}
    BY <1>5, <2>2, <2>3
  <2> QED BY <1>2, <2>1, <2>4 DEF Disjoint, EntryExtent
<1>7. TableOK(u)
  <2>1. ASSUME NEW e \in u PROVE e.first \in FirstUsable .. e.last /\ e.last <= LastUsable
    <3>1. CASE e \in t
      BY <3>1 DEF GoodTable, TableOK
    <3>2. CASE e = f
      <4>1. FirstUsable <= b[k].first /\ FirstUsable \in Nat
        BY <1>1, EntryFacts, RelocPlanAssumption
      <4> QED BY <1>1, <1>2, <3>2, <4>1
    <3> QED BY <1>3, <3>1, <3>2
  <2>2. ASSUME NEW e \in u, NEW g \in u, e # g
        PROVE  e.part # g.part /\ Disjoint(EntryExtent(e), EntryExtent(g))
    <3>1. CASE e \in t \ {b[k]} /\ g \in t \ {b[k]}
      BY <2>2, <3>1 DEF GoodTable, TableOK
    <3>2. CASE e = f
      <4>1. g \in t \ {b[k]}
        BY <1>3, <2>2, <3>2
      <4> QED BY <1>6, <3>2, <4>1
    <3>3. CASE g = f
      <4>1. e \in t \ {b[k]}
        BY <1>3, <2>2, <3>3
      <4> QED BY <1>6, <3>3, <4>1
    <3> QED BY <1>3, <3>1, <3>2, <3>3
  <2> QED BY <2>1, <2>2 DEF TableOK
<1>8. GrowEntry(t) \in u /\ GrowEntry(t).part = 1
  <2>1. GrowEntry(t) # b[k]
    <3>1. GrowEntry(t).first <= GrowEntry(t).last /\ GrowEntry(t).first \in Nat /\ GrowEntry(t).last \in Nat
      BY GrowEntryFacts
    <3>2. GrowEntry(t).last < b[k].first
      BY DEF Ordered
    <3> QED BY <3>1, <3>2
  <2> QED BY <1>3, <2>1, GrowEntryFacts
<1>9. GoodTable(u)
  BY <1>4, <1>7, <1>8 DEF GoodTable
<1>10. GrowEntry(u) = GrowEntry(t)
  BY <1>8, <1>9, GrowEntryFacts
<1> QED BY <1>9, <1>10 DEF u

(* The blockers of the new table are the old ones in the same order, the   *)
(* k-th one at its new place.                                              *)
LEMMA CommittedBlockers ==
  ASSUME NEW t, GoodTable(t), NEW b, NEW n, Ordered(t, b, n), NEW s, Lands(b, s, n),
         NEW k \in 1 .. n, \A i \in (k + 1) .. n : b[i].first = s[i]
  PROVE  LET u == Committed(t, b[k], s[k])
             c == [b EXCEPT ![k] = Moved(b[k], s[k])]
         IN Ordered(u, c, n) /\ Blockers(u) = c /\ Count(u) = n
<1> DEFINE u == Committed(t, b[k], s[k])
           f == Moved(b[k], s[k])
           c == [b EXCEPT ![k] = f]
<1>1. /\ n \in Nat /\ b \in [1 .. n -> EntryRecords] /\ b[k] \in t /\ b[k] \in EntryRecords
      /\ Length(b[k]) \in Nat \ {0} /\ s[k] \in Nat
      /\ b[k].first \in Nat /\ b[k].first <= s[k]
      /\ s[k] + Length(b[k]) - 1 <= LastUsable
  BY BlockerFacts
<1>2. /\ f \in EntryRecords /\ f.part = b[k].part /\ f.first = s[k]
      /\ f.last = s[k] + Length(b[k]) - 1
  BY <1>1, MovedFacts
<1>3. GoodTable(u) /\ GrowEntry(u) = GrowEntry(t)
  BY CommittedTable
<1>4. u = (t \ {b[k]}) \cup {f}
  BY DEF Committed
<1> HIDE DEF u, f
<1>5. c \in [1 .. n -> EntryRecords] /\ c[k] = f /\ \A i \in 1 .. n : i # k => c[i] = b[i]
  BY <1>1, <1>2
<1> HIDE DEF c
<1>6. ASSUME NEW i \in 1 .. n, i # k PROVE b[i] # b[k]
  <2>1. b[i].last < b[k].first \/ b[k].last < b[i].first
    <3>1. i < k \/ k < i
      BY <1>1, <1>6
    <3> QED BY <3>1 DEF Ordered
  <2>3. b[k].first <= b[k].last /\ b[k].last \in Nat
    BY BlockerFacts
  <2>4. b[i] = b[k] => FALSE
    <3>1. SUFFICES ASSUME b[i] = b[k] PROVE FALSE
      OBVIOUS
    <3>2. b[k].last < b[k].first
      BY <2>1, <3>1
    <3> QED BY <1>1, <2>3, <3>2
  <2> QED BY <2>4
<1>7. ASSUME NEW i \in 1 .. n
      PROVE  /\ c[i] \in u /\ GrowEntry(u).last < c[i].first
             /\ c[i].first <= c[i].last /\ c[i].last <= LastUsable
  <2>1. CASE i = k
    <3>1. GrowEntry(t).last < b[k].first /\ GrowEntry(t).last \in Nat
      BY GrowEntryFacts DEF Ordered
    <3> QED BY <1>1, <1>2, <1>3, <1>4, <1>5, <2>1, <3>1
  <2>2. CASE i # k
    <3>1. /\ b[i] \in t /\ GrowEntry(t).last < b[i].first
          /\ b[i].first <= b[i].last /\ b[i].last <= LastUsable
      BY DEF Ordered
    <3>2. b[i] \in u
      BY <1>4, <1>6, <2>2, <3>1
    <3> QED BY <1>3, <1>5, <2>2, <3>1, <3>2
  <2> QED BY <2>1, <2>2
<1>8. ASSUME NEW i \in 1 .. n, NEW j \in 1 .. n, i < j PROVE c[i].last < c[j].first
  <2>1. CASE i # k /\ j # k
    BY <1>5, <1>8, <2>1 DEF Ordered
  <2>2. CASE i = k /\ j # k
    <3>1. j \in (k + 1) .. n
      BY <1>1, <1>8, <2>2
    <3>2. c[j].first = s[j] /\ s[k] + Length(b[k]) <= s[j]
      BY <1>5, <1>8, <2>2, <3>1 DEF Lands
    <3>3. s[j] \in Int
      BY DEF Lands
    <3> QED BY <1>1, <1>2, <1>5, <2>2, <3>2, <3>3
  <2>3. CASE i # k /\ j = k
    <3>1. c[i].last = b[i].last /\ b[i].last < b[k].first
      BY <1>5, <1>8, <2>3 DEF Ordered
    <3>2. b[i].last \in Nat
      BY LengthsOfBlockers
    <3> QED BY <1>1, <1>2, <1>5, <2>3, <3>1, <3>2
  <2>4. ~ (i = k /\ j = k)
    BY <1>1, <1>8
  <2> QED BY <2>1, <2>2, <2>3, <2>4
<1>9. ASSUME NEW e \in u, e.first > GrowEntry(u).last PROVE \E i \in 1 .. n : e = c[i]
  <2>1. CASE e = f
    BY <1>5, <2>1
  <2>2. CASE e \in t \ {b[k]}
    <3>1. PICK i \in 1 .. n : e = b[i]
      BY <1>3, <1>9, <2>2 DEF Ordered
    <3>2. i # k
      BY <2>2, <3>1
    <3> QED BY <1>5, <3>1, <3>2
  <2> QED BY <1>4, <2>1, <2>2
<1>10. Ordered(u, c, n)
  BY <1>1, <1>5, <1>7, <1>8, <1>9 DEF Ordered
<1>11. Blockers(u) = c /\ Count(u) = n
  BY <1>3, <1>10, BlockersAreUnique
<1> QED BY <1>10, <1>11 DEF u, c, f

(* The new table asks for the same starts: planning is stable under its    *)
(* own commits.                                                            *)
LEMMA CommittedPlan ==
  ASSUME NEW t, GoodTable(t), NEW r \in Requests,
         Lands(Blockers(t), Starts(t, r), Count(t)),
         NEW k \in 1 .. Count(t),
         \A i \in (k + 1) .. Count(t) : Blockers(t)[i].first = Starts(t, r)[i]
  PROVE  LET b == Blockers(t)
             s == Starts(t, r)
             n == Count(t)
             u == Committed(t, b[k], s[k])
         IN /\ GoodTable(u) /\ Count(u) = n /\ Starts(u, r) = s
            /\ Lands(Blockers(u), s, n)
            /\ \A i \in 1 .. n : Blockers(u)[i].part = b[i].part
            /\ \A i \in 1 .. n : i # k => Blockers(u)[i] = b[i]
            /\ \A i \in k .. n : Blockers(u)[i].first = s[i]
<1> DEFINE b == Blockers(t)
           s == Starts(t, r)
           n == Count(t)
           u == Committed(t, b[k], s[k])
           f == Moved(b[k], s[k])
           c == [b EXCEPT ![k] = f]
<1>1. /\ Ordered(t, b, n) /\ Lands(b, s, n) /\ k \in 1 .. n
      /\ \A i \in (k + 1) .. n : b[i].first = s[i]
  BY BlockersFacts
<1>2. GoodTable(u) /\ GrowEntry(u) = GrowEntry(t)
  <2> HIDE DEF b, s, n
  <2> QED BY <1>1, CommittedTable
<1>3. Blockers(u) = c /\ Count(u) = n
  <2> HIDE DEF b, s, n
  <2> QED BY <1>1, CommittedBlockers
<1>4. /\ r.kind = "tail" => TailSteps(s, b, n)
      /\ r.kind # "tail" => ShiftSteps(s, t, b, r.shift, n)
  BY StartsFacts
<1>5. Starts(u, r) = IF r.kind = "tail" THEN TailStarts(c) ELSE ShiftStarts(u, c, r.shift)
  BY <1>3 DEF Starts
<1> HIDE DEF u
<1> HIDE DEF b, s, n
<1>6. /\ n \in Nat /\ b \in [1 .. n -> EntryRecords] /\ b[k] \in EntryRecords
      /\ Length(b[k]) \in Nat \ {0} /\ s \in [1 .. n -> Int] /\ s[k] \in Nat
      /\ b[k].first \in Nat /\ b[k].first <= s[k]
  BY <1>1, BlockerFacts
<1>7. f \in EntryRecords /\ f.part = b[k].part /\ f.first = s[k] /\ Length(f) = Length(b[k])
  BY <1>6, MovedFacts
<1> HIDE DEF f
<1>8. c \in [1 .. n -> EntryRecords] /\ c[k] = f /\ \A i \in 1 .. n : i # k => c[i] = b[i]
  BY <1>1, <1>6, <1>7
<1> HIDE DEF c
<1>9. \A i \in 1 .. n : Length(c[i]) = Length(b[i]) /\ c[i].part = b[i].part
  BY <1>7, <1>8
<1>10. \A i \in 1 .. n : c[i].first = IF i = k THEN s[k] ELSE b[i].first
  BY <1>7, <1>8
<1>11. Starts(u, r) = s
  <2>1. CASE r.kind = "tail"
    <3>1. TailSteps(s, c, n)
      <4>1. \A i \in 1 .. n : s[i] = (IF i = n THEN LastUsable + 1 ELSE s[i + 1]) - Length(b[i])
        BY <1>4, <2>1 DEF TailSteps
      <4> QED BY <1>9, <4>1 DEF TailSteps
    <3>2. s = TailStarts(c)
      BY <1>6, <1>8, <3>1, TailStartsValue
    <3> QED BY <1>5, <2>1, <3>2
  <2>2. CASE r.kind # "tail"
    <3> DEFINE low(i) == IF i = 1 THEN GrowEntry(t).last + r.shift + 1
                                  ELSE s[i - 1] + Length(b[i - 1])
    <3>1. \A i \in 1 .. n : s[i] = Max2(b[i].first, low(i))
      BY <1>4, <2>2 DEF ShiftSteps
    <3>2. GrowEntry(t).last \in Nat /\ r.shift \in Nat
      BY GrowEntryFacts, RequestFacts
    <3>3. ASSUME NEW i \in 1 .. n
          PROVE  s[i] = Max2(c[i].first, IF i = 1 THEN GrowEntry(u).last + r.shift + 1
                                                   ELSE s[i - 1] + Length(c[i - 1]))
      <4>1. low(i) = IF i = 1 THEN GrowEntry(u).last + r.shift + 1
                               ELSE s[i - 1] + Length(c[i - 1])
        <5>1. i = 1 \/ i - 1 \in 1 .. n
          BY <1>6
        <5> QED BY <1>2, <1>9, <5>1
      <4>2. low(i) \in Int
        <5>1. CASE i = 1
          BY <3>2, <5>1
        <5>2. CASE i # 1
          <6>1. i - 1 \in 1 .. n
            BY <1>6, <5>2
          <6>2. s[i - 1] \in Int /\ Length(b[i - 1]) \in Nat
            BY <1>1, <1>6, <6>1, LengthsOfBlockers
          <6> QED BY <5>2, <6>2
        <5> QED BY <5>1, <5>2
      <4>3. s[i] = Max2(c[i].first, low(i))
        <5> HIDE DEF low
        <5>1. CASE i = k
          <6>1. s[k] = Max2(b[k].first, low(k)) /\ low(k) \in Int
            BY <3>1, <4>2, <5>1
          <6>2. s[k] = Max2(s[k], low(k))
            BY <1>6, <6>1 DEF Max2
          <6> QED BY <1>10, <5>1, <6>2
        <5>2. CASE i # k
          BY <1>10, <3>1, <5>2
        <5> QED BY <5>1, <5>2
      <4> QED BY <4>1, <4>3
    <3>4. ShiftSteps(s, u, c, r.shift, n)
      BY <3>3 DEF ShiftSteps
    <3>5. GrowEntry(u).last \in Nat
      BY <1>2, <3>2
    <3>6. s = ShiftStarts(u, c, r.shift)
      BY <1>6, <1>8, <3>2, <3>4, <3>5, ShiftStartsValue
    <3> QED BY <1>5, <2>2, <3>6
  <2> QED BY <2>1, <2>2
<1>12. ASSUME NEW i \in k .. n PROVE c[i].first = s[i]
  <2>1. i \in 1 .. n /\ (i = k \/ i \in (k + 1) .. n)
    BY <1>1, <1>6
  <2> QED BY <1>1, <1>10, <2>1
<1>13. Lands(c, s, n)
  <2>1. \A i \in 1 .. n : c[i].first <= s[i] /\ s[i] + Length(c[i]) - 1 <= LastUsable
    <3>1. SUFFICES ASSUME NEW i \in 1 .. n
                   PROVE  c[i].first <= s[i] /\ s[i] + Length(c[i]) - 1 <= LastUsable
      OBVIOUS
    <3>2. b[i].first <= s[i] /\ s[i] + Length(b[i]) - 1 <= LastUsable
      BY <1>1 DEF Lands
    <3> QED BY <1>6, <1>9, <1>10, <3>2
  <2>2. \A i, j \in 1 .. n : i < j => s[i] + Length(c[i]) <= s[j]
    BY <1>1, <1>9 DEF Lands
  <2>3. \A i \in 2 .. n : s[i] = s[i - 1] + Length(c[i - 1]) \/ s[i] = c[i].first
    <3>1. SUFFICES ASSUME NEW i \in 2 .. n
                   PROVE  s[i] = s[i - 1] + Length(c[i - 1]) \/ s[i] = c[i].first
      OBVIOUS
    <3>2. i \in 1 .. n /\ i - 1 \in 1 .. n
      BY <1>6
    <3>3. s[i] = s[i - 1] + Length(b[i - 1]) \/ s[i] = b[i].first
      BY <1>1 DEF Lands
    <3> QED BY <1>9, <1>10, <3>2, <3>3
  <2> QED BY <1>6, <2>1, <2>2, <2>3 DEF Lands
<1>14. /\ GoodTable(u) /\ Count(u) = n /\ Starts(u, r) = s /\ Lands(Blockers(u), s, n)
       /\ \A i \in 1 .. n : Blockers(u)[i].part = b[i].part
       /\ \A i \in 1 .. n : i # k => Blockers(u)[i] = b[i]
       /\ \A i \in k .. n : Blockers(u)[i].first = s[i]
  BY <1>2, <1>3, <1>8, <1>9, <1>11, <1>12, <1>13
<1> QED BY <1>14 DEF b, s, n, u

-----------------------------------------------------------------------------
(* The invariant.                                                          *)
LEMMA InitIInv == Init => IInv
<1>1. SUFFICES ASSUME Init PROVE IInv
  OBVIOUS
<1>2. GoodTable(table)
  BY <1>1, RelocPlanAssumption DEF Init, GoodTable
<1>3. plan = NoPlan /\ plan.refused = "none yet" /\ goal = {} /\ request \in Requests
  BY <1>1 DEF Init, NoPlan, Refused
<1>4. plan = Refused(plan.refused)
  BY <1>3 DEF NoPlan, Refused
<1> QED BY <1>2, <1>3, <1>4 DEF IInv

(* The goal is a set of partition numbers with LBAs: every plan lands      *)
(* every blocker where Starts says.                                        *)
LEMMA LandingOfRemaining ==
  ASSUME NEW t, GoodTable(t), NEW b, NEW n, Ordered(t, b, n), NEW s, Lands(b, s, n),
         NEW k \in 0 .. n
  PROVE  /\ \A l \in Landing(Planned(Remaining(b, s, k))) :
              \E i \in 1 .. k : i \in 1 .. n /\ l = <<b[i].part, s[i]>>
         /\ \A i \in 1 .. k : <<b[i].part, s[i]>> \in Landing(Planned(Remaining(b, s, k)))
         /\ Landing(Planned(Remaining(b, s, k))) \subseteq (Nat \X Nat)
<1> DEFINE moves == Remaining(b, s, k)
<1>1. n \in Nat
  BY DEF Ordered
<1>2. Landing(Planned(moves)) = {<<moves[j].part, NewFirst(moves[j])>> : j \in DOMAIN moves}
  BY DEF Landing, Planned
<1>3. DOMAIN moves = 1 .. k
  BY <1>1, RemainingFacts
<1>4. ASSUME NEW j \in 1 .. k
      PROVE  /\ k - j + 1 \in 1 .. k /\ k - j + 1 \in 1 .. n
             /\ moves[j].part = b[k - j + 1].part /\ NewFirst(moves[j]) = s[k - j + 1]
  <2>1. /\ k - j + 1 \in 1 .. k /\ k - j + 1 \in 1 .. n
        /\ moves[j] = MoveTo(b[k - j + 1], s[k - j + 1])
    BY <1>1, RemainingFacts
  <2> HIDE DEF moves
  <2> QED BY <2>1, MoveFacts
<1> HIDE DEF moves
<1>5. ASSUME NEW l \in Landing(Planned(moves))
      PROVE  \E i \in 1 .. k : i \in 1 .. n /\ l = <<b[i].part, s[i]>>
  <2>1. PICK j \in 1 .. k : l = <<moves[j].part, NewFirst(moves[j])>>
    BY <1>2, <1>3
  <2>2. l = <<b[k - j + 1].part, s[k - j + 1]>>
    BY <1>4, <2>1
  <2> QED BY <1>4, <2>2
<1>6. ASSUME NEW i \in 1 .. k PROVE <<b[i].part, s[i]>> \in Landing(Planned(moves))
  <2>1. k - i + 1 \in 1 .. k /\ k - (k - i + 1) + 1 = i
    BY <1>1
  <2>2. moves[k - i + 1].part = b[i].part /\ NewFirst(moves[k - i + 1]) = s[i]
    BY <1>4, <2>1
  <2> QED BY <1>2, <1>3, <2>1, <2>2
<1>7. ASSUME NEW l \in Landing(Planned(moves)) PROVE l \in Nat \X Nat
  <2>1. PICK i \in 1 .. n : l = <<b[i].part, s[i]>>
    BY <1>5
  <2>2. s[i] \in Nat /\ b[i].part \in Nat
    BY BlockerFacts, LengthsOfBlockers
  <2> QED BY <2>1, <2>2
<1> QED BY <1>5, <1>6, <1>7 DEF moves

(* Planning, from a fresh or a half-relocated table, preserves the         *)
(* invariant.                                                              *)
LEMMA PlanStep == IInv /\ Plan => IInv'
<1>1. SUFFICES ASSUME IInv, Plan PROVE IInv'
  OBVIOUS
<1> DEFINE b == Blockers(table)
           s == Starts(table, request)
           n == Count(table)
<1>2. /\ GoodTable(table) /\ request \in Requests /\ goal \subseteq (Nat \X Nat)
      /\ plan = NoPlan /\ plan' = MakePlan(table, request)
      /\ goal' = IF goal = {} THEN Landing(plan') ELSE goal
      /\ table' = table /\ request' = request
  BY <1>1 DEF IInv, Plan
<1>3. Ordered(table, b, n) /\ n \in Nat
  BY <1>2, BlockersFacts
<1>4. /\ plan'.refused = "no" => Lands(b, s, n) /\ plan' = Planned(Remaining(b, s, n))
      /\ plan'.refused # "no" => plan' = Refused(plan'.refused)
      /\ plan'.refused # "none yet"
  BY <1>2, MakePlanFacts
<1>5. plan' # NoPlan
  <2>1. NoPlan.refused = "none yet"
    BY DEF NoPlan, Refused
  <2> QED BY <1>4, <2>1
<1>6. goal # {} => Pinned
  BY <1>1, <1>2 DEF IInv
<1>7. CASE plan'.refused = "no"
  <2>1. Lands(b, s, n) /\ plan' = Planned(Remaining(b, s, n))
    BY <1>4, <1>7
  <2>2. Underway'
    <3>1. n \in 0 .. n /\ (\A i \in (n + 1) .. n : b[i].first = s[i])
      BY <1>3
    <3>2. \E k \in 0 .. n : /\ plan' = Planned(Remaining(b, s, k))
                            /\ \A i \in (k + 1) .. n : b[i].first = s[i]
      <4> HIDE DEF b, s, n
      <4> QED BY <2>1, <3>1
    <3> QED BY <1>2, <2>1, <3>2 DEF Underway
  <2> HIDE DEF b, s, n
  <2>3. /\ Landing(plan') \subseteq (Nat \X Nat)
        /\ \A i \in 1 .. n : <<b[i].part, s[i]>> \in Landing(plan')
    <3>1. n \in 0 .. n
      BY <1>3
    <3> QED BY <1>2, <1>3, <2>1, <3>1, LandingOfRemaining
  <2>4. Pinned'
    <3>1. \A i \in 1 .. n : <<b[i].part, s[i]>> \in goal'
      <4>1. CASE goal = {}
        BY <1>2, <2>3, <4>1
      <4>2. CASE goal # {}
        BY <1>2, <1>6, <4>2 DEF Pinned, b, s, n
      <4> QED BY <4>1, <4>2
    <3> QED BY <1>2, <3>1 DEF Pinned, b, s, n
  <2>5. goal' \subseteq (Nat \X Nat)
    BY <1>2, <2>3
  <2> QED BY <1>2, <1>7, <2>2, <2>4, <2>5 DEF IInv
<1>8. CASE plan'.refused # "no"
  <2>1. plan' = Refused(plan'.refused)
    BY <1>4, <1>8
  <2>2. Landing(plan') = {}
    <3>1. plan'.moves = <<>>
      BY <2>1 DEF Refused
    <3> QED BY <3>1 DEF Landing
  <2>3. goal' \subseteq (Nat \X Nat)
    BY <1>2, <2>2
  <2> QED BY <1>2, <1>5, <1>8, <2>1, <2>3 DEF IInv
<1> QED BY <1>7, <1>8

(* The next move is that of the rightmost blocker still to be moved.       *)
LEMMA TailOfRemaining ==
  ASSUME NEW n \in Nat, NEW b, NEW s, NEW k \in 1 .. n,
         Remaining(b, s, k) \in Seq(MoveRecords), Len(Remaining(b, s, k)) = k
  PROVE  /\ Head(Remaining(b, s, k)) = MoveTo(b[k], s[k])
         /\ Tail(Remaining(b, s, k)) = Remaining(b, s, k - 1)
<1> DEFINE moves == Remaining(b, s, k)
<1>1. k \in Nat /\ k - 1 \in Nat /\ 1 \in 1 .. k
  OBVIOUS
<1>2. moves[1] = MoveTo(b[k - 1 + 1], s[k - 1 + 1])
  BY <1>1 DEF Remaining
<1>3. Head(moves) = MoveTo(b[k], s[k])
  <2>1. Head(moves) = moves[1]
    OBVIOUS
  <2>2. k - 1 + 1 = k
    OBVIOUS
  <2> HIDE DEF moves
  <2> QED BY <1>2, <2>1, <2>2
<1>4. Tail(moves) = [j \in 1 .. (k - 1) |-> moves[j + 1]]
  <2> HIDE DEF moves
  <2>1. Len(moves) = k /\ moves \in Seq(MoveRecords)
    BY DEF moves
  <2>2. Tail(moves) \in Seq(MoveRecords) /\ Len(Tail(moves)) = k - 1
    BY <1>1, <2>1
  <2>3. ASSUME NEW j \in 1 .. (k - 1) PROVE Tail(moves)[j] = moves[j + 1]
    BY <1>1, <2>1
  <2>4. Tail(moves) = [j \in 1 .. (k - 1) |-> Tail(moves)[j]]
    <3>1. Tail(moves) \in [1 .. Len(Tail(moves)) -> MoveRecords]
      BY <2>2, LenProperties
    <3> QED BY <1>1, <2>2, <3>1
  <2> QED BY <2>3, <2>4
<1>5. ASSUME NEW j \in 1 .. (k - 1)
      PROVE  moves[j + 1] = MoveTo(b[(k - 1) - j + 1], s[(k - 1) - j + 1])
  <2>1. j + 1 \in 1 .. k /\ k - (j + 1) + 1 = (k - 1) - j + 1
    OBVIOUS
  <2>2. moves[j + 1] = MoveTo(b[k - (j + 1) + 1], s[k - (j + 1) + 1])
    BY <2>1 DEF Remaining
  <2> QED BY <2>1, <2>2
<1> HIDE DEF moves
<1>6. Tail(moves) = Remaining(b, s, k - 1)
  BY <1>4, <1>5 DEF Remaining
<1> QED BY <1>3, <1>6 DEF moves

(* Committing the next entry preserves the invariant.                      *)
LEMMA CommitStep == IInv /\ CommitNext => IInv'
<1>1. SUFFICES ASSUME IInv, CommitNext PROVE IInv'
  OBVIOUS
<1> DEFINE b == Blockers(table)
           s == Starts(table, request)
           n == Count(table)
<1>2. /\ GoodTable(table) /\ request \in Requests /\ goal \subseteq (Nat \X Nat)
      /\ plan.refused = "no" /\ plan.moves # <<>> /\ Underway /\ Pinned
      /\ request' = request /\ goal' = goal
  BY <1>1 DEF IInv, CommitNext
<1>3. Ordered(table, b, n) /\ n \in Nat
  BY <1>2, BlockersFacts
<1>4. PICK k \in 0 .. n : /\ plan = Planned(Remaining(b, s, k))
                          /\ \A i \in (k + 1) .. n : b[i].first = s[i]
  BY <1>2 DEF Underway
<1>5. Lands(b, s, n)
  BY <1>2 DEF Underway
<1> DEFINE u == Committed(table, b[k], s[k])
           c == Blockers(u)
<1>6. /\ k \in 1 .. n /\ plan.moves = Remaining(b, s, k)
      /\ Remaining(b, s, k) \in Seq(MoveRecords) /\ Len(Remaining(b, s, k)) = k
  <2> HIDE DEF b, s, n
  <2>1. plan.moves = Remaining(b, s, k)
    BY <1>4 DEF Planned
  <2>2. k # 0
    BY <1>2, <1>3, <2>1, RemainingFacts
  <2>3. Remaining(b, s, k) \in Seq(MoveRecords) /\ Len(Remaining(b, s, k)) = k
    BY <1>2, <1>3, <1>5, RemainingType
  <2> QED BY <1>3, <2>1, <2>2, <2>3
<1>7. /\ Head(plan.moves) = MoveTo(b[k], s[k])
      /\ Tail(plan.moves) = Remaining(b, s, k - 1)
  <2> HIDE DEF b, s, n
  <2> QED BY <1>3, <1>6, TailOfRemaining
<1>8. table' = u
  <2> DEFINE m == MoveTo(b[k], s[k])
  <2>1. table' = {IF e.part = m.part
                  THEN [e EXCEPT !.first = NewFirst(m), !.last = NewFirst(m) + m.len - 1]
                  ELSE e : e \in table}
    <3> HIDE DEF b, s, n
    <3> QED BY <1>1, <1>7 DEF CommitNext
  <2> HIDE DEF b, s, n
  <2>2. m = MoveTo(b[k], s[k])
    OBVIOUS
  <2> HIDE DEF m
  <2>3. /\ \A e \in table : e.part = m.part <=> e = b[k]
        /\ [b[k] EXCEPT !.first = NewFirst(m), !.last = NewFirst(m) + m.len - 1] = Moved(b[k], s[k])
    <3>1. m.part = b[k].part /\ m.len = Length(b[k]) /\ NewFirst(m) = s[k] /\ b[k] \in table
      <4>1. /\ MoveTo(b[k], s[k]).part = b[k].part /\ MoveTo(b[k], s[k]).len = Length(b[k])
            /\ NewFirst(MoveTo(b[k], s[k])) = s[k] /\ b[k] \in table
        BY <1>2, <1>3, <1>5, <1>6, MoveFacts, BlockerFacts
      <4> QED BY <2>2, <4>1
    <3>2. [b[k] EXCEPT !.first = NewFirst(m), !.last = NewFirst(m) + m.len - 1] = Moved(b[k], s[k])
      BY <3>1 DEF Moved
    <3>3. \A e \in table : e.part = m.part <=> e = b[k]
      BY <1>2, <3>1, EntriesApart
    <3> QED BY <3>2, <3>3
  <2>4. b[k] \in table
    BY <1>2, <1>3, <1>5, <1>6, BlockerFacts
  <2> DEFINE new(e) == IF e.part = m.part
                       THEN [e EXCEPT !.first = NewFirst(m), !.last = NewFirst(m) + m.len - 1]
                       ELSE e
  <2>5. table' = {new(e) : e \in table}
    BY <2>1
  <2>6. new(b[k]) = Moved(b[k], s[k]) /\ \A e \in table \ {b[k]} : new(e) = e
    BY <2>3, <2>4
  <2> HIDE DEF new
  <2>7. {new(e) : e \in table} = (table \ {b[k]}) \cup {Moved(b[k], s[k])}
    <3>1. ASSUME NEW e \in table PROVE new(e) \in (table \ {b[k]}) \cup {Moved(b[k], s[k])}
      BY <2>6
    <3>2. ASSUME NEW f \in (table \ {b[k]}) \cup {Moved(b[k], s[k])}
          PROVE  \E e \in table : f = new(e)
      BY <2>4, <2>6
    <3> QED BY <3>1, <3>2
  <2> QED BY <2>5, <2>7 DEF Committed
<1>9. /\ GoodTable(u) /\ Count(u) = n /\ Starts(u, request) = s /\ Lands(c, s, n)
      /\ \A i \in 1 .. n : c[i].part = b[i].part
      /\ \A i \in 1 .. n : i # k => c[i] = b[i]
      /\ \A i \in k .. n : c[i].first = s[i]
  BY <1>2, <1>4, <1>5, <1>6, CommittedPlan
<1>10. plan' = Planned(Remaining(c, s, k - 1))
  <2>1. plan' = Planned(Remaining(b, s, k - 1))
    <3> HIDE DEF b, s, n
    <3>1. plan' = [plan EXCEPT !.moves = Tail(@)]
      BY <1>1 DEF CommitNext
    <3> QED BY <1>4, <1>6, <1>7, <3>1 DEF Planned
  <2>2. Remaining(b, s, k - 1) = Remaining(c, s, k - 1)
    <3> HIDE DEF b, s, n, u, c
    <3>1. ASSUME NEW j \in 1 .. (k - 1) PROVE b[(k - 1) - j + 1] = c[(k - 1) - j + 1]
      <4>1. (k - 1) - j + 1 \in 1 .. n /\ (k - 1) - j + 1 # k
        BY <1>3, <1>6
      <4> QED BY <1>9, <4>1
    <3> QED BY <3>1 DEF Remaining
  <2> QED BY <2>1, <2>2
<1>11. Underway'
  <2>1. k - 1 \in 0 .. n /\ (k - 1) + 1 = k
    BY <1>3, <1>6
  <2>2. \E j \in 0 .. n : /\ plan' = Planned(Remaining(c, s, j))
                          /\ \A i \in (j + 1) .. n : c[i].first = s[i]
    <3> HIDE DEF b, s, n, u, c
    <3> QED BY <1>9, <1>10, <2>1
  <2>3. /\ Lands(Blockers(u), Starts(u, request), Count(u))
        /\ \E j \in 0 .. Count(u) :
             /\ plan' = Planned(Remaining(Blockers(u), Starts(u, request), j))
             /\ \A i \in (j + 1) .. Count(u) : Blockers(u)[i].first = Starts(u, request)[i]
    <3> HIDE DEF b, s, n, u
    <3> QED BY <1>9, <2>2
  <2> HIDE DEF u
  <2> QED BY <1>2, <1>8, <2>3 DEF Underway
<1>12. Pinned'
  <2>1. \A i \in 1 .. n : <<c[i].part, s[i]>> \in goal
    <3>1. \A i \in 1 .. n : <<b[i].part, s[i]>> \in goal
      BY <1>2 DEF Pinned
    <3> HIDE DEF b, s, n, u, c
    <3> QED BY <1>9, <3>1
  <2>2. \A i \in 1 .. Count(u) : <<Blockers(u)[i].part, Starts(u, request)[i]>> \in goal
    <3> HIDE DEF b, s, n, u
    <3> QED BY <1>9, <2>1
  <2> HIDE DEF u
  <2> QED BY <1>2, <1>8, <2>2 DEF Pinned
<1>13. plan'.refused = "no"
  BY <1>10 DEF Planned
<1> HIDE DEF u
<1> QED BY <1>2, <1>8, <1>9, <1>11, <1>12, <1>13 DEF IInv

(* Abandoning the job between two entries preserves the invariant.         *)
LEMMA AbandonStep == IInv /\ Abandon => IInv'
<1>1. SUFFICES ASSUME IInv, Abandon PROVE IInv'
  OBVIOUS
<1>2. /\ GoodTable(table) /\ request \in Requests /\ goal \subseteq (Nat \X Nat) /\ Pinned
      /\ plan' = NoPlan /\ table' = table /\ request' = request /\ goal' = goal
  BY <1>1 DEF IInv, Abandon
<1>3. plan'.refused = "none yet" /\ plan' = Refused(plan'.refused)
  BY <1>2 DEF NoPlan, Refused
<1>4. Pinned'
  BY <1>2 DEF Pinned
<1> QED BY <1>2, <1>3, <1>4 DEF IInv

(* Every step preserves the invariant.                                     *)
LEMMA IInvStep == IInv /\ [Next]_vars => IInv'
<1>1. ASSUME IInv, UNCHANGED vars PROVE IInv'
  BY <1>1 DEF IInv, Underway, Pinned, vars
<1> QED BY <1>1, PlanStep, CommitStep, AbandonStep DEF Next

(* The inductive invariant holds in every reachable state.                 *)
LEMMA IInvIsInvariant == Spec => []IInv
  BY InitIInv, IInvStep, PTL DEF Spec

(* In every reachable state the moves are those of the blockers not yet    *)
(* committed, or there are none.                                           *)
LEMMA IInvMoves ==
  ASSUME IInv
  PROVE  \/ plan.moves = <<>> /\ plan.refused # "no"
         \/ \E k \in 0 .. Count(table) :
              /\ plan.refused = "no"
              /\ plan = Planned(Remaining(Blockers(table), Starts(table, request), k))
              /\ plan.moves = Remaining(Blockers(table), Starts(table, request), k)
              /\ Lands(Blockers(table), Starts(table, request), Count(table))
              /\ \A i \in (k + 1) .. Count(table) : Blockers(table)[i].first = Starts(table, request)[i]
<1>1. CASE plan.refused = "no"
  <2>1. PICK k \in 0 .. Count(table) :
          /\ plan = Planned(Remaining(Blockers(table), Starts(table, request), k))
          /\ \A i \in (k + 1) .. Count(table) : Blockers(table)[i].first = Starts(table, request)[i]
    BY <1>1 DEF IInv, Underway
  <2>2. plan.moves = Remaining(Blockers(table), Starts(table, request), k)
    BY <2>1 DEF Planned
  <2>3. Lands(Blockers(table), Starts(table, request), Count(table))
    BY <1>1 DEF IInv, Underway
  <2> QED BY <1>1, <2>1, <2>2, <2>3
<1>2. CASE plan.refused # "no"
  <2>1. plan = Refused(plan.refused)
    BY <1>2 DEF IInv
  <2>2. plan.moves = <<>>
    BY <2>1 DEF Refused
  <2> QED BY <1>2, <2>2
<1> QED BY <1>1, <1>2

(* Every variable keeps its type, whatever the table and the request; the  *)
(* displacement of every planned move is a natural number (checked_sub).   *)
THEOREM TypeCorrect == Spec => []TypeOK
<1>1. IInv => TypeOK
  <2>1. SUFFICES ASSUME IInv PROVE TypeOK
    OBVIOUS
  <2>2. GoodTable(table) /\ request \in Requests /\ goal \subseteq (Nat \X Nat)
    BY <2>1 DEF IInv
  <2>3. plan.moves \in Seq(MoveRecords)
    <3>1. CASE plan.moves = <<>>
      BY <3>1
    <3>2. CASE plan.moves # <<>>
      BY <2>1, <2>2, <3>2, IInvMoves, BlockersFacts, RemainingType
    <3> QED BY <3>1, <3>2
  <2> QED BY <2>2, <2>3 DEF TypeOK, GoodTable
<1> QED BY <1>1, IInvIsInvariant, PTL

(* What remains of a plan that lands is a job the run may take on: the     *)
(* target can only grow and meets no member, neither before nor after.     *)
LEMMA LandingIsRelocatable ==
  ASSUME NEW t, GoodTable(t), NEW b, NEW n, Ordered(t, b, n), NEW s, Lands(b, s, n),
         NEW k \in 1 .. n, \A i \in (k + 1) .. n : b[i].first = s[i]
  PROVE  Relocatable(Remaining(b, s, k), GrowEntry(t), LastUsable)
<1> DEFINE moves == Remaining(b, s, k)
           growEnd == GrowEnd(moves, LastUsable)
           grow == GrowEntry(t)
<1>1. n \in Nat /\ k \in 0 .. n /\ 1 \in 1 .. n
  BY DEF Ordered
<1>2. Executable(moves, LastUsable) /\ LeavesNoGap(moves, LastUsable)
  BY <1>1, LandingIsExecutable, LandingLeavesNoGap
<1>3. growEnd = s[1] - 1
  BY GrowEndIs
<1>4. grow.first \in Nat /\ grow.last \in Nat /\ grow.first <= grow.last
  BY GrowEntryFacts
<1>5. ASSUME NEW i \in 1 .. n
      PROVE  /\ b[i].first \in Nat /\ grow.last < b[i].first
             /\ s[i] \in Nat /\ b[i].first <= s[i] /\ s[1] <= s[i] /\ s[i] <= LastUsable
  <2>1. /\ b[i].first \in Nat /\ s[i] \in Nat /\ b[i].first <= s[i]
        /\ Length(b[i]) \in Nat \ {0} /\ s[i] + Length(b[i]) - 1 <= LastUsable
    BY BlockerFacts
  <2>2. grow.last < b[i].first
    BY DEF Ordered
  <2>3. s[1] \in Nat /\ Length(b[1]) \in Nat \ {0}
    BY <1>1, BlockerFacts
  <2>4. 1 < i => s[1] + Length(b[1]) <= s[i]
    BY <1>1 DEF Lands
  <2>5. s[1] <= s[i]
    BY <1>1, <2>1, <2>3, <2>4
  <2>6. s[i] <= LastUsable
    BY <2>1, RelocPlanAssumption
  <2> QED BY <2>1, <2>2, <2>5, <2>6
<1>6. /\ grow.last < b[1].first /\ b[1].first <= s[1] /\ b[1].first \in Nat
      /\ s[1] \in Nat /\ s[1] <= LastUsable
  BY <1>1, <1>5
<1>7. growEnd \in 0 .. LastUsable /\ grow.last <= growEnd
  BY <1>3, <1>4, <1>6, RelocPlanAssumption
<1>8. ASSUME NEW m \in DOMAIN moves
      PROVE  grow.last < moves[m].first /\ growEnd < NewFirst(moves[m])
  <2> DEFINE i == k - m + 1
  <2>1. i \in 1 .. n /\ moves[m] = MoveTo(b[i], s[i])
    BY <1>1, RemainingFacts
  <2> HIDE DEF i
  <2>2. MoveTo(b[i], s[i]).first = b[i].first /\ NewFirst(MoveTo(b[i], s[i])) = s[i]
    BY <2>1, MoveFacts DEF MoveTo
  <2>3. grow.last < b[i].first /\ s[1] - 1 < s[i]
    BY <1>5, <1>6, <2>1
  <2> QED BY <1>3, <2>1, <2>2, <2>3
<1> HIDE DEF moves, grow
<1> QED BY <1>2, <1>4, <1>7, <1>8 DEF Relocatable, moves, grow

(* Every plan can be carried out in its order, from every half-relocated   *)
(* table it meets, and is what module Relocation assumes of its jobs.      *)
THEOREM PlansAreExecutable == Spec => []PlanIsExecutable
<1>1. IInv => PlanIsExecutable
  <2>1. SUFFICES ASSUME IInv PROVE PlanIsExecutable
    OBVIOUS
  <2>2. GoodTable(table)
    BY <2>1 DEF IInv
  <2>3. CASE plan.moves = <<>>
    <3>1. DOMAIN plan.moves = {}
      BY <2>3
    <3>2. Executable(plan.moves, LastUsable) /\ LeavesNoGap(plan.moves, LastUsable)
      BY <3>1 DEF Executable, LeavesNoGap
    <3>3. GrowEnd(plan.moves, LastUsable) = LastUsable
      BY <2>3 DEF GrowEnd
    <3>4. GrowEntry(table).first <= GrowEntry(table).last /\ GrowEntry(table).last <= LastUsable
      BY <2>2, GrowEntryFacts, EntryFacts
    <3>5. LastUsable \in 0 .. LastUsable
      BY RelocPlanAssumption
    <3>6. Relocatable(plan.moves, GrowEntry(table), LastUsable)
      BY <3>1, <3>2, <3>3, <3>4, <3>5 DEF Relocatable
    <3> QED BY <3>1, <3>6 DEF PlanIsExecutable
  <2>4. CASE plan.moves # <<>>
    <3> DEFINE b == Blockers(table)
               s == Starts(table, request)
               n == Count(table)
               still == {e \in table : \A i \in DOMAIN plan.moves : plan.moves[i].part # e.part}
    <3>1. PICK k \in 0 .. n : /\ plan.moves = Remaining(b, s, k) /\ Lands(b, s, n)
                              /\ \A i \in (k + 1) .. n : b[i].first = s[i]
      BY <2>1, <2>4, IInvMoves
    <3>2. Ordered(table, b, n) /\ n \in Nat
      BY <2>2, BlockersFacts
    <3> HIDE DEF b, s, n
    <3>3. Relocatable(plan.moves, GrowEntry(table), LastUsable)
      <4>1. k \in 1 .. n
        <5>1. k = 0 => plan.moves = <<>>
          BY <3>1, <3>2, RemainingFacts
        <5> QED BY <2>4, <3>2, <5>1
      <4> QED BY <2>2, <3>1, <3>2, <4>1, LandingIsRelocatable
    <3>4. /\ DOMAIN plan.moves = 1 .. k
          /\ \A j \in 1 .. k : /\ k - j + 1 \in 1 .. n /\ k - j + 1 \in 1 .. k
                               /\ plan.moves[j] = MoveTo(b[k - j + 1], s[k - j + 1])
      BY <3>1, <3>2, RemainingFacts
    <3>5. ASSUME NEW j \in DOMAIN plan.moves, NEW e \in still
          PROVE  Disjoint(Target(plan.moves[j]), EntryExtent(e))
      <4> DEFINE i == k - j + 1
      <4>1. i \in 1 .. n /\ i \in 1 .. k /\ plan.moves[j] = MoveTo(b[i], s[i])
        BY <3>4, <3>5
      <4>2. Target(plan.moves[j]) = s[i] .. (s[i] + Length(b[i]) - 1)
        BY <2>2, <3>1, <3>2, <4>1, MoveFacts
      <4>3. e \in table /\ \A p \in 1 .. k : e # b[p]
        <5>1. e \in table /\ \A p \in 1 .. k : plan.moves[p].part # e.part
          BY <3>4, <3>5
        <5>2. ASSUME NEW p \in 1 .. k PROVE e # b[p]
          <6>1. k - p + 1 \in 1 .. k /\ k - (k - p + 1) + 1 = p /\ p \in 1 .. n
            BY <3>2
          <6>2. plan.moves[k - p + 1] = MoveTo(b[p], s[p])
            BY <3>4, <6>1
          <6>3. plan.moves[k - p + 1].part = b[p].part
            BY <6>2 DEF MoveTo
          <6> QED BY <5>1, <6>1, <6>3
        <5> QED BY <5>1, <5>2
      <4> HIDE DEF i
      <4>4. e.last < s[i] \/ s[i] + Length(b[i]) - 1 < e.first
        BY <2>2, <3>1, <3>2, <4>1, <4>3, OthersKeepClear
      <4>5. e.first \in Nat /\ e.last \in Nat /\ s[i] \in Nat /\ Length(b[i]) \in Nat
        BY <2>2, <3>1, <3>2, <4>1, <4>3, EntryFacts, BlockerFacts
      <4>6. (s[i] .. (s[i] + Length(b[i]) - 1)) \cap (e.first .. e.last) = {}
        BY <4>4, <4>5
      <4> QED BY <4>2, <4>6 DEF Disjoint, EntryExtent
    <3> HIDE DEF still
    <3>6. \A j \in DOMAIN plan.moves : \A e \in still :
            Disjoint(Target(plan.moves[j]), EntryExtent(e))
      BY <3>5
    <3> QED BY <3>3, <3>6 DEF PlanIsExecutable, still
  <2> QED BY <2>3, <2>4
<1> QED BY <1>1, IInvIsInvariant, PTL

(* Planning again after an abandoned run displaces nothing a second time.  *)
THEOREM ReplanPins == Spec => []ReplanLandsTheSame
<1>1. IInv => ReplanLandsTheSame
  <2>1. SUFFICES ASSUME IInv, plan.refused = "no" PROVE Landing(plan) \subseteq goal
    BY DEF ReplanLandsTheSame
  <2> DEFINE b == Blockers(table)
             s == Starts(table, request)
             n == Count(table)
  <2>2. PICK k \in 0 .. n : plan = Planned(Remaining(b, s, k)) /\ Lands(b, s, n)
    BY <2>1, IInvMoves
  <2>3. GoodTable(table) /\ Ordered(table, b, n)
    BY <2>1, BlockersFacts DEF IInv
  <2>4. \A i \in 1 .. n : <<b[i].part, s[i]>> \in goal
    BY <2>1 DEF IInv, Pinned
  <2> HIDE DEF b, s, n
  <2>5. ASSUME NEW l \in Landing(plan) PROVE l \in goal
    <3>1. \E i \in 1 .. k : i \in 1 .. n /\ l = <<b[i].part, s[i]>>
      BY <2>2, <2>3, <2>5, LandingOfRemaining
    <3> QED BY <2>4, <3>1
  <2> QED BY <2>5
<1> QED BY <1>1, IInvIsInvariant, PTL

(* What a step that plans produces.                                        *)
LEMMA PlanningStep ==
  ASSUME IInv, [Next]_vars, plan = NoPlan, plan' # plan
  PROVE  GoodTable(table) /\ request \in Requests /\ plan' = MakePlan(table, request)
<1>1. Plan \/ CommitNext \/ Abandon
  BY DEF Next, vars
<1>2. plan.refused # "no"
  BY DEF NoPlan, Refused
<1>3. Plan
  BY <1>1, <1>2 DEF CommitNext, Abandon
<1> QED BY <1>3 DEF Plan, IInv

(* A shift plan makes exactly the room that was asked for.                 *)
THEOREM ShiftIsExact == Spec => ShiftGrowsExactly
<1>1. ASSUME IInv, [Next]_vars, plan = NoPlan, plan'.refused = "no", request.kind = "shift"
      PROVE  GrowEnd(plan'.moves, LastUsable) = GrowEntry(table).last + request.shift
  <2> DEFINE b == Blockers(table)
             s == Starts(table, request)
             n == Count(table)
  <2>1. plan' # plan
    <3>1. NoPlan.refused = "none yet"
      BY DEF NoPlan, Refused
    <3> QED BY <1>1, <3>1
  <2>2. GoodTable(table) /\ request \in Requests /\ plan' = MakePlan(table, request)
    BY <1>1, <2>1, PlanningStep
  <2>3. /\ Lands(b, s, n) /\ plan' = Planned(Remaining(b, s, n))
        /\ 1 \in 1 .. n /\ s[1] = GrowEntry(table).last + request.shift + 1
    BY <1>1, <2>2, MakePlanFacts
  <2>4. Ordered(table, b, n) /\ n \in Nat
    BY <2>2, BlockersFacts
  <2> HIDE DEF b, s, n
  <2>5. plan'.moves = Remaining(b, s, n) /\ n \in 1 .. n
    BY <2>3, <2>4 DEF Planned
  <2>6. GrowEnd(Remaining(b, s, n), LastUsable) = s[1] - 1
    BY <2>2, <2>3, <2>4, <2>5, GrowEndIs
  <2>7. GrowEntry(table).last \in Nat /\ request.shift \in Nat
    BY <2>2, GrowEntryFacts, RequestFacts
  <2> QED BY <2>3, <2>5, <2>6, <2>7
<1>2. IInv /\ [Next]_vars =>
        [plan = NoPlan /\ plan'.refused = "no" /\ request.kind = "shift"
           => GrowEnd(plan'.moves, LastUsable) = GrowEntry(table).last + request.shift]_vars
  BY <1>1
<1> QED BY <1>2, IInvIsInvariant, PTL DEF Spec, ShiftGrowsExactly

-----------------------------------------------------------------------------
(* Optimality, against every landing that keeps the order, overlaps        *)
(* nothing and moves nothing leftwards.                                    *)
LEMMA ValidFacts ==
  ASSUME NEW t, GoodTable(t), NEW low, NEW v \in ValidLandings(t, low)
  PROVE  /\ v \in [1 .. Count(t) -> Int]
         /\ \A i \in 1 .. Count(t) :
              /\ v[i] >= Blockers(t)[i].first
              /\ v[i] + Length(Blockers(t)[i]) - 1 <= LastUsable
              /\ i = 1 => v[i] >= low
              /\ i # 1 => v[i] >= v[i - 1] + Length(Blockers(t)[i - 1])
<1>1. DOMAIN Blockers(t) = 1 .. Count(t)
  BY BlockersFacts
<1>2. v \in [1 .. Count(t) -> FirstUsable .. LastUsable]
  BY <1>1 DEF ValidLandings
<1>3. FirstUsable .. LastUsable \subseteq Int
  BY RelocPlanAssumption
<1>4. v \in [1 .. Count(t) -> Int]
  BY <1>2, <1>3
<1>5. \A i \in 1 .. Count(t) :
        /\ v[i] >= Blockers(t)[i].first
        /\ v[i] + Length(Blockers(t)[i]) - 1 <= LastUsable
        /\ v[i] >= (IF i = 1 THEN low ELSE v[i - 1] + Length(Blockers(t)[i - 1]))
  BY <1>1 DEF ValidLandings
<1> QED BY <1>4, <1>5

(* No legal placement puts a blocker further left than the shift does.     *)
LEMMA ShiftIsLeast ==
  ASSUME NEW t, GoodTable(t), NEW r \in Requests, r.kind # "tail",
         NEW v \in ValidLandings(t, GrowEntry(t).last + 1 + r.shift)
  PROVE  \A i \in 1 .. Count(t) : Starts(t, r)[i] <= v[i]
<1> DEFINE b == Blockers(t)
           s == Starts(t, r)
           n == Count(t)
           Bad == {i \in 1 .. n : ~ (s[i] <= v[i])}
<1>1. Ordered(t, b, n) /\ n \in Nat
  BY BlockersFacts
<1>2. s \in [1 .. n -> Int] /\ ShiftSteps(s, t, b, r.shift, n)
  BY StartsFacts
<1>3. /\ v \in [1 .. n -> Int]
      /\ \A i \in 1 .. n : /\ v[i] >= b[i].first
                           /\ i = 1 => v[i] >= GrowEntry(t).last + 1 + r.shift
                           /\ i # 1 => v[i] >= v[i - 1] + Length(b[i - 1])
  BY ValidFacts
<1> HIDE DEF b, s, n
<1>4. SUFFICES ASSUME Bad # {} PROVE FALSE
  BY DEF n, s
<1>5. PICK i \in Bad : \A j \in Bad : i <= j
  <2>1. Bad \in SUBSET Nat
    BY <1>1
  <2> HIDE DEF Bad
  <2> QED BY <1>4, <2>1, LeastNatural
<1>6. i \in 1 .. n /\ ~ (s[i] <= v[i])
  BY <1>5
<1>7. s[i] \in Int /\ v[i] \in Int /\ b[i].first \in Nat /\ GrowEntry(t).last \in Nat /\ r.shift \in Nat
  BY <1>1, <1>2, <1>3, <1>6, LengthsOfBlockers, GrowEntryFacts, RequestFacts
<1>8. CASE i = 1
  <2>1. s[i] = Max2(b[i].first, GrowEntry(t).last + r.shift + 1)
    BY <1>2, <1>6, <1>8 DEF ShiftSteps
  <2>2. v[i] >= b[i].first /\ v[i] >= GrowEntry(t).last + 1 + r.shift
    BY <1>3, <1>6, <1>8
  <2>3. s[i] <= v[i]
    BY <1>7, <2>1, <2>2 DEF Max2
  <2> QED BY <1>6, <2>3
<1>9. CASE i # 1
  <2>1. i - 1 \in 1 .. n /\ i - 1 < i
    BY <1>1, <1>6, <1>9
  <2>2. i - 1 \notin Bad
    <3> HIDE DEF Bad
    <3> QED BY <1>1, <1>5, <1>6, <2>1
  <2>3. s[i - 1] <= v[i - 1]
    BY <2>1, <2>2
  <2>4. s[i] = Max2(b[i].first, s[i - 1] + Length(b[i - 1]))
    BY <1>2, <1>6, <1>9 DEF ShiftSteps
  <2>5. v[i] >= b[i].first /\ v[i] >= v[i - 1] + Length(b[i - 1])
    BY <1>3, <1>6, <1>9
  <2>6. s[i - 1] \in Int /\ v[i - 1] \in Int /\ Length(b[i - 1]) \in Nat
    BY <1>1, <1>2, <1>3, <2>1, LengthsOfBlockers
  <2>7. s[i] <= v[i]
    BY <1>7, <2>3, <2>4, <2>5, <2>6 DEF Max2
  <2> QED BY <1>6, <2>7
<1> QED BY <1>8, <1>9

(* No legal placement puts a blocker further right than packing the tail   *)
(* does.                                                                   *)
LEMMA TailIsGreatest ==
  ASSUME NEW t, GoodTable(t), NEW r \in Requests, r.kind = "tail",
         NEW low, NEW v \in ValidLandings(t, low)
  PROVE  \A i \in 1 .. Count(t) : v[i] <= Starts(t, r)[i]
<1> DEFINE b == Blockers(t)
           s == Starts(t, r)
           n == Count(t)
           Bad == {d \in 0 .. (n - 1) : ~ (v[n - d] <= s[n - d])}
<1>1. Ordered(t, b, n) /\ n \in Nat
  BY BlockersFacts
<1>2. s \in [1 .. n -> Int] /\ TailSteps(s, b, n)
  BY StartsFacts
<1>3. /\ v \in [1 .. n -> Int]
      /\ \A i \in 1 .. n : /\ v[i] + Length(b[i]) - 1 <= LastUsable
                           /\ i # 1 => v[i] >= v[i - 1] + Length(b[i - 1])
  BY ValidFacts
<1> HIDE DEF b, s, n
<1>4. SUFFICES ASSUME Bad # {} PROVE FALSE
  <2>1. ASSUME Bad = {}, NEW i \in 1 .. n PROVE v[i] <= s[i]
    <3>1. n - i \in 0 .. (n - 1) /\ n - (n - i) = i
      BY <1>1
    <3> QED BY <2>1, <3>1
  <2> HIDE DEF Bad
  <2> QED BY <2>1 DEF n, s
<1>5. PICK d \in Bad : \A e \in Bad : d <= e
  <2>1. Bad \in SUBSET Nat
    BY <1>1
  <2> HIDE DEF Bad
  <2> QED BY <1>4, <2>1, LeastNatural
<1> DEFINE i == n - d
<1>6. d \in 0 .. (n - 1) /\ ~ (v[i] <= s[i]) /\ i \in 1 .. n
  BY <1>1, <1>5
<1>7. s[i] \in Int /\ v[i] \in Int /\ Length(b[i]) \in Nat /\ LastUsable \in Nat
  BY <1>1, <1>2, <1>3, <1>6, LengthsOfBlockers, RelocPlanAssumption
<1>8. CASE d = 0
  <2>1. i = n
    BY <1>1, <1>8
  <2>2. s[i] = (IF i = n THEN LastUsable + 1 ELSE s[i + 1]) - Length(b[i])
    <3> HIDE DEF i
    <3> QED BY <1>2, <1>6 DEF TailSteps
  <2>3. v[i] + Length(b[i]) - 1 <= LastUsable
    BY <1>3, <1>6
  <2> HIDE DEF i
  <2>4. v[i] <= s[i]
    BY <1>7, <2>1, <2>2, <2>3
  <2> QED BY <1>6, <2>4
<1>9. CASE d # 0
  <2>1. i + 1 \in 1 .. n /\ d - 1 \in 0 .. (n - 1) /\ n - (d - 1) = i + 1 /\ d - 1 < d /\ i # n /\ i + 1 # 1
    BY <1>1, <1>6, <1>9
  <2>2. d - 1 \notin Bad
    <3> HIDE DEF Bad
    <3>1. d \in Nat
      BY <1>6
    <3> QED BY <1>5, <2>1, <3>1
  <2>3. v[i + 1] <= s[i + 1]
    <3>1. v[n - (d - 1)] <= s[n - (d - 1)]
      BY <2>1, <2>2
    <3> QED BY <2>1, <3>1
  <2> HIDE DEF i
  <2>4. s[i] = s[i + 1] - Length(b[i])
    <3>1. s[i] = (IF i = n THEN LastUsable + 1 ELSE s[i + 1]) - Length(b[i])
      BY <1>2, <1>6 DEF TailSteps
    <3>2. s[i + 1] \in Int
      BY <1>2, <2>1
    <3> QED BY <1>7, <2>1, <3>1, <3>2
  <2>5. v[i + 1] >= v[i] + Length(b[i])
    <3>1. (i + 1) - 1 = i
      BY <1>1, <1>6
    <3>2. v[i + 1] >= v[(i + 1) - 1] + Length(b[(i + 1) - 1])
      BY <1>3, <2>1
    <3> QED BY <3>1, <3>2
  <2>6. s[i + 1] \in Int /\ v[i + 1] \in Int
    BY <1>2, <1>3, <2>1
  <2>7. v[i] <= s[i]
    BY <1>7, <2>3, <2>4, <2>5, <2>6
  <2> QED BY <1>6, <2>7
<1> QED BY <1>8, <1>9

(* The place at which a plan lands a partition is the start computed for   *)
(* it.                                                                     *)
LEMMA StartInPlan ==
  ASSUME NEW t, GoodTable(t), NEW b, NEW n, Ordered(t, b, n), NEW s, Lands(b, s, n),
         NEW i \in 1 .. n
  PROVE  StartIn(Remaining(b, s, n), b[i].part) = s[i]
<1> DEFINE moves == Remaining(b, s, n)
           j == CHOOSE j \in DOMAIN moves : moves[j].part = b[i].part
<1>1. n \in Nat /\ n \in 0 .. n
  BY DEF Ordered
<1>2. /\ DOMAIN moves = 1 .. n
      /\ \A m \in 1 .. n : n - m + 1 \in 1 .. n /\ moves[m] = MoveTo(b[n - m + 1], s[n - m + 1])
  <2>1. DOMAIN moves = 1 .. n
    BY DEF Remaining
  <2>2. ASSUME NEW m \in 1 .. n
        PROVE  n - m + 1 \in 1 .. n /\ moves[m] = MoveTo(b[n - m + 1], s[n - m + 1])
    BY <1>1, RemainingFacts
  <2> QED BY <2>1, <2>2
<1> HIDE DEF moves
<1>3. \E m \in DOMAIN moves : moves[m].part = b[i].part
  <2>1. n - i + 1 \in 1 .. n /\ n - (n - i + 1) + 1 = i
    BY <1>1
  <2>2. moves[n - i + 1] = MoveTo(b[i], s[i])
    BY <1>2, <2>1
  <2>3. moves[n - i + 1].part = b[i].part
    BY <2>2 DEF MoveTo
  <2> QED BY <1>2, <2>1, <2>3
<1>4. j \in 1 .. n /\ moves[j].part = b[i].part
  BY <1>2, <1>3
<1> HIDE DEF j
<1> DEFINE p == n - j + 1
<1>5. p \in 1 .. n /\ moves[j] = MoveTo(b[p], s[p])
  BY <1>2, <1>4
<1> HIDE DEF p
<1>6. b[p].part = b[i].part /\ NewFirst(moves[j]) = s[p]
  <2>1. MoveTo(b[p], s[p]).part = b[p].part /\ NewFirst(MoveTo(b[p], s[p])) = s[p]
    BY <1>5, MoveFacts
  <2> QED BY <1>4, <1>5, <2>1
<1>7. b[p] = b[i]
  <2>1. b[p] \in t /\ b[i] \in t
    BY <1>5 DEF Ordered
  <2> QED BY <1>6, <2>1, EntriesApart
<1>8. p = i
  <2>1. b[i].first \in Nat /\ b[i].last \in Nat /\ b[i].first <= b[i].last
    BY BlockerFacts
  <2>2. p < i => b[p].last < b[i].first
    BY <1>5 DEF Ordered
  <2>3. i < p => b[i].last < b[p].first
    BY <1>5 DEF Ordered
  <2>4. ~ (p < i) /\ ~ (i < p)
    BY <1>7, <2>1, <2>2, <2>3
  <2> QED BY <1>1, <1>5, <2>4
<1>9. StartIn(moves, b[i].part) = NewFirst(moves[j])
  BY DEF StartIn, j
<1> QED BY <1>6, <1>8, <1>9 DEF moves

(* "Not enough space" is the truth, a shift moves least and packing leaves *)
(* the target most.                                                        *)
THEOREM PlansAreOptimal == Spec => PlanIsOptimal
<1> DEFINE Optimal ==
      plan = NoPlan =>
        LET b == Blockers(table)
            valid == ValidLandings(table, Lowest(table, request))
        IN /\ plan'.refused = "space" => valid = {}
           /\ plan'.refused = "no" =>
                \A s \in valid : \A i \in DOMAIN b :
                  IF request.kind = "shift" THEN StartIn(plan'.moves, b[i].part) <= s[i]
                                            ELSE StartIn(plan'.moves, b[i].part) >= s[i]
<1>1. ASSUME IInv, [Next]_vars, plan = NoPlan, plan' # plan
      PROVE  LET b == Blockers(table)
                 valid == ValidLandings(table, Lowest(table, request))
             IN /\ plan'.refused = "space" => valid = {}
                /\ plan'.refused = "no" =>
                     \A s \in valid : \A i \in DOMAIN b :
                       IF request.kind = "shift" THEN StartIn(plan'.moves, b[i].part) <= s[i]
                                                 ELSE StartIn(plan'.moves, b[i].part) >= s[i]
  <2> DEFINE b == Blockers(table)
             s == Starts(table, request)
             n == Count(table)
             valid == ValidLandings(table, Lowest(table, request))
  <2>1. GoodTable(table) /\ request \in Requests /\ plan' = MakePlan(table, request)
    BY <1>1, PlanningStep
  <2>2. /\ Ordered(table, b, n) /\ n \in Nat /\ DOMAIN b = 1 .. n
        /\ request.kind \in {"tail", "shift"} /\ s \in [1 .. n -> Int]
    BY <2>1, BlockersFacts, RequestFacts, StartsFacts
  <2>3. /\ plan'.refused = "no" => Lands(b, s, n) /\ plan' = Planned(Remaining(b, s, n))
        /\ plan'.refused = "space" =>
             \E i \in 1 .. n : IF request.kind = "tail" THEN s[i] < b[i].first
                               ELSE s[i] + Length(b[i]) - 1 > LastUsable
    BY <2>1, MakePlanFacts
  <2>4. ASSUME NEW v \in valid
        PROVE  /\ v \in [1 .. n -> Int]
               /\ \A i \in 1 .. n : /\ v[i] >= b[i].first
                                    /\ v[i] + Length(b[i]) - 1 <= LastUsable
               /\ request.kind = "tail" => \A i \in 1 .. n : v[i] <= s[i]
               /\ request.kind = "shift" => \A i \in 1 .. n : s[i] <= v[i]
    <3>1. v \in [1 .. n -> Int] /\ \A i \in 1 .. n : /\ v[i] >= b[i].first
                                                     /\ v[i] + Length(b[i]) - 1 <= LastUsable
      BY <2>1, ValidFacts
    <3>2. request.kind = "tail" => \A i \in 1 .. n : v[i] <= s[i]
      BY <2>1, TailIsGreatest
    <3>3. request.kind = "shift" => \A i \in 1 .. n : s[i] <= v[i]
      <4>1. SUFFICES ASSUME request.kind = "shift" PROVE \A i \in 1 .. n : s[i] <= v[i]
        OBVIOUS
      <4>2. Lowest(table, request) = GrowEntry(table).last + 1 + request.shift
        BY <4>1 DEF Lowest
      <4> QED BY <2>1, <4>1, <4>2, ShiftIsLeast
    <3> QED BY <3>1, <3>2, <3>3
  <2>5. ASSUME plan'.refused = "space" PROVE valid = {}
    <3>1. SUFFICES ASSUME NEW v \in valid PROVE FALSE
      OBVIOUS
    <3>2. PICK i \in 1 .. n : IF request.kind = "tail" THEN s[i] < b[i].first
                              ELSE s[i] + Length(b[i]) - 1 > LastUsable
      BY <2>3, <2>5
    <3>3. /\ v[i] \in Int /\ v[i] >= b[i].first /\ v[i] + Length(b[i]) - 1 <= LastUsable
          /\ request.kind = "tail" => v[i] <= s[i]
          /\ request.kind = "shift" => s[i] <= v[i]
      BY <2>4
    <3> HIDE DEF b, s, n, valid
    <3>4. s[i] \in Int /\ b[i].first \in Nat /\ Length(b[i]) \in Nat /\ LastUsable \in Nat
      BY <2>1, <2>2, LengthsOfBlockers, RelocPlanAssumption
    <3>5. CASE request.kind = "tail"
      BY <3>2, <3>3, <3>4, <3>5
    <3>6. CASE request.kind = "shift"
      BY <3>2, <3>3, <3>4, <3>6
    <3> QED BY <2>2, <3>5, <3>6
  <2>6. ASSUME plan'.refused = "no", NEW v \in valid, NEW i \in DOMAIN b
        PROVE  IF request.kind = "shift" THEN StartIn(plan'.moves, b[i].part) <= v[i]
                                         ELSE StartIn(plan'.moves, b[i].part) >= v[i]
    <3>1. i \in 1 .. n
      BY <2>2, <2>6
    <3>2. Lands(b, s, n) /\ plan'.moves = Remaining(b, s, n)
      BY <2>3, <2>6 DEF Planned
    <3>3. /\ v[i] \in Int
          /\ request.kind = "tail" => v[i] <= s[i]
          /\ request.kind = "shift" => s[i] <= v[i]
      BY <2>4, <3>1
    <3> HIDE DEF b, s, n, valid
    <3>4. StartIn(plan'.moves, b[i].part) = s[i] /\ s[i] \in Int
      BY <2>1, <2>2, <3>1, <3>2, StartInPlan
    <3> QED BY <2>2, <3>3, <3>4
  <2> HIDE DEF s, n
  <2> QED BY <2>5, <2>6
<1>2. ASSUME IInv, [Next]_vars PROVE [Optimal]_vars
  <2>1. CASE plan' = plan
    <3>1. SUFFICES ASSUME plan = NoPlan PROVE plan'.refused \notin {"no", "space"}
      OBVIOUS
    <3> QED BY <2>1, <3>1 DEF NoPlan, Refused
  <2>2. CASE plan' # plan
    BY <1>1, <1>2, <2>2
  <2> QED BY <2>1, <2>2
<1>3. IInv /\ [Next]_vars => [Optimal]_vars
  BY <1>2
<1> QED BY <1>3, IInvIsInvariant, PTL DEF Spec, PlanIsOptimal
=============================================================================
