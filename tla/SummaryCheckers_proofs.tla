------------------------ MODULE SummaryCheckers_proofs ------------------------
(***************************************************************************)
(* The drivers: k-induction, bounded model checking and the abstract       *)
(* interpreter, for all loops, templates and options.  The first half is   *)
(* about the unwound loop alone: what it means for the program that no     *)
(* model of the formula violates an assertion.  The second half carries    *)
(* this through the rounds of the drivers.                                 *)
(***************************************************************************)
EXTENDS SummaryCheckers, CheckProperties_proofs, InductionLemmas

(* The executions and their parts: n consecutive states at the loop head.  *)
Paths(P, start, n) == {w \in [1..n -> State] : w[1] \in start /\ Consecutive(P, w)}

LEMMA ProgramTyped ==
    ASSUME NEW P \in Program
    PROVE  /\ P.init \subseteq State
           /\ \A s \in State : P.next[s] \subseteq State
           /\ \A p \in Property : P.bad[p] \subseteq State
BY DEF Program

LEMMA WindowsArePaths ==
    ASSUME NEW P \in Program, NEW k \in Nat, NEW start, NEW w \in Windows(P, k, start)
    PROVE  \E n \in 1..(k + 1) :
                /\ w \in Paths(P, start, n)
                /\ n = k + 1 \/ P.next[w[n]] = {}
BY DEF Windows, Paths

LEMMA PathsAreWindows ==
    ASSUME NEW P \in Program, NEW k \in Nat, NEW start, NEW n \in 1..(k + 1),
           NEW w \in Paths(P, start, n), n = k + 1 \/ P.next[w[n]] = {}
    PROVE  w \in Windows(P, k, start)
BY DEF Windows, Paths

LEMMA PathGrows ==
    ASSUME NEW P \in Program, NEW start, NEW n \in Nat \ {0}, NEW w \in Paths(P, start, n),
           NEW t \in P.next[w[n]]
    PROVE  [j \in 1..(n + 1) |-> IF j = n + 1 THEN t ELSE w[j]] \in Paths(P, start, n + 1)
<1>. DEFINE v == [j \in 1..(n + 1) |-> IF j = n + 1 THEN t ELSE w[j]]
<1>1. w \in [1..n -> State] /\ w[1] \in start /\ Consecutive(P, w) /\ t \in State
  BY ProgramTyped DEF Paths
<1>2. v \in [1..(n + 1) -> State] /\ v[1] \in start
  BY <1>1
<1>3. ASSUME NEW j \in 1..n PROVE v[j + 1] \in P.next[v[j]]
  <2>1. CASE j = n
    BY <1>1, <2>1
  <2>2. CASE j # n
    BY <1>1, <2>2 DEF Consecutive
  <2>. QED
    BY <2>1, <2>2
<1>. QED
  BY <1>2, <1>3 DEF Paths, Consecutive

LEMMA PathPrefix ==
    ASSUME NEW P \in Program, NEW start, NEW n \in Nat \ {0}, NEW w \in Paths(P, start, n),
           NEW m \in 1..n
    PROVE  [j \in 1..m |-> w[j]] \in Paths(P, start, m)
BY DEF Paths, Consecutive

LEMMA PathSuffix ==
    ASSUME NEW P \in Program, NEW start, NEW n \in Nat \ {0}, NEW w \in Paths(P, start, n),
           NEW m \in 1..n
    PROVE  [j \in 1..m |-> w[n - m + j]] \in Paths(P, State, m)
<1>. DEFINE v == [j \in 1..m |-> w[n - m + j]]
<1>1. w \in [1..n -> State] /\ Consecutive(P, w)
  BY DEF Paths
<1>2. v \in [1..m -> State]
  BY <1>1
<1>3. ASSUME NEW j \in 1..m, j + 1 \in 1..m PROVE v[j + 1] \in P.next[v[j]]
  <2>1. n - m + j \in 1..n /\ (n - m + j) + 1 \in 1..n
    BY <1>3
  <2>2. w[(n - m + j) + 1] \in P.next[w[n - m + j]]
    BY <1>1, <2>1 DEF Consecutive
  <2>3. n - m + (j + 1) = (n - m + j) + 1
    OBVIOUS
  <2>. QED
    BY <1>3, <2>2, <2>3
<1>4. v[1] \in State /\ DOMAIN v = 1..m
  BY <1>2
<1>. QED
  BY <1>2, <1>3, <1>4 DEF Paths, Consecutive

(* Every path of at most k + 1 states is the beginning of a window.        *)
LEMMA PathsExtend ==
    ASSUME NEW P \in Program, NEW k \in Nat, NEW start, NEW n \in 1..(k + 1),
           NEW w \in Paths(P, start, n)
    PROVE  \E v \in Windows(P, k, start) : n \in DOMAIN v /\ v[n] = w[n]
<1>. DEFINE Longer(m) == \E v \in Paths(P, start, m) : v[n] = w[n]
            T == {m \in n..(k + 1) : Longer(m)}
<1>1. T \in SUBSET (0..(k + 1)) /\ T # {} /\ k + 1 \in Nat
  OBVIOUS
<1>2. PICK m \in T : \A y \in T : y <= m
  <2>. HIDE DEF T
  <2>. QED
    BY <1>1, GreatestNumber
<1>3. PICK v \in Paths(P, start, m) : v[n] = w[n]
  BY <1>2
<1>4. m \in 1..(k + 1) /\ n <= m
  BY <1>2
<1>5. m = k + 1 \/ P.next[v[m]] = {}
  <2>1. ASSUME m # k + 1, NEW t \in P.next[v[m]] PROVE FALSE
    <3>. DEFINE u == [j \in 1..(m + 1) |-> IF j = m + 1 THEN t ELSE v[j]]
    <3>1. u \in Paths(P, start, m + 1)
      BY <1>4, PathGrows
    <3>2. u[n] = w[n]
      BY <1>3, <1>4
    <3>3. m + 1 \in T
      BY <1>4, <2>1, <3>1, <3>2
    <3>. QED
      BY <1>2, <1>4, <3>3
  <2>. QED
    BY <2>1
<1>6. v \in Windows(P, k, start)
  BY <1>4, <1>5, PathsAreWindows
<1>7. DOMAIN v = 1..m
  BY DEF Paths
<1>. QED
  BY <1>3, <1>4, <1>6, <1>7

-----------------------------------------------------------------------------
(* What the program reaches.                                               *)

LEMMA ReachableLeast ==
    ASSUME NEW P \in Program, NEW S \in SUBSET State, P.init \subseteq S,
           \A s \in S : P.next[s] \subseteq S
    PROVE  Reachable(P) \subseteq S
BY DEF Reachable, Closure

LEMMA ReachableCleanlyLeast ==
    ASSUME NEW P \in Program, NEW S \in SUBSET State, P.init \subseteq S,
           \A s \in S : Clean(P, s) => P.next[s] \subseteq S
    PROVE  ReachableCleanly(P) \subseteq S
BY DEF ReachableCleanly, Closure

LEMMA ReachableCleanlyClosed ==
    ASSUME NEW P \in Program
    PROVE  /\ P.init \subseteq ReachableCleanly(P)
           /\ \A s \in ReachableCleanly(P) :
                Clean(P, s) => P.next[s] \subseteq ReachableCleanly(P)
<1>1. P.init \subseteq ReachableCleanly(P)
  BY ProgramTyped DEF ReachableCleanly, Closure
<1>2. ASSUME NEW s \in ReachableCleanly(P), Clean(P, s), NEW t \in P.next[s]
      PROVE  t \in ReachableCleanly(P)
  <2>. DEFINE Succ(u) == IF Clean(P, u) THEN P.next[u] ELSE {}
  <2>1. s \in State /\ t \in State
    BY <1>2, ProgramTyped DEF ReachableCleanly, Closure
  <2>2. ASSUME NEW S \in SUBSET State, P.init \subseteq S, \A u \in S : Succ(u) \subseteq S
        PROVE  t \in S
    <3>1. s \in S
      BY <2>2 DEF ReachableCleanly, Closure
    <3>. QED
      BY <1>2, <2>2, <3>1
  <2>. QED
    BY <2>1, <2>2 DEF ReachableCleanly, Closure
<1>. QED
  BY <1>1, <1>2

(* The program is correct if no assertion is the first to fail.            *)
LEMMA NeverFirstIsCorrect ==
    ASSUME NEW P \in Program, \A p \in Property : ReachableCleanly(P) \cap P.bad[p] = {}
    PROVE  Correct(P)
<1>1. \A s \in ReachableCleanly(P) : Clean(P, s)
  BY DEF Clean
<1>2. ReachableCleanly(P) \subseteq State
  BY DEF ReachableCleanly, Closure
<1>3. Reachable(P) \subseteq ReachableCleanly(P)
  BY <1>1, <1>2, ReachableCleanlyClosed, ReachableLeast
<1>. QED
  BY <1>1, <1>3 DEF Correct

LEMMA CleanlyIsReachable ==
    ASSUME NEW P \in Program PROVE ReachableCleanly(P) \subseteq Reachable(P)
<1>1. /\ Reachable(P) \subseteq State
      /\ P.init \subseteq Reachable(P)
  BY ProgramTyped DEF Reachable, Closure
<1>2. ASSUME NEW s \in Reachable(P), NEW t \in P.next[s] PROVE t \in Reachable(P)
  <2>1. s \in State /\ t \in State
    BY <1>2, ProgramTyped DEF Reachable, Closure
  <2>2. ASSUME NEW S \in SUBSET State, P.init \subseteq S, \A u \in S : P.next[u] \subseteq S
        PROVE  t \in S
    <3>1. s \in S
      BY <2>2 DEF Reachable, Closure
    <3>. QED
      BY <1>2, <2>2, <3>1
  <2>. QED
    BY <2>1, <2>2 DEF Reachable, Closure
<1>. QED
  BY <1>1, <1>2, ReachableCleanlyLeast

(* w is an execution of n states in which at most the last one fails.      *)
CleanPath(P, w, n) ==
    /\ w \in Paths(P, P.init, n)
    /\ \A j \in 1..n : j < n => Clean(P, w[j])

LEMMA ReachedByCleanPath ==
    ASSUME NEW P \in Program, NEW s \in ReachableCleanly(P)
    PROVE  \E n \in Nat \ {0} : \E w : CleanPath(P, w, n) /\ w[n] = s
<1>. DEFINE S == {u \in State : \E n \in Nat \ {0} : \E w : CleanPath(P, w, n) /\ w[n] = u}
<1>1. ASSUME NEW u \in P.init PROVE u \in S
  <2>. DEFINE w == [j \in 1..1 |-> u]
  <2>1. u \in State
    BY ProgramTyped
  <2>2. w \in Paths(P, P.init, 1)
    BY <2>1 DEF Paths, Consecutive
  <2>3. CleanPath(P, w, 1) /\ w[1] = u
    BY <2>2 DEF CleanPath
  <2>. HIDE DEF w
  <2>. QED
    BY <2>1, <2>3
<1>2. ASSUME NEW u \in S, Clean(P, u), NEW t \in P.next[u] PROVE t \in S
  <2>1. PICK n \in Nat \ {0} : \E w : CleanPath(P, w, n) /\ w[n] = u
    OBVIOUS
  <2>2. PICK w : CleanPath(P, w, n) /\ w[n] = u
    BY <2>1
  <2>. DEFINE v == [j \in 1..(n + 1) |-> IF j = n + 1 THEN t ELSE w[j]]
  <2>3. v \in Paths(P, P.init, n + 1)
    BY <2>2, PathGrows DEF CleanPath
  <2>4. \A j \in 1..(n + 1) : j < n + 1 => Clean(P, v[j])
    BY <1>2, <2>2 DEF CleanPath
  <2>5. CleanPath(P, v, n + 1) /\ v[n + 1] = t /\ t \in State
    BY <1>2, <2>3, <2>4, ProgramTyped DEF CleanPath
  <2>. HIDE DEF v
  <2>. QED
    BY <2>5
<1>3. ReachableCleanly(P) \subseteq S
  <2>1. S \in SUBSET State /\ P.init \subseteq S /\ \A u \in S : Clean(P, u) => P.next[u] \subseteq S
    BY <1>1, <1>2
  <2>. HIDE DEF S
  <2>. QED
    BY <2>1, ReachableCleanlyLeast
<1>. QED
  BY <1>3

LEMMA PathIsReached ==
    ASSUME NEW P \in Program, NEW n \in Nat \ {0}, NEW w, CleanPath(P, w, n)
    PROVE  w[n] \in ReachableCleanly(P)
<1>. DEFINE T == {j \in 1..n : w[j] \in ReachableCleanly(P)}
<1>1. w \in [1..n -> State] /\ w[1] \in P.init /\ Consecutive(P, w)
  BY DEF CleanPath, Paths
<1>2. T \in SUBSET (0..n) /\ T # {} /\ n \in Nat
  BY <1>1, ReachableCleanlyClosed
<1>3. PICK m \in T : \A y \in T : y <= m
  <2>. HIDE DEF T
  <2>. QED
    BY <1>2, GreatestNumber
<1>4. m = n
  <2>1. ASSUME m # n PROVE FALSE
    <3>1. m + 1 \in 1..n /\ m \in 1..n /\ m < n
      BY <2>1
    <3>2. w[m + 1] \in P.next[w[m]] /\ Clean(P, w[m])
      BY <1>1, <3>1 DEF Consecutive, CleanPath
    <3>3. m + 1 \in T
      BY <3>1, <3>2, ReachableCleanlyClosed
    <3>. QED
      BY <1>3, <3>1, <3>3
  <2>. QED
    BY <2>1
<1>. QED
  BY <1>3, <1>4

-----------------------------------------------------------------------------
(* What it means that no model of the formula violates an assertion.       *)

(* The executions of at most k iterations violate no assertion.            *)
PathsSafe(P, k) ==
    \A n \in 1..k : \A w \in Paths(P, P.init, n) : \A j \in 1..n : Clean(P, w[j])

(* No copy has its assertions assumed: all are asserted.                   *)
Exhaustive(P, k) == Mode = "NORMAL" \/ k = 0 \/ (k = 1 /\ ~P.dowhile)

Unviolated(P, k, inv, p) ==
    \A m \in FormulaModels(UnwoundFormula(P, k, inv)) : p \notin m.viol

LEMMA WindowDomain ==
    ASSUME NEW P \in Program, NEW k \in Nat, NEW start, NEW w \in Windows(P, k, start)
    PROVE  \E n \in 1..(k + 1) : DOMAIN w = 1..n /\ w \in Paths(P, start, n)
BY WindowsArePaths DEF Paths

LEMMA ConcreteModel ==
    ASSUME NEW P, NEW k, NEW inv, NEW w \in EntryWindows(P, k), NEW p \in Violations(P, k, w)
    PROVE  /\ \E m \in Concrete(UnwoundFormula(P, k, inv).models) : p \in m.viol
           /\ ~Unviolated(P, k, inv, p)
<1>. DEFINE m == [viol |-> Violations(P, k, w), inv |-> FALSE]
<1>1. m \in Concrete(UnwoundFormula(P, k, inv).models) /\ p \in m.viol
  BY DEF UnwoundFormula, UnwoundModels, Concrete
<1>2. m \in FormulaModels(UnwoundFormula(P, k, inv))
  BY <1>1 DEF FormulaModels, Concrete
<1>. QED
  BY <1>1, <1>2 DEF Unviolated

LEMMA SpuriousModel ==
    ASSUME NEW P, NEW k, NEW inv, NEW w \in LoopBackWindows(P, k, inv), Continues(P, k),
           NEW p \in Violations(P, k, w)
    PROVE  ~Unviolated(P, k, inv, p)
<1>. DEFINE m == [viol |-> Violations(P, k, w), inv |-> TRUE]
<1>1. m \in FormulaModels(UnwoundFormula(P, k, inv)) /\ p \in m.viol
  BY DEF UnwoundFormula, UnwoundModels, FormulaModels
<1>. QED
  BY <1>1 DEF Unviolated

LEMMA LastCopy ==
    ASSUME NEW P, NEW k \in Nat, NEW j \in 1..(k + 1)
    PROVE  /\ j = k + 1 => IsLast(P, CopyOf(k, j))
           /\ \A p, entered : Assumed(P, p, CopyOf(k, j), k, entered) => j <= k
BY DEF IsLast, CopyOf, Assumed

(* Once the executions of k iterations are safe, those of k + 1 are models *)
(* of the unwinding.                                                       *)
LEMMA SafeIsAdmitted ==
    ASSUME NEW P \in Program, NEW k \in Nat, Mode = "NORMAL" \/ PathsSafe(P, k),
           NEW w \in Windows(P, k, P.init)
    PROVE  w \in EntryWindows(P, k)
<1>1. PICK n \in 1..(k + 1) : DOMAIN w = 1..n /\ w \in Paths(P, P.init, n)
  BY WindowDomain
<1>2. ASSUME NEW j \in 1..n, NEW p \in Property, Assumed(P, p, CopyOf(k, j), k, TRUE)
      PROVE  w[j] \notin P.bad[p]
  <2>1. j <= k
    <3>1. j \in 1..(k + 1)
      BY <1>1
    <3>. QED
      BY <1>2, <3>1, LastCopy
  <2>2. PathsSafe(P, k)
    BY <1>2 DEF Assumed
  <2>. DEFINE u == [i \in 1..j |-> w[i]]
  <2>3. u \in Paths(P, P.init, j) /\ u[j] = w[j] /\ j \in 1..k
    BY <1>1, <2>1, PathPrefix
  <2>4. Clean(P, u[j])
    <3>. HIDE DEF u
    <3>. QED
      BY <2>2, <2>3 DEF PathsSafe
  <2>. QED
    BY <2>3, <2>4 DEF Clean
<1>. QED
  BY <1>1, <1>2 DEF EntryWindows, Admitted

(* The base case.  An assertion in Old is never the first to fail; what    *)
(* else fails first within k + 1 iterations fails in a model that goes     *)
(* through no invariant.                                                   *)
LEMMA BaseStep ==
    ASSUME NEW P \in Program, NEW k \in Nat, NEW inv, NEW Old,
           Mode = "NORMAL" \/ PathsSafe(P, k),
           \A p \in Old : ReachableCleanly(P) \cap P.bad[p] = {},
           \A p \in Property \ Old :
                \A m \in Concrete(UnwoundFormula(P, k, inv).models) : p \notin m.viol
    PROVE  PathsSafe(P, k + 1)
<1>. SUFFICES ASSUME NEW n \in 1..(k + 1), NEW w \in Paths(P, P.init, n),
                     NEW i \in 1..n, ~Clean(P, w[i])
              PROVE  FALSE
  BY DEF PathsSafe
<1>. DEFINE T == {j \in 1..n : ~Clean(P, w[j])}
<1>1. PICK j \in T : \A y \in T : j <= y
  <2>1. T \in SUBSET Nat /\ T # {}
    OBVIOUS
  <2>. HIDE DEF T
  <2>. QED
    BY <2>1, LeastNumber
<1>. DEFINE u == [y \in 1..j |-> w[y]]
<1>2. CleanPath(P, u, j) /\ u[j] = w[j] /\ j \in Nat \ {0} /\ j \in 1..(k + 1)
  <2>1. u \in Paths(P, P.init, j)
    BY PathPrefix
  <2>2. \A y \in 1..j : y < j => Clean(P, w[y])
    BY <1>1
  <2>. QED
    BY <2>1, <2>2 DEF CleanPath
<1>. HIDE DEF u
<1>3. PICK p \in Property : w[j] \in P.bad[p]
  BY DEF Clean
<1>4. p \notin Old
  BY <1>2, <1>3, PathIsReached
<1>5. PICK v \in Windows(P, k, P.init) : j \in DOMAIN v /\ v[j] = w[j]
  BY <1>2, PathsExtend DEF CleanPath
<1>6. v \in EntryWindows(P, k)
  BY SafeIsAdmitted
<1>7. Asserted(P, p, CopyOf(k, j))
  <2>1. CASE Mode = "NORMAL"
    BY <2>1 DEF Asserted
  <2>2. CASE PathsSafe(P, k)
    <3>1. j = k + 1
      <4>1. ~(j \in 1..k)
        BY <1>2, <1>3, <2>2 DEF PathsSafe, CleanPath, Clean
      <4>. QED
        BY <1>2, <4>1
    <3>. QED
      BY <1>2, <3>1, LastCopy DEF Asserted
  <2>. QED
    BY <2>1, <2>2
<1>8. p \in Violations(P, k, v)
  BY <1>3, <1>5, <1>7 DEF Violations
<1>. QED
  BY <1>4, <1>6, <1>8, ConcreteModel

LEMMA PathsSafeIsSafe ==
    ASSUME NEW P \in Program, NEW k \in Nat, PathsSafe(P, k + 1)
    PROVE  SafeUpTo(P, k)
BY WindowDomain DEF SafeUpTo, PathsSafe

(* The step of k-induction.  The first failure of an assertion lies behind *)
(* k safe iterations; the last k + 1 of the execution are a window from    *)
(* the loop-back variables, which nothing has to constrain.                *)
LEMMA InductionStep ==
    ASSUME NEW P \in Program, NEW k \in Nat, NEW p \in Property,
           PathsSafe(P, k), Unviolated(P, k, State, p)
    PROVE  ReachableCleanly(P) \cap P.bad[p] = {}
<1>. SUFFICES ASSUME NEW s \in ReachableCleanly(P), s \in P.bad[p] PROVE FALSE
  OBVIOUS
<1>1. PICK n \in Nat \ {0} : \E w : CleanPath(P, w, n) /\ w[n] = s
  BY ReachedByCleanPath
<1>2. PICK w : CleanPath(P, w, n) /\ w[n] = s
  BY <1>1
<1>3. n > k
  <2>1. ~(n \in 1..k)
    BY <1>2 DEF PathsSafe, CleanPath, Clean
  <2>. QED
    BY <2>1
<1>4. w \in Paths(P, P.init, n) /\ \A j \in 1..n : j < n => Clean(P, w[j])
  BY <1>2 DEF CleanPath
<1>5. CASE n = k + 1
  <2>1. w \in Windows(P, k, P.init)
    BY <1>4, <1>5, PathsAreWindows
  <2>2. w \in EntryWindows(P, k)
    BY <2>1, SafeIsAdmitted
  <2>3. p \in Violations(P, k, w)
    <3>1. k + 1 \in DOMAIN w /\ w[k + 1] = s
      BY <1>2, <1>4, <1>5 DEF Paths
    <3>2. Asserted(P, p, CopyOf(k, k + 1))
      BY LastCopy DEF Asserted
    <3>. QED
      BY <3>1, <3>2 DEF Violations
  <2>. QED
    BY <2>2, <2>3, ConcreteModel
<1>6. CASE n > k + 1
  <2>. DEFINE u == [j \in 1..(k + 1) |-> w[n - (k + 1) + j]]
              v == [j \in 1..(k + 1) |-> w[j]]
  <2>1. u \in Paths(P, State, k + 1)
    BY <1>4, <1>6, PathSuffix
  <2>2. u \in Windows(P, k, State)
    BY <2>1, PathsAreWindows
  <2>3. u \in LoopBackWindows(P, k, State)
    <3>1. ASSUME NEW j \in 1..(k + 1), NEW q \in Property,
                 Assumed(P, q, CopyOf(k, j), k, FALSE)
          PROVE  u[j] \notin P.bad[q]
      <4>1. j <= k
        BY <3>1, LastCopy
      <4>2. n - (k + 1) + j \in 1..n /\ n - (k + 1) + j < n
        BY <1>6, <4>1
      <4>. QED
        BY <1>4, <4>2 DEF Clean
    <3>. QED
      BY <2>2, <3>1 DEF LoopBackWindows, Admitted
  <2>4. p \in Violations(P, k, u)
    <3>1. u[k + 1] = s /\ k + 1 \in DOMAIN u /\ k + 1 \in 1..(k + 1)
      BY <1>2, <1>6
    <3>2. Asserted(P, p, CopyOf(k, k + 1))
      BY <3>1, LastCopy DEF Asserted
    <3>. HIDE DEF u
    <3>. QED
      BY <3>1, <3>2 DEF Violations
  <2>5. v \in Paths(P, P.init, k + 1)
    BY <1>4, <1>6, PathPrefix
  <2>6. v \in EntryWindows(P, k)
    BY <2>5, PathsAreWindows, SafeIsAdmitted
  <2>7. w[k + 2] \in P.next[v[k + 1]] /\ DOMAIN v = 1..(k + 1)
    BY <1>4, <1>6 DEF Paths, Consecutive
  <2>8. Continues(P, k)
    BY <2>6, <2>7 DEF Continues, AfterWindows
  <2>. QED
    BY <2>3, <2>4, <2>8, SpuriousModel
<1>. QED
  BY <1>3, <1>5, <1>6

(* The invariant.  The states within k + 1 iterations of the entry or, if  *)
(* the executions go on, of a loop-back value are closed under the step of *)
(* the loop, and each of them is checked.                                  *)
LEMMA ExhaustiveStep ==
    ASSUME NEW P \in Program, NEW k \in Nat, NEW inv \in SUBSET State, NEW p \in Property,
           Exhaustive(P, k), LoopBackValues(P, k, inv) \subseteq inv,
           Unviolated(P, k, inv, p)
    PROVE  Reachable(P) \cap P.bad[p] = {}
<1>. DEFINE start == P.init \cup (IF Continues(P, k) THEN inv ELSE {})
            Seen == {s \in State : \E n \in 1..(k + 1) : \E w \in Paths(P, start, n) : w[n] = s}
<1>1. ASSUME NEW j \in 1..(k + 1), NEW q \in Property
      PROVE  /\ Asserted(P, q, CopyOf(k, j))
             /\ ~Assumed(P, q, CopyOf(k, j), k, TRUE)
             /\ ~Assumed(P, q, CopyOf(k, j), k, FALSE)
  BY DEF Exhaustive, Asserted, Assumed, IsLast, CopyOf
<1>2. ASSUME NEW w \in Windows(P, k, start)
      PROVE  \/ w \in EntryWindows(P, k)
             \/ Continues(P, k) /\ w \in LoopBackWindows(P, k, inv)
  <2>1. PICK n \in 1..(k + 1) :
            w \in Paths(P, start, n) /\ (n = k + 1 \/ P.next[w[n]] = {})
    BY WindowsArePaths
  <2>2. DOMAIN w = 1..n /\ n <= k + 1
    BY <2>1 DEF Paths
  <2>3. Admitted(P, k, TRUE, w) /\ Admitted(P, k, FALSE, w)
    <3>1. \A j \in DOMAIN w : j \in 1..(k + 1)
      BY <2>2
    <3>. QED
      BY <1>1, <3>1 DEF Admitted
  <2>4. CASE w[1] \in P.init
    <3>1. w \in Windows(P, k, P.init)
      BY <2>1, <2>4, PathsAreWindows DEF Paths
    <3>. QED
      BY <2>3, <3>1 DEF EntryWindows
  <2>5. CASE Continues(P, k) /\ w[1] \in inv
    <3>1. w \in Windows(P, k, inv)
      BY <2>1, <2>5, PathsAreWindows DEF Paths
    <3>. QED
      BY <2>3, <2>5, <3>1 DEF LoopBackWindows
  <2>. QED
    BY <2>1, <2>4, <2>5 DEF Paths
<1>3. ASSUME NEW s \in start PROVE s \in Seen
  <2>. DEFINE w == [j \in 1..1 |-> s]
  <2>1. s \in State
    BY ProgramTyped
  <2>2. w \in Paths(P, start, 1) /\ w[1] = s
    BY <2>1 DEF Paths, Consecutive
  <2>. HIDE DEF w, start
  <2>. QED
    BY <2>1, <2>2
<1>4. ASSUME NEW s \in Seen, NEW t \in P.next[s] PROVE t \in Seen
  <2>. HIDE DEF start
  <2>1. PICK n \in 1..(k + 1) : \E w \in Paths(P, start, n) : w[n] = s
    OBVIOUS
  <2>2. PICK w \in Paths(P, start, n) : w[n] = s
    BY <2>1
  <2>3. CASE n < k + 1
    <3>. DEFINE v == [j \in 1..(n + 1) |-> IF j = n + 1 THEN t ELSE w[j]]
    <3>1. v \in Paths(P, start, n + 1) /\ v[n + 1] = t /\ n + 1 \in 1..(k + 1)
      BY <1>4, <2>2, <2>3, PathGrows
    <3>2. t \in State
      BY <1>4, ProgramTyped
    <3>. HIDE DEF v
    <3>. QED
      BY <3>1, <3>2
  <2>4. CASE n = k + 1
    <3>1. w \in Windows(P, k, start) /\ DOMAIN w = 1..(k + 1)
      BY <2>2, <2>4, PathsAreWindows DEF Paths
    <3>2. t \in P.next[w[k + 1]]
      BY <1>4, <2>2, <2>4
    <3>3. t \in inv
      BY <1>2, <3>1, <3>2 DEF LoopBackValues, AfterWindows
    <3>4. Continues(P, k)
      <4>1. w \in EntryWindows(P, k) => t \in AfterWindows(P, k, EntryWindows(P, k))
        BY <3>1, <3>2 DEF AfterWindows
      <4>. QED
        BY <1>2, <3>1, <4>1 DEF Continues
    <3>. QED
      BY <1>3, <3>3, <3>4 DEF start
  <2>. QED
    BY <2>3, <2>4
<1>5. Reachable(P) \subseteq Seen
  <2>1. Seen \in SUBSET State /\ P.init \subseteq Seen /\ \A s \in Seen : P.next[s] \subseteq Seen
    BY <1>3, <1>4
  <2>. HIDE DEF Seen
  <2>. QED
    BY <2>1, ReachableLeast
<1>6. ASSUME NEW s \in Seen, s \in P.bad[p] PROVE FALSE
  <2>. HIDE DEF start
  <2>1. PICK n \in 1..(k + 1) : \E w \in Paths(P, start, n) : w[n] = s
    OBVIOUS
  <2>2. PICK v \in Windows(P, k, start) : n \in DOMAIN v /\ v[n] = s
    BY <2>1, PathsExtend
  <2>3. p \in Violations(P, k, v)
    BY <1>1, <1>6, <2>2 DEF Violations
  <2>. QED
    BY <1>2, <2>3, ConcreteModel, SpuriousModel
<1>. QED
  BY <1>5, <1>6

-----------------------------------------------------------------------------
(* The rounds of the drivers.  What holds whatever the invariants are      *)
(* worth comes first.                                                      *)

(* Between two rounds the formula is not the one of the unwinding.         *)
BetweenRounds == phase \in {"unwind", "summarize"}

(* The rounds of the incremental drivers that infer an invariant.          *)
UsesInvariants(k) == ~Havoc /\ (k < GiveUpInvariants \/ ~CompetitionMode)

PhaseInv ==
    /\ cmdline \in CommandLines /\ prog \in Programs[cmdline]
    /\ unwind \in 0..MaxUnwind /\ domain \in Domain
    /\ Checker = "ai" => unwind = MaxUnwind /\ phase \in {"summarize", "summarized", "stop"}
    /\ Checker # "ai" => phase \in {"unwind", "unwound", "summarized", "refined", "stop"}
    /\ Checker # "ai" /\ phase \in {"summarized", "refined"} => UsesInvariants(unwind)
    /\ BetweenRounds \/ phase = "stop" => pc = "done"
    /\ phase = "stop" => result \in {"PASS", "FAIL"} \/ unwind = MaxUnwind

FormulaIs(inv) == formula = [f \in {main} |-> UnwoundFormula(prog, unwind, inv)]

DriverInv ==
    /\ PhaseInv
    /\ ~solverFailed
    /\ SearchInv
    /\ BetweenRounds => ~SomeFailed /\ result \notin {"PASS", "FAIL"}
    /\ ~BetweenRounds =>
        /\ FoundInv(Property)
        /\ FailIsReal
        /\ DecidesInv
        /\ \E inv \in SUBSET State : FormulaIs(inv)

LEMMA UnwoundIsFormula ==
    ASSUME NEW P \in Program, NEW k \in Nat, NEW inv \in SUBSET State
    PROVE  /\ UnwoundFormula(P, k, inv) \in Formula
           /\ \A m \in UnwoundFormula(P, k, inv).models : m.viol \subseteq Property
<1>1. \A w : Violations(P, k, w) \subseteq Property
  BY DEF Violations
<1>2. UnwoundModels(P, k, inv) \subseteq Model
  <2>1. \A w : \A b \in BOOLEAN : [viol |-> Violations(P, k, w), inv |-> b] \in Model
    BY <1>1 DEF Model
  <2>. QED
    BY <2>1 DEF UnwoundModels
<1>3. Continues(P, k) \in BOOLEAN
  BY DEF Continues
<1>4. \A m \in UnwoundModels(P, k, inv) : m.viol \subseteq Property
  BY <1>1 DEF UnwoundModels
<1>. QED
  BY <1>2, <1>3, <1>4 DEF UnwoundFormula, Formula

LEMMA DriverFacts ==
    ASSUME PhaseInv
    PROVE  /\ prog \in Program /\ unwind \in Nat /\ MaxUnwind \in Nat
           /\ cmdline \in CommandLine /\ \A d \in Domain : Template[d] \subseteq SUBSET State
BY DriverAssumption, CommandLineAssumption DEF PhaseInv, MaxUnwind, CommandLine

LEMMA OnlyMain ==
    /\ main \in Function /\ Function = {main} /\ Trivial = {} /\ AssertsOf[main] = Property
    /\ \A p \in Property : FunctionOf(p) = main
<1>1. main \in Function /\ Function = {main} /\ Trivial = {} /\ AssertsOf[main] = Property
  BY DriverAssumption
<1>. QED
  BY <1>1, OneFunction

LEMMA OptionsOfCheckers ==
    cmdline' = cmdline =>
        /\ Checker' = Checker /\ MaxUnwind' = MaxUnwind /\ Mode' = Mode
        /\ \A k : UsesInvariants(k)' <=> UsesInvariants(k)
BY DEF Checker, MaxUnwind, Mode, UsesInvariants, Havoc, GiveUpInvariants, CompetitionMode, Isset

LEMMA UnwindingStays ==
    ASSUME UNCHANGED <<cmdline, prog, unwind>>, NEW inv
    PROVE  /\ UnwoundFormula(prog, unwind, inv)' = UnwoundFormula(prog, unwind, inv)
           /\ LoopBackValues(prog, unwind, inv)' = LoopBackValues(prog, unwind, inv)
<1>1. Mode' = Mode
  BY OptionsOfCheckers
<1>2. \A w : Violations(prog, unwind, w)' = Violations(prog, unwind, w)
  BY <1>1 DEF Violations, Asserted
<1>3. EntryWindows(prog, unwind)' = EntryWindows(prog, unwind)
  BY <1>1 DEF EntryWindows, Admitted, Assumed
<1>4. LoopBackWindows(prog, unwind, inv)' = LoopBackWindows(prog, unwind, inv)
  BY <1>1 DEF LoopBackWindows, Admitted, Assumed
<1>5. UnwoundModels(prog, unwind, inv)' = UnwoundModels(prog, unwind, inv)
  BY <1>2, <1>3, <1>4 DEF UnwoundModels
<1>6. Continues(prog, unwind)' = Continues(prog, unwind)
  BY <1>3 DEF Continues, AfterWindows
<1>7. LoopBackValues(prog, unwind, inv)' = LoopBackValues(prog, unwind, inv)
  BY <1>3, <1>4 DEF LoopBackValues, AfterWindows
<1>. QED
  BY <1>5, <1>6, <1>7 DEF UnwoundFormula

LEMMA MayNotFail == ~solverFailed /\ [CheckStep]_checkVars => ~solverFailed'
BY DriverAssumption DEF CheckStep, BeginFunction, PrepareGoals, CoverSat, CoverUnsat, CoverError,
   AcceptModel, RetryConcrete, Settle, Throw, Return, checkVars

(* The steps of the drivers are calls of check_properties, and others that *)
(* leave its variables to it.                                              *)
Calls == UnwindAll \/ Summarize \/ RefineDomain \/ Analyze

LEMMA CallsCheck ==
    ASSUME DriverInv, Calls
    PROVE  /\ \E inv \in SUBSET State : CallCheck(inv)
           /\ UNCHANGED <<cmdline, prog, unwind>> /\ ~BetweenRounds'
<1>1. \A d \in Domain : \A inv \in Invariants(prog, unwind, Template[d]) : inv \in SUBSET State
  BY DriverFacts DEF DriverInv, Invariants
<1>2. domain \in Domain /\ "zones" \in Domain
  BY DEF DriverInv, PhaseInv, Domain
<1>3. \E inv \in SUBSET State : CallCheck(inv)
  BY <1>1, <1>2 DEF Calls, UnwindAll, Summarize, RefineDomain, Analyze, SummarizeAndCheck,
                    Unconstrained
<1>4. \A inv : CallCheck(inv) => cmdline' = cmdline
  BY DEF CallCheck
<1>. QED
  BY <1>3, <1>4 DEF Calls, UnwindAll, Summarize, RefineDomain, Analyze, BetweenRounds

LEMMA OthersCheck ==
    ASSUME [CheckersNext]_vars, ~Calls
    PROVE  [CheckStep]_checkVars /\ UNCHANGED <<cmdline, prog>>
<1>1. [CheckStep]_checkVars /\ prog' = prog
  BY DEF Calls, CheckersNext, KindStep, AIStep, Checking, EndRound, SwitchToZones, Finish,
         vars, driverVars
<1>. QED
  BY <1>1, Stays

LEMMA PhaseInit == CheckersInit => PhaseInv
<1>. SUFFICES ASSUME CheckersInit PROVE PhaseInv
  OBVIOUS
<1>1. cmdline \in CommandLines /\ MaxUnwind \in Nat
  BY CommandLineAssumption DEF CheckersInit, MaxUnwind, CommandLine
<1>2. ValueDomain \in Domain
  BY DEF ValueDomain, Domain
<1>. QED
  BY <1>1, <1>2 DEF CheckersInit, KindInit, AIInit, StartWith, PhaseInv, BetweenRounds

LEMMA PhaseStep == DriverInv /\ [CheckersNext]_vars => PhaseInv'
<1>. SUFFICES ASSUME DriverInv, [CheckersNext]_vars PROVE PhaseInv'
  OBVIOUS
<1>0. cmdline' = cmdline /\ prog' = prog
  BY CallsCheck, OthersCheck
<1>1. /\ Checker' = Checker /\ MaxUnwind' = MaxUnwind
      /\ \A k : UsesInvariants(k)' <=> UsesInvariants(k)
  BY <1>0, OptionsOfCheckers
<1>2. PhaseInv /\ unwind \in Nat /\ MaxUnwind \in Nat /\ "intervals" \in Domain /\ "zones" \in Domain
  BY DriverFacts DEF DriverInv, Domain
<1>3. unwind' = unwind => (UsesInvariants(unwind)' <=> UsesInvariants(unwind))
  BY <1>1
<1>. USE DEF PhaseInv, BetweenRounds
<1>4. CASE UnwindAll /\ Checker # "ai"
  BY <1>0, <1>1, <1>2, <1>4 DEF UnwindAll
<1>5. CASE Checking
  BY <1>0, <1>1, <1>2, <1>3, <1>5 DEF Checking, driverVars
<1>6. CASE Summarize /\ Checker # "ai"
  <2>1. UsesInvariants(unwind)
    BY <1>6 DEF Summarize, WantsInvariants, MagicLimitNotReached, UsesInvariants
  <2>. QED
    BY <1>0, <1>1, <1>2, <1>3, <1>6, <2>1 DEF Summarize
<1>7. CASE RefineDomain /\ Checker # "ai"
  BY <1>0, <1>1, <1>2, <1>3, <1>7 DEF RefineDomain, WantsZones
<1>8. CASE EndRound /\ Checker # "ai"
  <2>1. domain' \in Domain
    BY <1>2, <1>8 DEF EndRound
  <2>2. pc' = "done" /\ result' = result
    BY <1>8 DEF EndRound, CheckReturned, checkVars
  <2>3. CASE result \in {"PASS", "FAIL"} \/ LastRound
    BY <1>0, <1>1, <1>2, <1>8, <2>1, <2>2, <2>3 DEF EndRound, LastRound
  <2>4. CASE ~(result \in {"PASS", "FAIL"} \/ LastRound)
    <3>1. unwind' \in 0..MaxUnwind /\ phase' = "unwind"
      BY <1>2, <1>8, <2>4 DEF EndRound, LastRound
    <3>. QED
      BY <1>0, <1>1, <1>2, <1>8, <2>1, <2>2, <3>1
  <2>. QED
    BY <2>3, <2>4
<1>9. CASE Analyze /\ Checker = "ai"
  BY <1>0, <1>1, <1>2, <1>9 DEF Analyze
<1>10. CASE SwitchToZones /\ Checker = "ai"
  BY <1>0, <1>1, <1>2, <1>10 DEF SwitchToZones, checkVars
<1>11. CASE Finish /\ Checker = "ai"
  BY <1>0, <1>1, <1>2, <1>11 DEF Finish, checkVars
<1>12. CASE UNCHANGED vars
  BY <1>0, <1>1, <1>2, <1>3, <1>12 DEF vars, driverVars, checkVars
<1>. QED
  BY <1>4, <1>5, <1>6, <1>7, <1>8, <1>9, <1>10, <1>11, <1>12 DEF CheckersNext, KindStep, AIStep

(* A call of check_properties starts from decided passes and no failure.   *)
LEMMA CallStarts ==
    ASSUME NEW Old, NEW inv \in SUBSET State, CallCheck(inv), PhaseInv, SearchInv, ~SomeFailed,
           ~solverFailed, UNCHANGED <<prog, unwind>>,
           \A p \in Property : status[p] = "pass" => p \in Old
    PROVE  /\ SearchInv' /\ FoundInv(Old)' /\ FailIsReal' /\ DecidesInv'
           /\ FormulaIs(inv)'
<1>1. /\ formula' = [f \in {main} |-> UnwoundFormula(prog, unwind, inv)]
      /\ todo' = Function /\ pc' = "next" /\ result' = "none"
      /\ cur' = {} /\ goals' = {} /\ covered' = {} /\ asked' = {}
      /\ suspect' = FALSE /\ model' = {}
      /\ UNCHANGED <<cmdline, status, solverFailed>>
  BY DEF CallCheck
<1>2. TypeOK'
  <2>1. formula' \in [Function -> Formula]
    BY <1>1, OnlyMain, DriverFacts, UnwoundIsFormula
  <2>. QED
    BY <1>1, <2>1 DEF SearchInv, TypeOK, Answer
<1>3. OwnViolations'
  <2>1. \A m \in UnwoundFormula(prog, unwind, inv).models : m.viol \subseteq Property
    BY DriverFacts, UnwoundIsFormula
  <2>. QED
    BY <1>1, <2>1, OnlyMain DEF OwnViolations
<1>4. SearchInv'
  BY <1>1, <1>2, <1>3 DEF SearchInv, CursorInv, GoalInv, ModelInv, AskedInv
<1>5. \A p \in Property : status'[p] # "fail"
  BY <1>1 DEF SomeFailed
<1>6. ProvedInv(Old)'
  BY <1>1, <1>4 DEF ProvedInv, SettledInv, PassedNow
<1>7. FoundInv(Old)'
  BY <1>1, <1>5, <1>6 DEF FoundInv, DecidedInv, FailSeen, DoneInv, NothingLost
<1>8. FailIsReal'
  BY <1>5 DEF FailIsReal
<1>9. DecidesInv'
  BY <1>1 DEF DecidesInv
<1>10. FormulaIs(inv)'
  BY <1>1, UnwindingStays DEF FormulaIs
<1>. QED
  BY <1>4, <1>7, <1>8, <1>9, <1>10

LEMMA Undecided ==
    ASSUME DoneInv, pc = "done"
    PROVE  /\ result \in {"PASS", "UNKNOWN"} <=> ~SomeFailed
           /\ result \in {"PASS", "UNKNOWN", "FAIL"}
BY DEF DoneInv, Verdict, SomeFailed

LEMMA CallsUndecided == ASSUME DriverInv, Calls PROVE ~SomeFailed
<1>1. CASE BetweenRounds
  BY <1>1 DEF DriverInv
<1>2. CASE ~BetweenRounds
  <2>1. DoneInv
    BY <1>2 DEF DriverInv, FoundInv
  <2>2. pc = "done" /\ result = "UNKNOWN"
    BY <1>2 DEF Calls, UnwindAll, Summarize, RefineDomain, Analyze, CheckReturned,
                WantsInvariants, WantsZones, BetweenRounds
  <2>. QED
    BY <2>1, <2>2, Undecided
<1>. QED
  BY <1>1, <1>2

(* A round that is not followed by a call either goes on, its formula the  *)
(* same, or ends undecided.                                                *)
LEMMA RoundEnds ==
    ASSUME DriverInv, [CheckersNext]_vars, ~Calls, BetweenRounds'
    PROVE  /\ BetweenRounds => UNCHANGED <<phase, unwind, result>>
           /\ ~BetweenRounds =>
                /\ pc = "done" /\ result = "UNKNOWN" /\ ~SomeFailed
                /\ phase' = "summarize" => unwind' = unwind
                /\ phase' = "unwind" => unwind' = unwind + 1
           /\ UNCHANGED <<status, result>>
<1>1. /\ ~BetweenRounds => pc = "done" /\ result \notin {"PASS", "FAIL"}
      /\ UNCHANGED checkVars
      /\ BetweenRounds => UNCHANGED <<phase, unwind>>
      /\ ~BetweenRounds =>
            /\ phase' = "summarize" => unwind' = unwind
            /\ phase' = "unwind" => unwind' = unwind + 1
  BY DEF DriverInv, PhaseInv, BetweenRounds, Calls, CheckersNext, KindStep, AIStep, Checking,
         EndRound, CheckReturned, SwitchToZones, TryZones, Finish, vars, driverVars
<1>2. ASSUME ~BetweenRounds PROVE result = "UNKNOWN" /\ ~SomeFailed
  <2>1. DoneInv
    BY <1>2 DEF DriverInv, FoundInv
  <2>. QED
    BY <1>1, <1>2, <2>1, Undecided
<1>. QED
  BY <1>1, <1>2 DEF checkVars

LEMMA RoundGoesOn ==
    ASSUME DriverInv, [CheckersNext]_vars, ~Calls, ~BetweenRounds'
    PROVE  ~BetweenRounds /\ UNCHANGED unwind
BY DEF DriverInv, PhaseInv, BetweenRounds, Calls, CheckersNext, KindStep, AIStep, Checking,
       EndRound, CheckReturned, SwitchToZones, TryZones, Finish, vars, driverVars

LEMMA DriverInit == CheckersInit => DriverInv
<1>. SUFFICES ASSUME CheckersInit PROVE DriverInv
  OBVIOUS
<1>1. PhaseInv /\ cmdline \in CommandLine
  BY PhaseInit, DriverFacts
<1>2. /\ BetweenRounds
      /\ formula = [f \in {main} |-> [models |-> {}, continues |-> FALSE]]
      /\ status = [p \in Property |-> "unknown"]
      /\ todo = {} /\ cur = {} /\ goals = {} /\ covered = {} /\ asked = {}
      /\ suspect = FALSE /\ model = {} /\ solverFailed = FALSE
      /\ pc = "done" /\ result = "none"
  BY DEF CheckersInit, KindInit, AIInit, StartWith, BetweenRounds
<1>3. TypeOK
  <2>1. formula \in [Function -> Formula]
    BY <1>2, OnlyMain DEF Formula
  <2>. QED
    BY <1>1, <1>2, <2>1 DEF TypeOK, Status, Answer
<1>4. SearchInv
  BY <1>2, <1>3, OnlyMain DEF SearchInv, CursorInv, OwnViolations, GoalInv, ModelInv, AskedInv, Searching
<1>. QED
  BY <1>1, <1>2, <1>4 DEF DriverInv, SomeFailed

LEMMA DriverStep == DriverInv /\ [CheckersNext]_vars => DriverInv'
<1>. SUFFICES ASSUME DriverInv, [CheckersNext]_vars PROVE DriverInv'
  OBVIOUS
<1>1. PhaseInv'
  BY PhaseStep
<1>2. CASE Calls
  <2>1. PICK inv \in SUBSET State : CallCheck(inv)
    BY <1>2, CallsCheck
  <2>2. UNCHANGED <<cmdline, prog, unwind>> /\ ~BetweenRounds' /\ ~SomeFailed
    BY <1>2, CallsCheck, CallsUndecided
  <2>3. PICK Old : Old = Property
    OBVIOUS
  <2>4. SearchInv' /\ FoundInv(Old)' /\ FailIsReal' /\ DecidesInv' /\ FormulaIs(inv)'
    BY <2>1, <2>2, <2>3, CallStarts DEF DriverInv
  <2>5. FoundInv(Property)' /\ ~solverFailed'
    BY <2>1, <2>3, <2>4 DEF CallCheck, DriverInv
  <2>. QED
    BY <1>1, <2>2, <2>4, <2>5 DEF DriverInv
<1>3. CASE ~Calls
  <2>1. [CheckStep]_checkVars /\ UNCHANGED <<cmdline, prog>>
    BY <1>3, OthersCheck
  <2>2. ~solverFailed' /\ SearchInv' /\ formula' = formula
    BY <2>1, MayNotFail, SearchInvStep, Stays DEF DriverInv
  <2>3. ASSUME BetweenRounds' PROVE ~SomeFailed' /\ result' \notin {"PASS", "FAIL"}
    <3>1. status' = status /\ ~SomeFailed
      BY <1>3, <2>3, RoundEnds DEF DriverInv
    <3>2. result' \notin {"PASS", "FAIL"}
      BY <1>3, <2>3, RoundEnds DEF DriverInv
    <3>. QED
      BY <3>1, <3>2 DEF SomeFailed
  <2>4. ASSUME ~BetweenRounds'
        PROVE  /\ FoundInv(Property)' /\ FailIsReal' /\ DecidesInv'
               /\ \E inv \in SUBSET State : FormulaIs(inv)'
    <3>1. ~BetweenRounds /\ unwind' = unwind
      BY <1>3, <2>4, RoundGoesOn
    <3>2. FoundInv(Property)' /\ FailIsReal'
      BY <2>1, <2>2, <3>1, FoundStep, FailRealStep DEF DriverInv
    <3>3. DecidesInv'
      BY <2>1, <2>2, <3>1, DecidesStep DEF DriverInv, FoundInv
    <3>4. \A inv : FormulaIs(inv) => FormulaIs(inv)'
      BY <2>1, <2>2, <3>1, UnwindingStays DEF FormulaIs
    <3>. QED
      BY <3>1, <3>2, <3>3, <3>4 DEF DriverInv
  <2>. QED
    BY <1>1, <2>2, <2>3, <2>4 DEF DriverInv
<1>. QED
  BY <1>2, <1>3

LEMMA DriverHolds == CheckersSpec => []DriverInv
BY DriverInit, DriverStep, PTL DEF CheckersSpec

(* A failure that is reported is one of the program, in every mode and     *)
(* whatever has been inferred or assumed.                                  *)
THEOREM CounterexamplesAreReal == CheckersSpec => []CounterexampleIsReal
<1>1. DriverInv => CounterexampleIsReal
  <2>. SUFFICES ASSUME DriverInv, SpuriousCheck, NEW p \in Property, status[p] = "fail"
                PROVE  \E w \in Windows(prog, unwind, prog.init) :
                            \E j \in DOMAIN w : w[j] \in prog.bad[p]
    BY DEF CounterexampleIsReal
  <2>1. ~BetweenRounds
    BY DEF DriverInv, SomeFailed
  <2>2. PICK inv \in SUBSET State : FormulaIs(inv)
    BY <2>1 DEF DriverInv
  <2>3. PICK m \in Concrete(ContextModels(main)) : p \in m.viol
    BY <2>1, OnlyMain DEF DriverInv, FailIsReal
  <2>4. m \in Concrete(UnwoundModels(prog, unwind, inv))
    BY <2>2, <2>3, OnlyMain, ContextIsOfFormula DEF FormulaIs, UnwoundFormula
  <2>5. PICK w \in EntryWindows(prog, unwind) : m.viol = Violations(prog, unwind, w)
    BY <2>4 DEF UnwoundModels, Concrete
  <2>. QED
    BY <2>3, <2>5 DEF EntryWindows, Violations
<1>. QED
  BY <1>1, DriverHolds, PTL

(* Once the bound covers all executions, the formula has no models through *)
(* an invariant, and the last round decides every assertion.               *)
THEOREM BoundedLoops == CheckersSpec => []BoundedLoopsAreDecided
<1>1. DriverInv => BoundedLoopsAreDecided
  <2>. SUFFICES ASSUME DriverInv, phase = "stop", LoopsBoundedBy(prog, MaxUnwind),
                       result \notin {"PASS", "FAIL"}
                PROVE  FALSE
    BY DEF BoundedLoopsAreDecided
  <2>1. unwind = MaxUnwind /\ pc = "done" /\ ~BetweenRounds
    BY DEF DriverInv, PhaseInv, BetweenRounds
  <2>2. FoundInv(Property) /\ DecidesInv /\ DoneInv
    BY <2>1 DEF DriverInv, FoundInv
  <2>3. result = Verdict(status) /\ todo = {} /\ cur = {}
    BY <2>1, <2>2 DEF DoneInv
  <2>4. ~SomeFailed /\ \E p \in Property : status[p] = "unknown"
    BY <2>3 DEF Verdict, SomeFailed
  <2>5. formula[main].continues
    BY <2>2, <2>3, <2>4, OnlyMain DEF DecidesInv, AllDecided
  <2>6. Continues(prog, unwind)
    BY <2>1, <2>5, OnlyMain DEF DriverInv, FormulaIs, UnwoundFormula
  <2>7. PICK w \in EntryWindows(prog, unwind) :
            DOMAIN w = 1..(unwind + 1) /\ prog.next[w[unwind + 1]] # {}
    BY <2>6 DEF Continues, AfterWindows
  <2>8. unwind \in Nat
    BY DriverFacts DEF DriverInv
  <2>9. Cardinality(DOMAIN w) = unwind + 1
    BY <2>7, <2>8, FS_Interval
  <2>. QED
    BY <2>1, <2>7, <2>9 DEF LoopsBoundedBy, EntryWindows
<1>. QED
  BY <1>1, DriverHolds, PTL

-----------------------------------------------------------------------------
(* The rounds carry a proof, as long as a round that infers an invariant   *)
(* asserts in every copy: the abstract interpreter always does, k-         *)
(* induction in the first rounds only (later ones take the states behind a *)
(* copy whose assertions are assumed for all the program can reach).       *)
InvariantsAreExhaustive ==
    \A k \in 0..MaxUnwind : UsesInvariants(k) => Exhaustive(prog, k)

NeverFirst(p) == ReachableCleanly(prog) \cap prog.bad[p] = {}

(* The loop-back values of a formula cover those of the program.           *)
Justified(inv) ==
    \/ Checker # "ai" /\ inv = State
    \/ Exhaustive(prog, unwind) /\ LoopBackValues(prog, unwind, inv) \subseteq inv

RoundInv ==
    /\ Checker # "ai" => PathsSafe(prog, unwind)
    /\ phase = "summarize" /\ result # "none" => PathsSafe(prog, unwind + 1)
    /\ BetweenRounds => PassIsNeverFirstToFail
    /\ ~BetweenRounds =>
        /\ \E Old : (\A p \in Old : NeverFirst(p)) /\ FoundInv(Old)
        /\ \E inv \in SUBSET State : FormulaIs(inv) /\ Justified(inv)

LEMMA ModelsOfMain ==
    ASSUME NEW inv, FormulaIs(inv)
    PROVE  /\ ContextModels(main) = FormulaModels(UnwoundFormula(prog, unwind, inv))
           /\ Concrete(ContextModels(main)) = Concrete(UnwoundFormula(prog, unwind, inv).models)
<1>1. formula[main] = UnwoundFormula(prog, unwind, inv)
  BY DEF FormulaIs
<1>. QED
  BY <1>1, OnlyMain, ContextIsOfFormula DEF ContextModels

LEMMA RoundProves ==
    ASSUME DriverInv, RoundInv PROVE PassIsNeverFirstToFail
<1>. SUFFICES ASSUME ~BetweenRounds, NEW p \in Property, status[p] = "pass" PROVE NeverFirst(p)
  BY DEF RoundInv, PassIsNeverFirstToFail, NeverFirst
<1>1. PICK Old : (\A q \in Old : NeverFirst(q)) /\ FoundInv(Old)
  BY DEF RoundInv
<1>2. PICK inv \in SUBSET State : FormulaIs(inv) /\ Justified(inv)
  BY DEF RoundInv
<1>3. prog \in Program /\ unwind \in Nat
  BY DriverFacts DEF DriverInv
<1>4. CASE p \in Old
  BY <1>1, <1>4
<1>5. CASE p \notin Old
  <2>1. NoModelViolates(p)
    BY <1>1, <1>5 DEF FoundInv, DecidedInv, ProvedInv, PassedNow
  <2>2. Unviolated(prog, unwind, inv, p)
    BY <1>2, <2>1, OnlyMain, ModelsOfMain DEF NoModelViolates, Unviolated
  <2>3. CASE Checker # "ai" /\ inv = State
    BY <1>3, <2>2, <2>3, InductionStep DEF RoundInv, NeverFirst
  <2>4. CASE Exhaustive(prog, unwind) /\ LoopBackValues(prog, unwind, inv) \subseteq inv
    BY <1>3, <2>2, <2>4, ExhaustiveStep, CleanlyIsReachable DEF NeverFirst
  <2>. QED
    BY <1>2, <2>3, <2>4 DEF Justified
<1>. QED
  BY <1>4, <1>5

LEMMA RoundIsSafe ==
    ASSUME DriverInv, RoundInv, ~BetweenRounds, pc = "done", result \in {"UNKNOWN", "PASS"}
    PROVE  PathsSafe(prog, unwind + 1)
<1>1. PICK Old : (\A q \in Old : NeverFirst(q)) /\ FoundInv(Old)
  BY DEF RoundInv
<1>2. PICK inv \in SUBSET State : FormulaIs(inv)
  BY DEF RoundInv
<1>3. prog \in Program /\ unwind \in Nat
  BY DriverFacts DEF DriverInv
<1>4. ~SomeFailed /\ todo = {} /\ cur = {}
  BY <1>1, Undecided DEF FoundInv, DoneInv
<1>5. Refutable(main) \subseteq Old
  BY <1>1, <1>4, OnlyMain DEF FoundInv, NothingLost
<1>6. \A p \in Property \ Old :
        \A m \in Concrete(UnwoundFormula(prog, unwind, inv).models) : p \notin m.viol
  BY <1>2, <1>5, OnlyMain, ModelsOfMain DEF Refutable
<1>7. Mode = "NORMAL" \/ PathsSafe(prog, unwind)
  BY DEF RoundInv, Mode
<1>. QED
  BY <1>1, <1>3, <1>6, <1>7, BaseStep DEF NeverFirst

LEMMA LoopBackTyped ==
    ASSUME NEW P \in Program, NEW k \in Nat, NEW inv
    PROVE  LoopBackValues(P, k, inv) \subseteq State
<1>1. ASSUME NEW w \in EntryWindows(P, k) \cup LoopBackWindows(P, k, inv), DOMAIN w = 1..(k + 1)
      PROVE  P.next[w[k + 1]] \subseteq State
  <2>1. PICK start : w \in Windows(P, k, start)
    BY DEF EntryWindows, LoopBackWindows
  <2>2. w[k + 1] \in State
    BY <1>1, <2>1 DEF Windows
  <2>. QED
    BY <2>2, ProgramTyped
<1>. QED
  BY <1>1 DEF LoopBackValues, AfterWindows

LEMMA CallsJustified ==
    ASSUME DriverInv, InvariantsAreExhaustive, Calls
    PROVE  \E inv \in SUBSET State : CallCheck(inv) /\ Justified(inv)
<1>1. /\ prog \in Program /\ unwind \in 0..MaxUnwind /\ domain \in Domain /\ "zones" \in Domain
      /\ \A d \in Domain : \A inv \in Invariants(prog, unwind, Template[d]) :
            inv \in SUBSET State /\ LoopBackValues(prog, unwind, inv) \subseteq inv
  BY DriverFacts DEF DriverInv, PhaseInv, Invariants, Domain
<1>2. UsesInvariants(unwind) \/ Checker = "ai" => Exhaustive(prog, unwind)
  BY <1>1 DEF InvariantsAreExhaustive, Exhaustive, Mode
<1>3. CASE UnwindAll
  BY <1>3 DEF UnwindAll, Unconstrained, Justified, DriverInv, PhaseInv
<1>4. CASE Summarize \/ RefineDomain
  <2>1. Exhaustive(prog, unwind)
    BY <1>2, <1>4 DEF Summarize, RefineDomain, WantsInvariants, WantsZones, MagicLimitNotReached,
                      UsesInvariants, DriverInv, PhaseInv
  <2>. QED
    BY <1>1, <1>4, <2>1 DEF Summarize, RefineDomain, SummarizeAndCheck, Justified
<1>5. CASE Analyze
  <2>1. Exhaustive(prog, unwind)
    BY <1>2, <1>5 DEF Analyze, DriverInv, PhaseInv
  <2>2. CASE Havoc
    BY <1>1, <1>5, <2>1, <2>2, LoopBackTyped DEF Analyze, Unconstrained, Justified
  <2>3. CASE ~Havoc
    BY <1>1, <1>5, <2>1, <2>3 DEF Analyze, SummarizeAndCheck, Justified
  <2>. QED
    BY <2>2, <2>3
<1>. QED
  BY <1>3, <1>4, <1>5 DEF Calls

LEMMA JustifiedStays ==
    ASSUME UNCHANGED <<cmdline, prog, unwind>>, NEW inv, Justified(inv)
    PROVE  Justified(inv)'
<1>1. Checker' = Checker /\ Mode' = Mode
  BY OptionsOfCheckers
<1>2. Exhaustive(prog, unwind)' <=> Exhaustive(prog, unwind)
  BY <1>1 DEF Exhaustive
<1>. QED
  BY <1>1, <1>2, UnwindingStays DEF Justified

LEMMA RoundStep ==
    ASSUME DriverInv, [CheckersNext]_vars, InvariantsAreExhaustive, RoundInv
    PROVE  RoundInv'
<1>0. PassIsNeverFirstToFail
  BY RoundProves
<1>1. cmdline' = cmdline /\ prog' = prog /\ Checker' = Checker
  BY CallsCheck, OthersCheck, OptionsOfCheckers
<1>2. CASE Calls
  <2>1. PICK inv \in SUBSET State : CallCheck(inv) /\ Justified(inv)
    BY <1>2, CallsJustified
  <2>2. unwind' = unwind /\ ~BetweenRounds' /\ ~SomeFailed
    BY <1>2, CallsCheck, CallsUndecided
  <2>3. PICK Old : Old = {p \in Property : NeverFirst(p)}
    OBVIOUS
  <2>4. FoundInv(Old)' /\ FormulaIs(inv)'
    BY <1>0, <1>1, <2>1, <2>2, <2>3, CallStarts DEF DriverInv, PassIsNeverFirstToFail, NeverFirst
  <2>5. \A p \in Old : NeverFirst(p)'
    BY <1>1, <2>3 DEF NeverFirst
  <2>6. Justified(inv)'
    BY <1>1, <2>1, <2>2, JustifiedStays
  <2>7. phase' # "summarize"
    BY <2>2 DEF BetweenRounds
  <2>. QED
    BY <1>1, <2>2, <2>4, <2>5, <2>6, <2>7 DEF RoundInv
<1>3. CASE ~Calls /\ ~BetweenRounds'
  <2>1. ~BetweenRounds /\ unwind' = unwind
    BY <1>3, RoundGoesOn
  <2>2. [CheckStep]_checkVars /\ ~solverFailed' /\ formula' = formula
    BY <1>3, OthersCheck, MayNotFail, Stays DEF DriverInv
  <2>3. PICK Old : (\A q \in Old : NeverFirst(q)) /\ FoundInv(Old)
    BY <2>1 DEF RoundInv
  <2>4. FoundInv(Old)' /\ \A q \in Old : NeverFirst(q)'
    BY <1>1, <2>2, <2>3, FoundStep DEF NeverFirst
  <2>5. PICK inv \in SUBSET State : FormulaIs(inv) /\ Justified(inv)
    BY <2>1 DEF RoundInv
  <2>6. FormulaIs(inv)' /\ Justified(inv)'
    BY <1>1, <2>1, <2>2, <2>5, UnwindingStays, JustifiedStays DEF FormulaIs
  <2>7. phase' # "summarize"
    BY <1>3 DEF BetweenRounds
  <2>8. (Checker # "ai" => PathsSafe(prog, unwind))'
    BY <1>1, <2>1 DEF RoundInv
  <2>. QED
    BY <1>3, <2>4, <2>6, <2>7, <2>8 DEF RoundInv
<1>4. CASE ~Calls /\ BetweenRounds'
  <2>1. status' = status /\ result' = result
    BY <1>4, RoundEnds
  <2>2. PassIsNeverFirstToFail'
    BY <1>0, <1>1, <2>1 DEF PassIsNeverFirstToFail
  <2>3. CASE BetweenRounds
    <3>1. UNCHANGED <<phase, unwind>>
      BY <1>4, <2>3, RoundEnds
    <3>. QED
      BY <1>1, <1>4, <2>1, <2>2, <3>1 DEF RoundInv
  <2>4. CASE ~BetweenRounds
    <3>1. /\ pc = "done" /\ result = "UNKNOWN"
          /\ phase' = "summarize" => unwind' = unwind
          /\ phase' = "unwind" => unwind' = unwind + 1
      BY <1>4, <2>4, RoundEnds
    <3>2. PathsSafe(prog, unwind + 1)
      BY <2>4, <3>1, RoundIsSafe
    <3>3. Checker' # "ai" => phase' = "unwind"
      BY <1>4, PhaseStep DEF PhaseInv, BetweenRounds
    <3>4. phase' = "summarize" => Checker' = "ai"
      BY <1>4, PhaseStep DEF PhaseInv, BetweenRounds
    <3>. QED
      BY <1>1, <1>4, <2>2, <3>1, <3>2, <3>3, <3>4 DEF RoundInv
  <2>. QED
    BY <2>3, <2>4
<1>. QED
  BY <1>2, <1>3, <1>4

LEMMA RoundInit == ASSUME CheckersInit PROVE RoundInv
<1>1. /\ result = "none" /\ status = [p \in Property |-> "unknown"] /\ BetweenRounds
      /\ Checker # "ai" => unwind = 0
  BY DEF CheckersInit, KindInit, AIInit, StartWith, BetweenRounds
<1>. QED
  BY <1>1 DEF RoundInv, PathsSafe, PassIsNeverFirstToFail

LEMMA RoundHolds == CheckersSpec => [](InvariantsAreExhaustive => RoundInv)
<1>1. CheckersInit => (InvariantsAreExhaustive => RoundInv)
  BY RoundInit
<1>2. DriverInv /\ [CheckersNext]_vars => (InvariantsAreExhaustive' => InvariantsAreExhaustive)
  <2>. SUFFICES ASSUME DriverInv, [CheckersNext]_vars, InvariantsAreExhaustive'
                PROVE  InvariantsAreExhaustive
    OBVIOUS
  <2>1. cmdline' = cmdline /\ prog' = prog
    BY CallsCheck, OthersCheck
  <2>2. Mode' = Mode /\ MaxUnwind' = MaxUnwind
    BY <2>1, OptionsOfCheckers
  <2>3. \A k : Exhaustive(prog, k)' <=> Exhaustive(prog, k)
    BY <2>1, <2>2 DEF Exhaustive
  <2>4. \A k : UsesInvariants(k)' <=> UsesInvariants(k)
    BY <2>1, OptionsOfCheckers
  <2>. QED
    BY <2>2, <2>3, <2>4 DEF InvariantsAreExhaustive
<1>3. /\ DriverInv /\ [CheckersNext]_vars /\ (InvariantsAreExhaustive => RoundInv)
      => (InvariantsAreExhaustive => RoundInv)'
  BY <1>2, RoundStep
<1>. QED
  BY <1>1, <1>3, DriverHolds, PTL DEF CheckersSpec

(* With such options no assertion that passed is the first to fail.        *)
THEOREM PassesAreNeverFirst ==
    CheckersSpec => [](InvariantsAreExhaustive => PassIsNeverFirstToFail)
BY RoundProves, RoundHolds, DriverHolds, PTL

(* With such options the answer PASS is the truth.                         *)
THEOREM ProofsAreSound == CheckersSpec => [](InvariantsAreExhaustive => ProofIsSound)
<1>1. DriverInv /\ PassIsNeverFirstToFail => ProofIsSound
  <2>. SUFFICES ASSUME DriverInv, PassIsNeverFirstToFail, pc = "done", result = "PASS"
                PROVE  Correct(prog)
    BY DEF ProofIsSound
  <2>1. ~BetweenRounds /\ DoneInv
    BY DEF DriverInv, FoundInv
  <2>2. \A p \in Property : status[p] = "pass"
    BY <2>1 DEF DriverInv, SearchInv, TypeOK, Status, DoneInv, Verdict
  <2>. QED
    BY <2>2, DriverFacts, NeverFirstIsCorrect DEF DriverInv, PassIsNeverFirstToFail
<1>. QED
  BY <1>1, PassesAreNeverFirst, DriverHolds, PTL

(* With such options a round that refutes nothing leaves the first k + 1   *)
(* iterations without a violation.                                         *)
THEOREM BaseCases == CheckersSpec => [](InvariantsAreExhaustive => BaseCase)
<1>1. DriverInv /\ RoundInv => BaseCase
  <2>. SUFFICES ASSUME DriverInv, RoundInv, phase # "unwind", pc = "done",
                       result \in {"UNKNOWN", "PASS"}
                PROVE  SafeUpTo(prog, unwind)
    BY DEF BaseCase
  <2>1. PathsSafe(prog, unwind + 1)
    BY RoundIsSafe DEF RoundInv, BetweenRounds
  <2>. QED
    BY <2>1, DriverFacts, PathsSafeIsSafe DEF DriverInv
<1>. QED
  BY <1>1, RoundHolds, DriverHolds, PTL
=============================================================================
