---------------------- MODULE TerminationArgument_proofs ----------------------
(***************************************************************************)
(* The termination argument, for all formulas, templates and bounds: that  *)
(* it is a proof, and that the search for it misses no ranking function of *)
(* a single loop.                                                          *)
(*                                                                         *)
(* A ranking function decreases on single iterations.  That no execution   *)
(* stays in the loop follows for a finite set of values: those with the    *)
(* least value of the most significant component are left by iterations    *)
(* on which a less significant one decreases, and so on.                   *)
(***************************************************************************)
EXTENDS TerminationArgument, StrategySolvers_proofs, InductionLemmas

-----------------------------------------------------------------------------
(* Sums.  MapThenSumSet is a recursive function over the subsets of its    *)
(* argument; that there is one follows by their cardinality.               *)

Pick(s) == CHOOSE x \in s : TRUE

Small(D, n) == {s \in SUBSET D : Cardinality(s) <= n}

SumUpTo(D, t, n, g) ==
    g = [s \in Small(D, n) |-> IF s = {} THEN 0 ELSE t[Pick(s)] + g[s \ {Pick(s)}]]

SumOver(D, t, g) ==
    g = [s \in SUBSET D |-> IF s = {} THEN 0 ELSE t[Pick(s)] + g[s \ {Pick(s)}]]

LEMMA SumUpToIs ==
    ASSUME NEW D, NEW t, NEW n, NEW g, SumUpTo(D, t, n, g), NEW s \in Small(D, n)
    PROVE  g[s] = IF s = {} THEN 0 ELSE t[Pick(s)] + g[s \ {Pick(s)}]
<1>. DEFINE R(u) == IF u = {} THEN 0 ELSE t[Pick(u)] + g[u \ {Pick(u)}]
<1>1. g = [u \in Small(D, n) |-> R(u)]
  BY DEF SumUpTo
<1>. HIDE DEF R
<1>2. g[s] = R(s)
  BY <1>1
<1>. QED
  BY <1>2 DEF R

LEMMA SmallerSet ==
    ASSUME NEW D, IsFiniteSet(D), NEW n \in Nat, NEW s \in Small(D, n + 1), s # {}
    PROVE  s \ {Pick(s)} \in Small(D, n) /\ Pick(s) \in s
<1>1. Pick(s) \in s
  BY DEF Pick
<1>2. IsFiniteSet(s) /\ Cardinality(s) <= n + 1 /\ s \in SUBSET D
  BY FS_Subset DEF Small
<1>3. Cardinality(s \ {Pick(s)}) = Cardinality(s) - 1 /\ Cardinality(s) \in Nat
  BY <1>1, <1>2, FS_RemoveElement, FS_CardinalityType
<1>. QED
  BY <1>1, <1>2, <1>3 DEF Small

LEMMA SumUpToGrows ==
    ASSUME NEW D, IsFiniteSet(D), NEW t, NEW n \in Nat, NEW g, SumUpTo(D, t, n, g)
    PROVE  \E h : SumUpTo(D, t, n + 1, h)
<1>. DEFINE h == [s \in Small(D, n + 1) |->
                    IF s \in Small(D, n) THEN g[s] ELSE t[Pick(s)] + g[s \ {Pick(s)}]]
            R(s) == IF s = {} THEN 0 ELSE t[Pick(s)] + h[s \ {Pick(s)}]
<1>1. Small(D, n) \subseteq Small(D, n + 1) /\ {} \in Small(D, n)
  <2>1. \A s \in SUBSET D : Cardinality(s) \in Nat
    BY FS_Subset, FS_CardinalityType
  <2>. QED
    BY <2>1, FS_EmptySet DEF Small
<1>2. ASSUME NEW s \in Small(D, n + 1) PROVE h[s] = R(s)
  <2>1. CASE s = {}
    BY <1>1, <2>1, SumUpToIs
  <2>2. CASE s # {}
    <3>1. s \ {Pick(s)} \in Small(D, n)
      BY <2>2, SmallerSet
    <3>2. h[s \ {Pick(s)}] = g[s \ {Pick(s)}]
      BY <1>1, <3>1
    <3>3. h[s] = t[Pick(s)] + g[s \ {Pick(s)}]
      BY <2>2, SumUpToIs
    <3>. HIDE DEF h
    <3>. QED
      BY <2>2, <3>2, <3>3
  <2>. QED
    BY <2>1, <2>2
<1>3. h = [s \in Small(D, n + 1) |-> h[s]]
  OBVIOUS
<1>. HIDE DEF h
<1>4. SumUpTo(D, t, n + 1, h)
  BY <1>2, <1>3 DEF SumUpTo
<1>. QED
  BY <1>4

LEMMA SumExists ==
    ASSUME NEW D, IsFiniteSet(D), NEW t PROVE \E g : SumOver(D, t, g)
<1>. DEFINE N == Cardinality(D)
            Defined == {n \in 0..N : \E g : SumUpTo(D, t, n, g)}
<1>0. N \in Nat
  BY FS_CardinalityType
<1>1. 0 \in Defined
  <2>. DEFINE g == [s \in Small(D, 0) |-> 0]
  <2>1. \A s \in Small(D, 0) : s = {}
    <3>. SUFFICES ASSUME NEW s \in Small(D, 0) PROVE s = {}
      OBVIOUS
    <3>1. IsFiniteSet(s) /\ Cardinality(s) \in Nat /\ Cardinality(s) <= 0
      BY FS_Subset, FS_CardinalityType DEF Small
    <3>2. Cardinality(s) = 0
      BY <3>1
    <3>. QED
      BY <3>1, <3>2, FS_EmptySet
  <2>2. SumUpTo(D, t, 0, g)
    BY <2>1 DEF SumUpTo
  <2>. QED
    BY <1>0, <2>2
<1>2. PICK n \in Defined : \A k \in Defined : k <= n
  <2>1. Defined \in SUBSET (0..N) /\ Defined # {}
    BY <1>1
  <2>. HIDE DEF Defined
  <2>. QED
    BY <1>0, <2>1, GreatestNumber
<1>3. n \in 0..N
  OBVIOUS
<1>4. PICK g : SumUpTo(D, t, n, g)
  OBVIOUS
<1>5. n = N
  <2>1. SUFFICES ASSUME n < N PROVE FALSE
    BY <1>0, <1>3
  <2>2. \E h : SumUpTo(D, t, n + 1, h)
    BY <1>3, <1>4, SumUpToGrows
  <2>3. n + 1 \in Defined
    BY <1>0, <1>3, <2>1, <2>2
  <2>4. n + 1 <= n
    <3>. HIDE DEF Defined
    <3>. QED
      BY <1>2, <2>3
  <2>. QED
    BY <1>3, <2>4
<1>6. Small(D, n) = SUBSET D
  BY <1>5, FS_Subset DEF Small
<1>. QED
  BY <1>4, <1>6 DEF SumUpTo, SumOver

IsSum(D, t, g) ==
    \A s \in SUBSET D :
        /\ s = {} => g[s] = 0
        /\ s # {} => g[s] = t[Pick(s)] + g[s \ {Pick(s)}]

LEMMA SumOverIs == ASSUME NEW D, NEW t, NEW g, SumOver(D, t, g) PROVE IsSum(D, t, g)
<1>. DEFINE R(u) == IF u = {} THEN 0 ELSE t[Pick(u)] + g[u \ {Pick(u)}]
<1>1. g = [u \in SUBSET D |-> R(u)]
  BY DEF SumOver
<1>. HIDE DEF R
<1>2. \A s \in SUBSET D : g[s] = R(s)
  BY <1>1
<1>. QED
  BY <1>2 DEF R, IsSum

LEMMA SumIs ==
    ASSUME NEW D, IsFiniteSet(D), NEW c, NEW d, DOMAIN d = D
    PROVE  \E g : IsSum(D, [x \in D |-> c[x] * d[x]], g) /\ Sum(c, d) = g[D]
<1>. DEFINE t == [x \in D |-> c[x] * d[x]]
            Is(g) == g = [s \in SUBSET D |-> IF s = {} THEN 0
                                ELSE c[Pick(s)] * d[Pick(s)] + g[s \ {Pick(s)}]]
            h == CHOOSE g : Is(g)
<1>1. Sum(c, d) = h[D]
  BY DEF Sum, Sets!MapThenSumSet, Sets!MapThenFoldSet, Pick
<1>2. ASSUME NEW g PROVE SumOver(D, t, g) <=> Is(g)
  <2>1. \A s \in SUBSET D : s # {} => t[Pick(s)] = c[Pick(s)] * d[Pick(s)]
    BY DEF Pick
  <2>2. [s \in SUBSET D |-> IF s = {} THEN 0 ELSE t[Pick(s)] + g[s \ {Pick(s)}]]
        = [s \in SUBSET D |-> IF s = {} THEN 0
                                ELSE c[Pick(s)] * d[Pick(s)] + g[s \ {Pick(s)}]]
    <3>. HIDE DEF t
    <3>. QED
      BY <2>1
  <2>. QED
    BY <2>2 DEF SumOver
<1>3. \E g : SumOver(D, t, g)
  BY SumExists
<1>. HIDE DEF t, Is
<1>4. Is(h)
  BY <1>2, <1>3
<1>5. IsSum(D, t, h)
  BY <1>2, <1>4, SumOverIs
<1>. QED
  BY <1>1, <1>5 DEF t

(* Sums are linear.                                                        *)
LEMMA SumsSubtract ==
    ASSUME NEW D, IsFiniteSet(D),
           NEW s, NEW t, NEW u,
           \A x \in D : s[x] \in Int /\ t[x] \in Int /\ u[x] = s[x] - t[x],
           NEW f, NEW g, NEW h, IsSum(D, s, f), IsSum(D, t, g), IsSum(D, u, h)
    PROVE  f[D] \in Int /\ g[D] \in Int /\ h[D] = f[D] - g[D]
<1>. DEFINE Linear(S) == f[S] \in Int /\ g[S] \in Int /\ h[S] = f[S] - g[S]
            Other == {Cardinality(S) : S \in {S \in SUBSET D : ~Linear(S)}}
<1>1. SUFFICES ASSUME Other # {} PROVE FALSE
  <2>1. D \in SUBSET D
    OBVIOUS
  <2>. QED
    BY <2>1
<1>2. \A S \in SUBSET D : IsFiniteSet(S) /\ Cardinality(S) \in Nat
  BY FS_Subset, FS_CardinalityType
<1>3. PICK n \in Other : \A k \in Other : n <= k
  <2>1. Other \in SUBSET Nat
    BY <1>2
  <2>. HIDE DEF Other
  <2>. QED
    BY <1>1, <2>1, LeastNumber
<1>4. PICK S \in SUBSET D : n = Cardinality(S) /\ ~Linear(S)
  OBVIOUS
<1>5. S # {}
  <2>1. SUFFICES ASSUME S = {} PROVE Linear(S)
    BY <1>4
  <2>2. f[S] = 0 /\ g[S] = 0 /\ h[S] = 0
    BY <2>1 DEF IsSum
  <2>. QED
    BY <2>2
<1>. DEFINE x == Pick(S)
            T == S \ {x}
<1>6. x \in S /\ T \in SUBSET D /\ Cardinality(T) = Cardinality(S) - 1
  <2>1. x \in S
    BY <1>5 DEF Pick
  <2>. QED
    BY <1>2, <2>1, FS_RemoveElement
<1>7. Linear(T)
  <2>1. SUFFICES ASSUME ~Linear(T) PROVE FALSE
    OBVIOUS
  <2>2. Cardinality(T) \in Other
    BY <1>6, <2>1
  <2>3. n <= Cardinality(T)
    <3>. HIDE DEF Other, T
    <3>. QED
      BY <1>3, <2>2
  <2>. QED
    BY <1>2, <1>4, <1>6, <2>3
<1>8. /\ f[S] = s[x] + f[T] /\ g[S] = t[x] + g[T] /\ h[S] = u[x] + h[T]
  BY <1>5 DEF IsSum
<1>9. s[x] \in Int /\ t[x] \in Int /\ u[x] = s[x] - t[x]
  BY <1>6
<1>10. Linear(S)
  <2>. HIDE DEF x, T
  <2>. QED
    BY <1>7, <1>8, <1>9
<1>. QED
  BY <1>4, <1>10

Change(D, v, w) == [x \in D |-> v[x] - w[x]]

LEMMA SumOfDifference ==
    ASSUME NEW D, IsFiniteSet(D), NEW c, NEW p, NEW q, DOMAIN p = D, DOMAIN q = D,
           \A x \in D : c[x] \in Int /\ p[x] \in Int /\ q[x] \in Int
    PROVE  /\ Sum(c, p) \in Int /\ Sum(c, q) \in Int
           /\ Sum(c, Change(D, p, q)) = Sum(c, p) - Sum(c, q)
<1>. DEFINE d == [x \in D |-> p[x] - q[x]]
            s == [x \in D |-> c[x] * p[x]]
            t == [x \in D |-> c[x] * q[x]]
            u == [x \in D |-> c[x] * d[x]]
<1>1. PICK f : IsSum(D, s, f) /\ Sum(c, p) = f[D]
  BY SumIs
<1>2. PICK g : IsSum(D, t, g) /\ Sum(c, q) = g[D]
  BY SumIs
<1>3. PICK h : IsSum(D, u, h) /\ Sum(c, d) = h[D]
  <2>1. DOMAIN d = D
    OBVIOUS
  <2>. HIDE DEF d
  <2>. QED
    BY <2>1, SumIs
<1>4. \A a, b, e \in Int : a * b \in Int /\ a * (b - e) = a * b - a * e
  OBVIOUS
<1>5. \A x \in D : s[x] \in Int /\ t[x] \in Int /\ u[x] = s[x] - t[x]
  BY <1>4
<1>. HIDE DEF s, t, u, d
<1>6. IsFiniteSet(D) /\ IsSum(D, s, f) /\ IsSum(D, t, g) /\ IsSum(D, u, h)
  BY <1>1, <1>2, <1>3
<1>7. f[D] \in Int /\ g[D] \in Int /\ h[D] = f[D] - g[D]
  BY ONLY <1>5, <1>6, SumsSubtract
<1>. QED
  BY <1>1, <1>2, <1>3, <1>7 DEF d, Change

-----------------------------------------------------------------------------
(* A ranking function is a proof: from no finite set of values V can the   *)
(* iterations on which it decreases lead back to V for ever.               *)

LEMMA DecreaseEnds ==
    ASSUME NEW D, IsFiniteSet(D), NEW size \in Nat, NEW c \in [1..size -> [D -> Int]],
           NEW V \in SUBSET [D -> Int], IsFiniteSet(V), V # {},
           \A v \in V : \E w \in V : Decreases(c, size, Change(D, v, w))
    PROVE  FALSE
<1>. DEFINE Stays(e, W) == W # {} /\ \A v \in W : \E w \in W : Decreases(c, e, Change(D, v, w))
            Lengths == {e \in 0..size : \E W \in SUBSET V : Stays(e, W)}
<1>1. PICK e \in Lengths : \A k \in Lengths : e <= k
  <2>1. Lengths \in SUBSET Nat /\ Lengths # {}
    <3>1. V \in SUBSET V /\ Stays(size, V) /\ size \in 0..size
      OBVIOUS
    <3>. QED
      BY <3>1
  <2>. HIDE DEF Lengths
  <2>. QED
    BY <2>1, LeastNumber
<1>2. PICK W \in SUBSET V : Stays(e, W)
  OBVIOUS
<1>3. e \in 1..size
  <2>1. e \in 0..size
    OBVIOUS
  <2>2. CASE e = 0
    <3>1. \A d : ~Decreases(c, 0, d)
      BY DEF Decreases
    <3>. QED
      BY <1>2, <2>2, <3>1
  <2>. QED
    BY <2>1, <2>2
<1>. DEFINE S == [v \in W |-> Sum(c[e], v)]
            M == {S[v] : v \in DOMAIN S}
<1>4. c[e] \in [D -> Int] /\ W \subseteq [D -> Int]
  BY <1>3
<1>5. \A v, w \in W :
          S[v] \in Int /\ S[w] \in Int /\ Sum(c[e], Change(D, v, w)) = S[v] - S[w]
  <2>1. ASSUME NEW v \in W, NEW w \in W
        PROVE  /\ Sum(c[e], v) \in Int /\ Sum(c[e], w) \in Int
               /\ Sum(c[e], Change(D, v, w)) = Sum(c[e], v) - Sum(c[e], w)
    <3>1. /\ IsFiniteSet(D) /\ DOMAIN v = D /\ DOMAIN w = D
          /\ \A x \in D : c[e][x] \in Int /\ v[x] \in Int /\ w[x] \in Int
      BY <1>4
    <3>. QED
      BY ONLY <3>1, SumOfDifference
  <2>. QED
    BY <2>1
<1>6. PICK least \in M : \A y \in M : least <= y
  <2>1. M \in SUBSET Int /\ M # {}
    <3>1. \A v \in W : S[v] \in Int
      <4>. HIDE DEF S
      <4>. QED
        BY <1>5
    <3>2. DOMAIN S = W /\ W # {}
      BY <1>2
    <3>. HIDE DEF S
    <3>. QED
      BY <3>1, <3>2
  <2>2. IsFiniteSet(M)
    <3>1. IsFiniteSet(W)
      BY FS_Subset
    <3>2. DOMAIN S = W /\ S = [v \in DOMAIN S |-> S[v]]
      OBVIOUS
    <3>. HIDE DEF S
    <3>. QED
      BY <3>1, <3>2, ImageIsFinite
  <2>. HIDE DEF M
  <2>. QED
    BY <2>1, <2>2, LeastInteger
<1>. DEFINE U == {v \in W : S[v] = least}
<1>7. U # {} /\ U \in SUBSET V
  OBVIOUS
<1>8. ASSUME NEW v \in U PROVE \E w \in U : Decreases(c, e - 1, Change(D, v, w))
  <2>1. PICK w \in W : Decreases(c, e, Change(D, v, w))
    BY <1>2
  <2>2. PICK k \in 1..e : /\ Sum(c[k], Change(D, v, w)) > 0
                         /\ \A j \in k + 1 .. e : Sum(c[j], Change(D, v, w)) >= 0
    BY <2>1 DEF Decreases
  <2>3. S[v] = least /\ v \in W /\ least <= S[w] /\ S[v] \in Int /\ S[w] \in Int
    <3>1. S[w] \in M
      OBVIOUS
    <3>. HIDE DEF M, S
    <3>. QED
      BY <1>5, <1>6, <3>1
  <2>4. Sum(c[e], Change(D, v, w)) = S[v] - S[w]
    <3>. HIDE DEF S
    <3>. QED
      BY <1>5, <2>3
  <2>. HIDE DEF S, M
  <2>5. k # e
    BY <2>2, <2>3, <2>4
  <2>6. e \in k + 1 .. e
    BY <1>3, <2>5
  <2>7. S[w] = least
    BY <2>2, <2>3, <2>4, <2>6
  <2>8. k \in 1..(e - 1) /\ \A j \in k + 1 .. e - 1 : j \in k + 1 .. e
    BY <1>3, <2>5
  <2>9. Decreases(c, e - 1, Change(D, v, w))
    BY <2>2, <2>8 DEF Decreases
  <2>. QED
    BY <2>7, <2>9
<1>9. Stays(e - 1, U)
  <2>. HIDE DEF U
  <2>. QED
    BY <1>7, <1>8
<1>10. e - 1 \in Lengths
  <2>. HIDE DEF U, Stays
  <2>. QED
    BY <1>3, <1>7, <1>9
<1>11. e <= e - 1
  <2>. HIDE DEF Lengths
  <2>. QED
    BY <1>1, <1>10
<1>. QED
  BY <1>3, <1>11

-----------------------------------------------------------------------------
(* The two searches.  The second one begins when the first one has ended,  *)
(* and sees the invariant that it ended with.                              *)

RowOK(r, X) ==
    /\ r.is \in {"false", "function", "true"} /\ r.size \in 1..MaxElements
    /\ r.is = "function" => r.c \in [1..r.size -> [X -> Int]]

RankTypeOK ==
    /\ rank = [l \in Templ |-> rank[l]]
    /\ level \in 0..MaxRefinement /\ iterations \in Nat
    /\ \A l \in Templ : RowOK(rank[l], variables[l])

Ranked == NotRanked = {} \/ \E l \in Templ : rank[l].is = "true"

ArgumentInv ==
    /\ SolverInv
    /\ ssa \in Systems /\ variables = Loops(ssa)
    /\ RankTypeOK
    /\ ~done => RankInit
    /\ answered => Ranked

LEMMA ArgumentInvInit == ArgumentInit => ArgumentInv
<1>. SUFFICES ASSUME ArgumentInit PROVE ArgumentInv
  OBVIOUS
<1>1. SolverInv /\ ssa \in Systems /\ variables = Loops(ssa) /\ RankInit /\ ~answered
  BY SolverInvInit DEF ArgumentInit, SolverInit, SearchInit, Init, RankInit
<1>2. RankTypeOK
  BY <1>1, RankingAssumption DEF RankTypeOK, RowOK, RankInit, False, MaxRefinement
<1>. QED
  BY <1>1, <1>2 DEF ArgumentInv

LEMMA SummaryStep ==
    ASSUME ArgumentInv, [DoSummary]_argumentVars
    PROVE  /\ ArgumentInv' /\ ssa' = ssa /\ UNCHANGED rankVars
           /\ done => UNCHANGED <<inv, done>>
<1>1. [SolverNext]_solverVars /\ UNCHANGED rankVars
  BY DEF DoSummary, argumentVars
<1>2. SolverInv' /\ [Next]_iterationVars
  BY <1>1, SolverInvStep, SolverStep DEF ArgumentInv
<1>3. ssa' = ssa /\ (done => UNCHANGED <<inv, done>>)
  BY <1>2 DEF Next, Improve, Finish, iterationVars
<1>4. UNCHANGED <<variables, rank, inner, level, iterations, answered>>
  BY <1>1 DEF rankVars
<1>5. RankTypeOK' /\ (~done' => RankInit')
  <2>1. Templ' = Templ
    BY <1>4 DEF Templ
  <2>2. RankTypeOK'
    BY <1>4, <2>1 DEF ArgumentInv, RankTypeOK
  <2>3. ~done' => ~done
    BY <1>2 DEF Next, Improve, Finish, iterationVars
  <2>. QED
    BY <1>4, <2>1, <2>2, <2>3 DEF ArgumentInv, RankInit
<1>6. answered' => Ranked'
  <2>1. SUFFICES ASSUME answered PROVE Ranked'
    BY <1>4
  <2>2. done
    BY <2>1 DEF ArgumentInv, RankInit
  <2>. QED
    BY <1>3, <1>4, <2>1, <2>2
       DEF ArgumentInv, Ranked, NotRanked, Templ, Admitted, Pre, NotDecreasing, Difference
<1>. QED
  BY <1>1, <1>2, <1>3, <1>4, <1>5, <1>6 DEF ArgumentInv

(* What a step of the second search makes of the row of its loop.          *)
LEMMA RowUpdated ==
    ASSUME RankTypeOK, variables' = variables, NEW l \in Templ, NEW r, RowOK(r, variables[l]),
           rank' = [rank EXCEPT ![l] = r], level' \in 0..MaxRefinement, iterations' \in Nat
    PROVE  RankTypeOK' /\ rank'[l] = r
<1>1. Templ' = Templ /\ DOMAIN rank = Templ /\ rank = [k \in Templ |-> rank[k]]
  BY DEF Templ, RankTypeOK
<1>2. rank' = [k \in Templ |-> IF k = l THEN r ELSE rank[k]]
  BY <1>1
<1>3. rank' = [k \in Templ |-> rank'[k]] /\ rank'[l] = r
  BY <1>2
<1>4. ASSUME NEW k \in Templ PROVE RowOK(rank'[k], variables[k])
  BY <1>2 DEF RankTypeOK
<1>. QED
  BY <1>1, <1>3, <1>4 DEF RankTypeOK

LEMMA EditedRow ==
    ASSUME ArgumentInv, variables' = variables, NEW i \in NotRanked, EditRow(i), ~answered
    PROVE  /\ RankTypeOK'
           /\ answered' => rank'[i.loop].is = "true"
<1>. DEFINE l == i.loop
            C == inner \cup {Constraint(i)}
            M == Answer(C, l)
<1>0. RankTypeOK /\ iterations \in Nat /\ level \in 0..MaxRefinement
  BY DEF ArgumentInv, RankTypeOK
<1>1. l \in Templ /\ DOMAIN rank = Templ /\ rank[l].size \in 1..MaxElements
  BY <1>0 DEF NotRanked, RankTypeOK, RowOK
<1>2. CASE NewCandidate(l, M)
  <2>1. PICK c \in M : rank' = [rank EXCEPT ![l] = Function(c, @.size)]
    BY <1>2 DEF NewCandidate
  <2>2. c \in Coefficients(l, rank[l].size, CoeffBound[level])
    BY <2>1 DEF Answer, InnerModels, Solutions
  <2>3. c \in [1..rank[l].size -> [variables[l] -> Int]]
    <3>1. CoeffBound[level] \in Nat
      BY <1>0, RankingAssumption
    <3>2. -CoeffBound[level] .. CoeffBound[level] \subseteq Int
      BY <3>1
    <3>. QED
      BY <2>2, <3>2 DEF Coefficients
  <2>4. RowOK(Function(c, rank[l].size), variables[l])
    BY <1>1, <2>3 DEF RowOK, Function
  <2>5. rank' = [rank EXCEPT ![l] = Function(c, rank[l].size)]
    BY <1>1, <2>1
  <2>6. iterations' \in Nat /\ level' \in 0..MaxRefinement /\ ~answered'
    BY <1>0, <1>2 DEF NewCandidate
  <2>. QED
    BY <1>0, <1>1, <2>4, <2>5, <2>6, RowUpdated
<1>3. CASE WidenBounds
  <2>1. rank' = rank /\ iterations' \in Nat /\ level' \in 0..MaxRefinement /\ ~answered'
    BY <1>0, <1>3 DEF WidenBounds, MaxRefinement
  <2>2. Templ' = Templ
    BY DEF Templ
  <2>. QED
    BY <1>0, <2>1, <2>2 DEF RankTypeOK
<1>4. CASE AddElement(l)
  <2>1. RowOK(Extended(rank[l]), variables[l])
    BY <1>1, <1>4, RankingAssumption DEF AddElement, RowOK, Extended, False
  <2>2. rank' = [rank EXCEPT ![l] = Extended(rank[l])]
    BY <1>1, <1>4 DEF AddElement
  <2>3. iterations' \in Nat /\ level' \in 0..MaxRefinement /\ ~answered'
    BY <1>4 DEF AddElement, MaxRefinement
  <2>. QED
    BY <1>0, <1>1, <2>1, <2>2, <2>3, RowUpdated
<1>5. CASE GiveUp(l)
  <2>1. RowOK(True, variables[l]) /\ True.is = "true"
    BY RankingAssumption DEF RowOK, True
  <2>2. rank' = [rank EXCEPT ![l] = True]
    BY <1>5 DEF GiveUp
  <2>3. iterations' \in Nat /\ level' \in 0..MaxRefinement
    BY <1>0, <1>5 DEF GiveUp, MaxRefinement
  <2>4. RankTypeOK' /\ rank'[l] = True
    BY <1>0, <1>1, <2>1, <2>2, <2>3, RowUpdated
  <2>. QED
    BY <2>1, <2>4
<1>. QED
  BY <1>2, <1>3, <1>4, <1>5 DEF EditRow

LEMMA RankingStep ==
    ASSUME ArgumentInv, IterateRanking PROVE ArgumentInv'
<1>1. done /\ ~answered /\ UNCHANGED <<solverVars, variables>>
  BY DEF IterateRanking
<1>2. UNCHANGED <<ssa, inv, done>>
  BY <1>1 DEF solverVars, searchVars, iterationVars
<1>3. SolverInv'
  BY <1>1, SolverInvStep DEF ArgumentInv
<1>4. CASE NotRanked = {} /\ RankingFound
  <2>1. RankTypeOK'
    <3>1. Templ' = Templ /\ UNCHANGED <<variables, rank, iterations>> /\ level' \in 0..MaxRefinement
      BY <1>1, <1>4 DEF RankingFound, Templ, MaxRefinement
    <3>. QED
      BY <3>1 DEF ArgumentInv, RankTypeOK
  <2>2. Ranked'
    BY <1>1, <1>2, <1>4
       DEF RankingFound, Ranked, NotRanked, Templ, Admitted, Pre, NotDecreasing, Difference
  <2>. QED
    BY <1>1, <1>2, <1>3, <2>1, <2>2 DEF ArgumentInv
<1>5. CASE \E i \in NotRanked : EditRow(i)
  <2>1. PICK i \in NotRanked : EditRow(i)
    BY <1>5
  <2>2. RankTypeOK' /\ (answered' => rank'[i.loop].is = "true")
    BY <1>1, <2>1, EditedRow
  <2>3. answered' => Ranked'
    BY <1>1, <2>1, <2>2 DEF Ranked, NotRanked, Templ
  <2>. QED
    BY <1>1, <1>2, <1>3, <2>2, <2>3 DEF ArgumentInv
<1>. QED
  BY <1>4, <1>5 DEF IterateRanking

LEMMA ArgumentInvStep == ArgumentInv /\ [ArgumentNext]_argumentVars => ArgumentInv'
BY SummaryStep, RankingStep DEF ArgumentNext

LEMMA ArgumentSteps == ArgumentSpec => []ArgumentInv
BY ArgumentInvInit, ArgumentInvStep, PTL DEF ArgumentSpec

-----------------------------------------------------------------------------
(* The argument is a proof.                                                *)

(* The models of executions are among those that the invariant admits.     *)
LEMMA KnownIsAdmitted ==
    ASSUME ArgumentInv, done, NEW k \in Iterations(ssa), Known(ssa, k.model)
    PROVE  Admitted(k)
<1>1. SolverInv /\ IterationInv /\ ssa \in Systems
  BY DEF ArgumentInv, SolverInv, SearchInv
<1>2. \A rv \in Taken : rv[2] <= inv[rv[1]]
  BY <1>1, InductiveCovers DEF IterationInv, InputsFree
<1>3. k.model \in SSAModel
  BY <1>1, LoopAssumption, TemplateAssumption
<1>4. ASSUME NEW r \in k.model.on PROVE k.model.at[r] <= inv[r]
  <2>1. CASE r \in InRow
    <3>1. k.model.at[r] \in Value /\ inv[r] = Inf
      BY <1>1, <1>3, <2>1 DEF SSAModel, IterationInv, InputsFree
    <3>. QED
      BY <3>1, TemplateAssumption DEF Value, Inf
  <2>2. CASE <<r, k.model.at[r]>> \in TakenIn(ssa)
    BY <1>2, <2>2 DEF Taken
  <2>. QED
    BY <2>1, <2>2 DEF Known
<1>. QED
  BY <1>4 DEF Admitted, Pre

LEMMA ContinuedIsAdmitted ==
    ASSUME ArgumentInv, done, NEW e \in Iterations(ssa), Admitted(e),
           NEW k \in Iterations(ssa), Continues(ssa, k.model, e.model)
    PROVE  Admitted(k)
<1>1. SolverInv /\ IterationInv /\ ssa \in Systems /\ Inductive(inv)
  BY DEF ArgumentInv, SolverInv, SearchInv, IterationInv
<1>2. \A rv \in Taken : rv[2] <= inv[rv[1]]
  BY <1>1, InductiveCovers DEF IterationInv, InputsFree
<1>3. k.model \in SSAModel /\ e.model \in ssa /\ e.model \in SSAModel
  BY <1>1, LoopAssumption, TemplateAssumption
<1>4. NotPost(inv, e.model) = {}
  BY <1>1, <1>3 DEF Inductive, Improving, Admitted
<1>5. ASSUME NEW r \in k.model.on PROVE k.model.at[r] <= inv[r]
  <2>1. CASE r \in InRow
    <3>1. k.model.at[r] \in Value /\ inv[r] = Inf
      BY <1>1, <1>3, <2>1 DEF SSAModel, IterationInv, InputsFree
    <3>. QED
      BY <3>1, TemplateAssumption DEF Value, Inf
  <2>2. CASE <<r, k.model.at[r]>> \in TakenIn(ssa)
    BY <1>2, <2>2 DEF Taken
  <2>3. CASE r \in e.model.off /\ k.model.at[r] = e.model.to[r]
    <3>1. ~(e.model.to[r] > inv[r]) /\ r \in Row
      BY <1>3, <1>4, <2>3 DEF NotPost, SSAModel
    <3>2. e.model.to[r] \in Int /\ inv[r] \in Int
      BY <1>1, <1>3, <3>1, TemplateAssumption
         DEF SSAModel, Value, RowValue, NegInf, Inf, IterationInv, IterationTypeOK
    <3>. QED
      BY <2>3, <3>1, <3>2
  <2>. QED
    BY <2>1, <2>2, <2>3 DEF Continues
<1>. QED
  BY <1>5 DEF Admitted, Pre

(* So every iteration from values at the head of the loop does what an     *)
(* admitted one does.                                                      *)
LEMMA StepsAreAdmitted ==
    ASSUME ArgumentInv, done, NEW l, NEW v \in AtHead(l), NEW j \in Of(l), j.pre = v
    PROVE  \E k \in Iterations(ssa) : Admitted(k) /\ SameStep(k, j)
<1>. DEFINE Twin(i) == \E k \in Iterations(ssa) : Admitted(k) /\ SameStep(k, i)
            P == {w \in HeadValues(l) : \A i \in Of(l) : i.pre = w => Twin(i)}
<1>0. ssa \in Systems /\ \A i \in Of(l) : i \in Iterations(ssa) /\ i.loop = l
  BY DEF ArgumentInv, Of
<1>1. ASSUME NEW i \in Of(l), i.entered PROVE i.pre \in P
  <2>1. i.pre \in HeadValues(l)
    BY DEF HeadValues
  <2>2. ASSUME NEW m \in Of(l), m.pre = i.pre PROVE Twin(m)
    <3>1. PICK k \in Iterations(ssa) : k.entered /\ SameStep(k, m)
      BY <1>0, <1>1, <2>2, LoopAssumption
    <3>2. Known(ssa, k.model)
      BY <1>0, <3>1, LoopAssumption
    <3>. QED
      BY <3>1, <3>2, KnownIsAdmitted
  <2>. QED
    BY <2>1, <2>2
<1>2. ASSUME NEW i \in Of(l), i.pre \in P PROVE i.post \in P
  <2>1. i.post \in HeadValues(l)
    BY DEF HeadValues
  <2>2. PICK e \in Iterations(ssa) : Admitted(e) /\ SameStep(e, i)
    BY <1>2
  <2>3. ASSUME NEW m \in Of(l), m.pre = i.post PROVE Twin(m)
    <3>1. e.loop = m.loop /\ e.post = m.pre
      BY <1>0, <2>2, <2>3 DEF SameStep
    <3>2. PICK k \in Iterations(ssa) : Continues(ssa, k.model, e.model) /\ SameStep(k, m)
      BY <1>0, <3>1, LoopAssumption
    <3>. QED
      BY <2>2, <3>2, ContinuedIsAdmitted
  <2>. QED
    BY <2>1, <2>3
<1>3. P \in SUBSET HeadValues(l)
  OBVIOUS
<1>4. v \in P
  <2>. HIDE DEF P
  <2>1. ClosedAtHead(l, P)
    BY <1>1, <1>2 DEF ClosedAtHead
  <2>. QED
    BY <1>3, <2>1 DEF AtHead
<1>. QED
  BY <1>4

(* There are finitely many of these values, vectors of integers.           *)
LEMMA HeadValuesAreFinite ==
    ASSUME ArgumentInv, NEW l \in DOMAIN variables
    PROVE  /\ IsFiniteSet(AtHead(l)) /\ AtHead(l) \subseteq [variables[l] -> Int]
           /\ IsFiniteSet(variables[l])
<1>. DEFINE pre == [i \in Of(l) |-> i.pre]
            post == [i \in Of(l) |-> i.post]
<1>1. ssa \in Systems /\ variables = Loops(ssa)
  BY DEF ArgumentInv
<1>2. IsFiniteSet(Of(l))
  <2>1. IsFiniteSet(Iterations(ssa)) /\ Of(l) \in SUBSET Iterations(ssa)
    BY <1>1, LoopAssumption DEF Of
  <2>. QED
    BY <2>1, FS_Subset
<1>3. IsFiniteSet({pre[i] : i \in DOMAIN pre})
  <2>1. DOMAIN pre = Of(l) /\ pre = [i \in DOMAIN pre |-> pre[i]]
    OBVIOUS
  <2>. HIDE DEF pre
  <2>. QED
    BY <1>2, <2>1, ImageIsFinite
<1>4. IsFiniteSet({post[i] : i \in DOMAIN post})
  <2>1. DOMAIN post = Of(l) /\ post = [i \in DOMAIN post |-> post[i]]
    OBVIOUS
  <2>. HIDE DEF post
  <2>. QED
    BY <1>2, <2>1, ImageIsFinite
<1>5. HeadValues(l) = {pre[i] : i \in DOMAIN pre} \cup {post[i] : i \in DOMAIN post}
  BY DEF HeadValues
<1>6. IsFiniteSet(HeadValues(l))
  <2>. HIDE DEF pre, post
  <2>. QED
    BY <1>3, <1>4, <1>5, FS_Union
<1>7. AtHead(l) \in SUBSET HeadValues(l)
  BY DEF AtHead
<1>8. HeadValues(l) \subseteq [variables[l] -> Int]
  <2>1. Value \subseteq Int
    BY TemplateAssumption DEF Value
  <2>2. \A i \in Of(l) : i.pre \in [variables[l] -> Value] /\ i.post \in [variables[l] -> Value]
    BY <1>1, LoopAssumption DEF Of
  <2>. QED
    BY <2>1, <2>2 DEF HeadValues
<1>9. IsFiniteSet(variables[l])
  <2>1. variables[l] \in SUBSET Row
    BY <1>1, LoopAssumption
  <2>2. IsFiniteSet(Row)
    BY TemplateAssumption, FS_Interval DEF Row
  <2>. QED
    BY <2>1, <2>2, FS_Subset
<1>. QED
  BY <1>6, <1>7, <1>8, <1>9, FS_Subset

(* When the summarizer takes the argument as a proof, no execution stays   *)
(* in a loop for ever: in a function whose loops all have a numeric        *)
(* variable (a loop without one has no row, and is forgotten).             *)
THEOREM ArgumentsAreProofs ==
    ArgumentSpec => [](Templ = DOMAIN variables => ArgumentIsProof)
<1>1. ASSUME ArgumentInv, Templ = DOMAIN variables, answered, ArgumentVerdict = "YES",
             NEW l \in DOMAIN variables, Endless(l)
      PROVE  FALSE
  <2>1. /\ done /\ l \in Templ /\ RowOK(rank[l], variables[l])
        /\ NotRanked = {} /\ rank[l].is # "true"
    BY <1>1 DEF ArgumentInv, RankInit, Ranked, RankTypeOK, ArgumentVerdict
  <2>2. PICK V \in (SUBSET AtHead(l)) \ {{}} :
               \A v \in V : \E i \in Of(l) : i.pre = v /\ i.post \in V
    BY <1>1 DEF Endless
  <2>3. ASSUME NEW v \in V
        PROVE  \E w \in V : /\ rank[l].is = "function"
                            /\ Decreases(rank[l].c, rank[l].size, Change(variables[l], v, w))
    <3>1. PICK i \in Of(l) : i.pre = v /\ i.post \in V
      BY <2>2
    <3>2. PICK k \in Iterations(ssa) : Admitted(k) /\ SameStep(k, i)
      BY <1>1, <2>1, <2>2, <3>1, StepsAreAdmitted
    <3>3. k.loop = l /\ k.pre = v /\ k.post = i.post
      BY <3>1, <3>2 DEF SameStep, Of
    <3>4. ~NotDecreasing(k)
      BY <2>1, <3>2, <3>3 DEF NotRanked
    <3>5. rank[l].is = "function"
      BY <2>1, <3>3, <3>4 DEF NotDecreasing, RowOK
    <3>6. Decreases(rank[l].c, rank[l].size, Difference(k))
      BY <3>3, <3>4, <3>5 DEF NotDecreasing
    <3>7. Difference(k) = Change(variables[l], v, i.post)
      BY <3>3 DEF Difference, Change
    <3>. QED
      BY <3>1, <3>5, <3>6, <3>7
  <2>4. /\ V \in SUBSET [variables[l] -> Int] /\ IsFiniteSet(V) /\ V # {}
        /\ IsFiniteSet(variables[l])
    BY <1>1, <2>2, HeadValuesAreFinite, FS_Subset
  <2>5. rank[l].size \in Nat /\ rank[l].c \in [1..rank[l].size -> [variables[l] -> Int]]
    BY <2>1, <2>3, <2>4, RankingAssumption DEF RowOK
  <2>6. \A v \in V : \E w \in V :
            Decreases(rank[l].c, rank[l].size, Change(variables[l], v, w))
    BY <2>3
  <2>. QED
    BY ONLY <2>4, <2>5, <2>6, DecreaseEnds
<1>2. ArgumentInv => (Templ = DOMAIN variables => ArgumentIsProof)
  BY <1>1 DEF ArgumentIsProof
<1>. QED
  BY <1>2, ArgumentSteps, PTL

-----------------------------------------------------------------------------
(* The search for a single loop misses no ranking function.  Each answer   *)
(* of the inner solver is refuted by an iteration it has not been told of; *)
(* a question it is asked again, with wider bounds, is not one more        *)
(* answer.  So there are never more answers than constraints, and there is *)
(* one left as long as the constraints are not those of all iterations.    *)

Told(l) == {[loop |-> l, size |-> rank[l].size, diff |-> d] : d \in Differences}

Satisfies(l, C) ==
    rank[l].is = "function" /\ \A k \in C : Decreases(rank[l].c, k.size, k.diff)

FoundInv ==
    \A l \in Templ : DOMAIN variables = {l} /\ Cardinality(Differences) <= MaxIterations =>
        /\ rank[l].is # "true" =>
            /\ inner \subseteq Told(l)
            /\ iterations <= Cardinality(inner)
            /\ inner = {} \/ Satisfies(l, inner) \/ iterations < Cardinality(inner)
        /\ Rankable(l) => rank[l].is # "true"

LEMMA DifferencesAreFinite ==
    ASSUME ArgumentInv PROVE IsFiniteSet(Differences) /\ Cardinality(Differences) \in Nat
<1>. DEFINE I == {i \in Iterations(ssa) : i.loop \in Templ /\ Admitted(i)}
            f == [i \in I |-> Difference(i)]
<1>1. IsFiniteSet(I)
  <2>1. IsFiniteSet(Iterations(ssa)) /\ I \in SUBSET Iterations(ssa)
    BY LoopAssumption DEF ArgumentInv
  <2>. QED
    BY <2>1, FS_Subset
<1>2. Differences = {f[i] : i \in DOMAIN f}
  BY DEF Differences
<1>3. DOMAIN f = I /\ f = [i \in DOMAIN f |-> f[i]]
  OBVIOUS
<1>. HIDE DEF f, I
<1>. QED
  BY <1>1, <1>2, <1>3, ImageIsFinite, FS_CardinalityType

LEMMA ToldAreFew ==
    ASSUME ArgumentInv, NEW l, NEW C \in SUBSET Told(l)
    PROVE  /\ IsFiniteSet(C) /\ Cardinality(C) \in Nat
           /\ Cardinality(C) <= Cardinality(Differences)
<1>. DEFINE f == [d \in Differences |-> [loop |-> l, size |-> rank[l].size, diff |-> d]]
<1>1. IsFiniteSet(Differences) /\ Cardinality(Differences) \in Nat
  BY DifferencesAreFinite
<1>2. Told(l) = {f[d] : d \in DOMAIN f}
  BY DEF Told
<1>3. DOMAIN f = Differences /\ f = [d \in DOMAIN f |-> f[d]]
  OBVIOUS
<1>. HIDE DEF f
<1>4. IsFiniteSet(Told(l)) /\ Cardinality(Told(l)) <= Cardinality(Differences)
  BY <1>1, <1>2, <1>3, ImageIsFinite
<1>5. /\ IsFiniteSet(C) /\ Cardinality(C) <= Cardinality(Told(l))
  BY <1>4, FS_Subset
<1>. QED
  BY <1>1, <1>4, <1>5, FS_CardinalityType

LEMMA FoundInvInit == ArgumentInit => FoundInv
<1>. SUFFICES ASSUME ArgumentInit, NEW l \in Templ PROVE
        /\ rank[l].is # "true" /\ inner = {} /\ iterations <= Cardinality(inner)
  BY DEF FoundInv
<1>. QED
  BY FS_EmptySet DEF ArgumentInit, RankInit, False

LEMMA SummaryStepFinds ==
    ASSUME ArgumentInv, FoundInv, [DoSummary]_argumentVars PROVE FoundInv'
<1>1. /\ ssa' = ssa /\ UNCHANGED <<variables, rank, inner, level, iterations, answered>>
      /\ done => UNCHANGED <<inv, done>>
  BY SummaryStep DEF rankVars
<1>2. CASE done
  <2>1. Templ' = Templ /\ Differences' = Differences
    BY <1>1, <1>2 DEF Templ, Differences, Admitted, Pre, Difference
  <2>2. \A l : Told(l)' = Told(l) /\ Satisfies(l, inner)' = Satisfies(l, inner)
               /\ Rankable(l)' = Rankable(l)
    BY <1>1, <2>1 DEF Told, Satisfies, Rankable, Coefficients
  <2>. QED
    BY <1>1, <2>1, <2>2 DEF FoundInv
<1>3. CASE ~done
  <2>1. Templ' = Templ /\ RankInit
    BY <1>1, <1>3 DEF Templ, ArgumentInv
  <2>2. \A l \in Templ' : rank'[l].is # "true" /\ inner' = {} /\ iterations' <= Cardinality(inner')
    BY <1>1, <2>1, FS_EmptySet DEF RankInit, False
  <2>. QED
    BY <2>2 DEF FoundInv
<1>. QED
  BY <1>2, <1>3

(* The inner solver has an answer left when it is asked.                   *)
LEMMA AnswersAreLeft ==
    ASSUME ArgumentInv, FoundInv, done, NEW i \in NotRanked, NEW l, l = i.loop,
           DOMAIN variables = {l}, Cardinality(Differences) <= MaxIterations
    PROVE  /\ inner \cup {Constraint(i)} \subseteq Told(l)
           /\ IsFiniteSet(inner \cup {Constraint(i)})
           /\ iterations < Cardinality(inner \cup {Constraint(i)})
           /\ iterations < MaxIterations
           /\ Cardinality(inner \cup {Constraint(i)}) \in Nat
<1>. DEFINE k == Constraint(i)
            C == inner \cup {k}
<1>1. l \in Templ /\ rank[l].is # "true" /\ i \in Iterations(ssa) /\ Admitted(i)
  BY DEF NotRanked, NotDecreasing
<1>2. /\ inner \subseteq Told(l) /\ iterations <= Cardinality(inner)
      /\ inner = {} \/ Satisfies(l, inner) \/ iterations < Cardinality(inner)
  BY <1>1 DEF FoundInv
<1>3. k \in Told(l)
  BY <1>1 DEF Told, Constraint, Differences
<1>4. /\ IsFiniteSet(inner) /\ Cardinality(inner) \in Nat
      /\ IsFiniteSet(C) /\ Cardinality(C) \in Nat
      /\ Cardinality(C) <= Cardinality(Differences)
  BY <1>2, <1>3, ToldAreFew
<1>5. iterations \in Nat /\ MaxIterations \in Nat /\ Cardinality(Differences) \in Nat
  BY RankingAssumption, DifferencesAreFinite DEF ArgumentInv, RankTypeOK
<1>6. Cardinality(C) = IF k \in inner THEN Cardinality(inner) ELSE Cardinality(inner) + 1
  <2>. HIDE DEF k
  <2>. QED
    BY <1>4, FS_AddElement
<1>7. Satisfies(l, inner) => k \notin inner
  <2>1. SUFFICES ASSUME Satisfies(l, inner), k \in inner PROVE FALSE
    OBVIOUS
  <2>2. Decreases(rank[l].c, rank[l].size, Difference(i)) /\ rank[l].is = "function"
    BY <2>1 DEF Satisfies, Constraint
  <2>. QED
    BY <2>2 DEF NotRanked, NotDecreasing
<1>8. iterations < Cardinality(C)
  <2>. HIDE DEF k, C
  <2>1. CASE iterations < Cardinality(inner)
    BY <1>4, <1>5, <1>6, <2>1
  <2>2. CASE k \notin inner
    BY <1>2, <1>4, <1>5, <1>6, <2>2
  <2>. QED
    BY <1>2, <1>7, <2>1, <2>2
<1>. QED
  BY <1>2, <1>3, <1>4, <1>5, <1>8

(* And when it has none, no coefficients decrease on the iterations it was *)
(* told of.                                                                *)
LEMMA AnswersOfInner ==
    ASSUME NEW l, NEW C \in SUBSET Told(l), iterations < MaxIterations
    PROVE  Answer(C, l) = Solutions(C, l, CoeffBound[level])
BY DEF Answer, InnerModels, Told

LEMMA EditedRowFinds ==
    ASSUME ArgumentInv, FoundInv, done, ~answered, variables' = variables,
           ssa' = ssa, inv' = inv, NEW i \in NotRanked, EditRow(i), NEW l, l = i.loop,
           DOMAIN variables = {l}, Cardinality(Differences) <= MaxIterations
    PROVE  /\ rank'[l].is # "true" =>
                /\ inner' \subseteq Told(l)'
                /\ iterations' <= Cardinality(inner')
                /\ inner' = {} \/ Satisfies(l, inner)' \/ iterations' < Cardinality(inner')
           /\ Rankable(l) => rank'[l].is # "true"
<1>. DEFINE C == inner \cup {Constraint(i)}
<1>1. /\ C \in SUBSET Told(l) /\ iterations < Cardinality(C)
      /\ iterations < MaxIterations /\ Cardinality(C) \in Nat
  BY AnswersAreLeft
<1>2. /\ iterations \in Nat /\ l \in Templ /\ DOMAIN rank = Templ
      /\ Differences' = Differences
  BY DEF ArgumentInv, RankTypeOK, NotRanked, Differences, Templ, Admitted, Pre, Difference
<1>3. Answer(C, l) = Solutions(C, l, CoeffBound[level])
  BY <1>1, AnswersOfInner
<1>4. /\ \/ Answer(C, l) # {} /\ NewCandidate(l, Answer(C, l)) /\ inner' = C
         \/ Answer(C, l) = {} /\ WidenBounds /\ inner' = C
         \/ Answer(C, l) = {} /\ AddElement(l) /\ inner' = {}
         \/ Answer(C, l) = {} /\ GiveUp(l) /\ inner' = C
  BY DEF EditRow, NextInner
<1>. HIDE DEF C
<1>5. CASE NewCandidate(l, Answer(C, l)) /\ inner' = C
  <2>1. PICK c \in Solutions(C, l, CoeffBound[level]) :
               rank' = [rank EXCEPT ![l] = Function(c, @.size)]
    BY <1>3, <1>5 DEF NewCandidate
  <2>2. rank'[l].is = "function" /\ rank'[l].size = rank[l].size /\ rank'[l].c = c
    BY <1>2, <2>1 DEF Function
  <2>3. Told(l)' = Told(l)
    BY <1>2, <2>2 DEF Told
  <2>4. \A k \in C : Decreases(c, k.size, k.diff)
    <3>1. \A k \in C : k.loop = l
      BY <1>1 DEF Told
    <3>. QED
      BY <2>1, <3>1 DEF Solutions
  <2>5. Satisfies(l, inner)'
    BY <1>5, <2>2, <2>4 DEF Satisfies
  <2>6. iterations' <= Cardinality(C)
    BY <1>1, <1>2, <1>5 DEF NewCandidate
  <2>. QED
    BY <1>1, <1>5, <2>2, <2>3, <2>5, <2>6
<1>6. CASE WidenBounds /\ inner' = C
  <2>1. rank' = rank /\ iterations' = iterations
    BY <1>6 DEF WidenBounds
  <2>2. Told(l)' = Told(l)
    BY <1>2, <2>1 DEF Told
  <2>. QED
    BY <1>1, <1>2, <1>6, <2>1, <2>2 DEF FoundInv
<1>7. CASE AddElement(l) /\ inner' = {}
  <2>1. rank'[l].is = "false" /\ iterations' = 0
    BY <1>2, <1>7 DEF AddElement, Extended, False
  <2>. QED
    BY <1>7, <2>1, FS_EmptySet
<1>8. CASE Answer(C, l) = {} /\ GiveUp(l) /\ inner' = C
  <2>1. rank'[l].is = "true"
    BY <1>2, <1>8 DEF GiveUp, True
  <2>2. SUFFICES ASSUME Rankable(l) PROVE FALSE
    BY <2>1
  <2>3. PICK c \in Coefficients(l, MaxElements, CoeffBound[MaxRefinement]) :
               \A d \in Differences : Decreases(c, MaxElements, d)
    BY <2>2 DEF Rankable
  <2>4. level = MaxRefinement /\ rank[l].size = MaxElements
    BY <1>8 DEF GiveUp
  <2>5. \A k \in C : Decreases(c, k.size, k.diff)
    BY <1>1, <2>3, <2>4 DEF Told
  <2>6. c \in Solutions(C, l, CoeffBound[level])
    BY <2>3, <2>4, <2>5 DEF Solutions
  <2>. QED
    BY <1>3, <1>8, <2>6
<1>. QED
  BY <1>4, <1>5, <1>6, <1>7, <1>8

LEMMA RankingStepFinds ==
    ASSUME ArgumentInv, FoundInv, IterateRanking PROVE FoundInv'
<1>1. done /\ ~answered /\ variables' = variables /\ ssa' = ssa /\ inv' = inv
  BY DEF IterateRanking, solverVars, searchVars, iterationVars
<1>2. /\ Templ' = Templ /\ Differences' = Differences
      /\ \A l : Rankable(l)' = Rankable(l)
  BY <1>1 DEF Templ, Differences, Rankable, Coefficients, Admitted, Pre, Difference
<1>3. CASE RankingFound
  <2>1. \A l : Told(l)' = Told(l) /\ Satisfies(l, inner)' = Satisfies(l, inner)
    BY <1>2, <1>3 DEF RankingFound, Told, Satisfies
  <2>. QED
    BY <1>1, <1>2, <1>3, <2>1 DEF RankingFound, FoundInv
<1>4. CASE \E i \in NotRanked : EditRow(i)
  <2>1. PICK i \in NotRanked : EditRow(i)
    BY <1>4
  <2>2. SUFFICES ASSUME NEW l \in Templ, DOMAIN variables = {l},
                        Cardinality(Differences) <= MaxIterations
        PROVE  /\ rank'[l].is # "true" =>
                    /\ inner' \subseteq Told(l)'
                    /\ iterations' <= Cardinality(inner')
                    /\ inner' = {} \/ Satisfies(l, inner)' \/ iterations' < Cardinality(inner')
               /\ Rankable(l) => rank'[l].is # "true"
    BY <1>1, <1>2 DEF FoundInv
  <2>3. l = i.loop
    BY <2>1, <2>2 DEF NotRanked, Templ
  <2>. QED
    BY <1>1, <2>1, <2>2, <2>3, EditedRowFinds
<1>. QED
  BY <1>3, <1>4 DEF IterateRanking

(* With a single loop the search misses no ranking function of the         *)
(* template, as long as the iterations it may see are no more than the     *)
(* answers the inner solver is asked for.                                  *)
THEOREM RankingsAreFound == ArgumentSpec => []RankingIsFound
<1>1. ArgumentInit => FoundInv
  BY FoundInvInit
<1>2. ArgumentInv /\ FoundInv /\ [ArgumentNext]_argumentVars => FoundInv'
  BY SummaryStepFinds, RankingStepFinds DEF ArgumentNext
<1>3. ArgumentInv /\ FoundInv => RankingIsFound
  <2>1. SUFFICES ASSUME ArgumentInv, FoundInv, answered, Cardinality(DOMAIN variables) = 1,
                        Cardinality(Differences) <= MaxIterations,
                        NEW l \in Templ, Rankable(l)
                 PROVE  ArgumentVerdict = "YES"
    BY DEF RankingIsFound
  <2>2. DOMAIN variables = {l}
    <3>1. IsFiniteSet(DOMAIN variables)
      BY <2>1, LoopAssumption DEF ArgumentInv
    <3>2. PICK k : DOMAIN variables = {k}
      BY <2>1, <3>1, FS_Singleton
    <3>. QED
      BY <2>1, <3>2 DEF Templ
  <2>3. Templ = {l} /\ rank[l].is # "true"
    BY <2>1, <2>2 DEF Templ, FoundInv
  <2>. QED
    BY <2>3 DEF ArgumentVerdict
<1>. QED
  BY <1>1, <1>2, <1>3, ArgumentSteps, PTL DEF ArgumentSpec

-----------------------------------------------------------------------------
(* What the second search relies on: under it the first one still          *)
(* implements the iteration of the abstract interpretation, and the        *)
(* invariant it left, which decides what iterations the second one sees,   *)
(* bounds every row in every execution for as long as that one runs.       *)
THEOREM ArgumentsRefineIteration == ArgumentSpec => SolversRefine
<1>1. ArgumentInit => Init
  BY DEF ArgumentInit, SolverInit, SearchInit
<1>2. ArgumentInv /\ [ArgumentNext]_argumentVars => [Next]_iterationVars
  <2>1. SUFFICES ASSUME ArgumentInv, [ArgumentNext]_argumentVars PROVE [Next]_iterationVars
    OBVIOUS
  <2>2. CASE IterateRanking
    BY <2>2 DEF IterateRanking, solverVars, searchVars
  <2>3. CASE [DoSummary]_argumentVars
    BY <2>1, <2>3, SolverStep DEF ArgumentInv, DoSummary, argumentVars
  <2>. QED
    BY <2>1, <2>2, <2>3 DEF ArgumentNext
<1>. QED
  BY <1>1, <1>2, ArgumentSteps, PTL DEF ArgumentSpec, SolversRefine, Spec

THEOREM ArgumentsCover == ArgumentSpec => []CoversExecutions
BY ArgumentsRefineIteration, IterationCovers, PTL DEF SolversRefine
=============================================================================
