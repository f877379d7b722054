--------------------------- MODULE LexLinRankDomain ---------------------------
(***************************************************************************)
(* lexlinrank_domaint: the search for a lexicographic linear ranking       *)
(* function of every loop, guided by counterexamples.                      *)
(*                                                                         *)
(* The strategy solver asks for an iteration of a loop on which the        *)
(* candidate does not decrease; a second (inner) solver is given what the  *)
(* coefficients must satisfy for it and names a new candidate.  When it    *)
(* has none, the bounds of the coefficients are widened, then the function *)
(* gets a further component, then the loop is given up.                    *)
(***************************************************************************)
EXTENDS Integers

Sets == INSTANCE FiniteSetsExt

CONSTANTS
    MaxElements,    \* --lexicographic-ranking-function
    MaxIterations,  \* --max-inner-ranking-iterations
    CoeffBound      \* the greatest coefficient at each refinement level

MaxRefinement == 2

ASSUME RankingAssumption ==
    /\ MaxElements \in Nat \ {0}
    /\ MaxIterations \in Nat
    /\ CoeffBound \in [0..MaxRefinement -> Nat]

VARIABLES
    variables,  \* the numeric variables of each loop (does not change)
    rank,       \* the value of the domain
    inner,      \* the constraints in the inner solver
    level,      \* refinement_level
    iterations, \* number_inner_iterations
    answered    \* has iterate() returned false

rankVars == <<variables, rank, inner, level, iterations, answered>>

-----------------------------------------------------------------------------
(* add_template: a loop none of whose variables is numeric gets no row.    *)
Templ == {l \in DOMAIN variables : variables[l] # {}}

(* A row is false (nothing is known), true (given up) or the coefficients  *)
(* of size components, the last one being the most significant.            *)
False(size) == [is |-> "false", size |-> size, c |-> <<>>]
Function(c, size) == [is |-> "function", size |-> size, c |-> c]
True == [is |-> "true", size |-> 1, c |-> <<>>]

RankInit ==
    /\ rank = [l \in Templ |-> False(1)]
    /\ inner = {}
    /\ level = 0 /\ iterations = 0
    /\ answered = FALSE

(* An iteration of loop l: the values of its variables before and after.   *)
Difference(i) == [x \in variables[i.loop] |-> i.pre[x] - i.post[x]]

Sum(c, d) == Sets!MapThenSumSet(LAMBDA x : c[x] * d[x], DOMAIN d)

(* One component decreases and no more significant one increases.          *)
DecreasesOne(c, size, d) == \E e \in 1..size : Sum(c[e], d) > 0
Decreases(c, size, d) ==
    \E e \in 1..size :
        /\ Sum(c[e], d) > 0
        /\ \A f \in e + 1 .. size : Sum(c[f], d) >= 0

(* make_not_post_constraints, for the row of the loop.                     *)
NotDecreasing(i) ==
    CASE rank[i.loop].is = "true" -> FALSE
      [] rank[i.loop].is = "false" -> TRUE
      [] OTHER -> ~Decreases(rank[i.loop].c, rank[i.loop].size, Difference(i))

-----------------------------------------------------------------------------
(* The inner solver.  A constraint keeps the number of components that the *)
(* row had when it was added.                                              *)
Constraint(i) == [loop |-> i.loop, size |-> rank[i.loop].size, diff |-> Difference(i)]

Coefficients(l, size, bound) == [1..size -> [variables[l] -> -bound..bound]]

Solutions(C, l, bound) ==
    {c \in Coefficients(l, rank[l].size, bound) :
        \A k \in {k \in C : k.loop = l} : Decreases(c, k.size, k.diff)}

(* The rows have no coefficient in common, and the bounds of refinement    *)
(* are for the row at hand.                                                *)
InnerModels(C, l) ==
    IF \E k \in {k.loop : k \in C} \ {l} : Solutions(C, k, CoeffBound[MaxRefinement]) = {}
    THEN {} ELSE Solutions(C, l, CoeffBound[level])

(* edit_row: what the inner solver may answer for loop l; it is not asked   *)
(* for more than MaxIterations solutions.                                  *)
Answer(C, l) == IF iterations < MaxIterations THEN InnerModels(C, l) ELSE {}

NewCandidate(l, M) ==
    /\ \E c \in M : rank' = [rank EXCEPT ![l] = Function(c, @.size)]
    /\ iterations' = iterations + 1
    /\ UNCHANGED <<level, answered>>

WidenBounds ==
    /\ level < MaxRefinement
    /\ level' = level + 1
    /\ UNCHANGED <<rank, iterations, answered>>

ExtendedNot(r) == False(r.size)
Extended(r) == False(r.size + 1)

(* The inner solver is replaced, for all rows.                             *)
AddElement(l) ==
    /\ level = MaxRefinement /\ rank[l].size < MaxElements
    /\ rank' = [rank EXCEPT ![l] = Extended(@)]
    /\ level' = 0 /\ iterations' = 0
    /\ UNCHANGED answered

(* Nothing has improved, and the iteration is over for the other rows too. *)
GiveUp(l) ==
    /\ level = MaxRefinement /\ rank[l].size = MaxElements
    /\ rank' = [rank EXCEPT ![l] = True]
    /\ level' = 0
    /\ answered' = TRUE
    /\ UNCHANGED iterations

NextInnerKept(C) == C
NextInner(C) == {}

EditRow(i) ==
    LET C == inner \cup {Constraint(i)}
        M == Answer(C, i.loop)
    IN  \/ M # {} /\ NewCandidate(i.loop, M) /\ inner' = C
        \/ M = {} /\ WidenBounds /\ inner' = C
        \/ M = {} /\ AddElement(i.loop) /\ inner' = NextInner(C)
        \/ M = {} /\ GiveUp(i.loop) /\ inner' = C

(* handle_unsat.                                                           *)
RankingFound ==
    /\ level' = 0
    /\ answered' = TRUE
    /\ UNCHANGED <<rank, inner, iterations>>

(* check_termination_argument; without rows there is no argument.          *)
ArgumentVerdict ==
    IF Templ = {} \/ \E l \in Templ : rank[l].is = "true" THEN "UNKNOWN" ELSE "YES"
=============================================================================
