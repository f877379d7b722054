------------------------ MODULE StrategySolverBinsearch ------------------------
(***************************************************************************)
(* strategy_solver_binsearcht, the default solver of template polyhedra:   *)
(* iterate() finds a row to improve, then searches for a great value of    *)
(* that row for which the row is consistent, the bound itself standing in  *)
(* the formula as a symbolic value.                                        *)
(***************************************************************************)
EXTENDS StrategyIteration

CONSTANT Probes     \* the values the heuristics of between() may name

VARIABLES
    row,        \* the row being improved
    lower,      \* the greatest value known to be consistent
    upper,      \* no greater value is looked for
    phase       \* improvement check or binary search

searchVars == <<iterationVars, row, lower, upper, phase>>

ASSUME ProbesAssumption == Probes \subseteq Value

-----------------------------------------------------------------------------
SearchInit ==
    /\ Init
    /\ row = 0 /\ lower = Min /\ upper = Min
    /\ phase = "check"

(* The improvement check picks the first row whose condition is true.      *)
FirstPosted(m) == CHOOSE r \in m.off : \A s \in m.off : r <= s
FirstViolated(m) ==
    CHOOSE r \in NotPost(inv, m) : \A s \in NotPost(inv, m) : r <= s

MaxRowValueInf == Inf
MaxRowValue == Max

ImprovementFound ==
    /\ phase = "check" /\ ~done
    /\ \E m \in Improving(inv) :
        /\ row' = FirstViolated(m)
        /\ lower' = m.to[row']
    /\ upper' = MaxRowValue
    /\ phase' = "search"
    /\ UNCHANGED <<ssa, inv, done>>

NoImprovement ==
    /\ phase = "check" /\ ~done
    /\ Inductive(inv)
    /\ done' = TRUE
    /\ UNCHANGED <<ssa, inv, row, lower, upper, phase>>

(* to_symb_pre_constraints and get_row_symb_post_constraint: the row is    *)
(* bounded by the symbolic value before and reaches it afterwards, and the *)
(* value differs from the expression over the pre variables.               *)
Consistent(m, symb) ==
    /\ \A r \in m.on : m.at[r] <= (IF r = row THEN symb ELSE inv[r])
    /\ row \in m.off
    /\ m.to[row] >= symb
    /\ symb # m.at[row]

(* between: the mean, rounded towards zero, or what a heuristic names.     *)
Mean(a, b) == IF a + b >= 0 THEN (a + b) \div 2 ELSE -((-(a + b)) \div 2)

Between(a, b) == IF a + 1 = b THEN {a} ELSE {Mean(a, b)} \cup Probes

(* A middle that is not above lower is replaced by upper.                  *)
MiddlesUnrounded == Between(lower, upper)
Middles == {IF lower < v THEN v ELSE upper : v \in Between(lower, upper)}

(* A symbolic value of at least middle is consistent.                      *)
SearchSat ==
    /\ phase = "search" /\ lower < upper
    /\ \E middle \in Middles, m \in ssa, symb \in Value :
        /\ symb >= middle
        /\ Consistent(m, symb)
        /\ lower' = symb
    /\ UNCHANGED <<iterationVars, row, upper, phase>>

(* None is: search below, or stop if nothing lies between.                 *)
SearchUnsat ==
    /\ phase = "search" /\ lower < upper
    /\ \E middle \in Middles :
        /\ \A m \in ssa, symb \in middle..Max : ~Consistent(m, symb)
        /\ upper' = IF middle < upper THEN middle ELSE lower
    /\ UNCHANGED <<iterationVars, row, lower, phase>>

(* The search is over: the row gets the value found.                       *)
UpdateRow ==
    /\ phase = "search" /\ ~(lower < upper)
    /\ inv' = [inv EXCEPT ![row] = lower]
    /\ phase' = "check"
    /\ UNCHANGED <<ssa, done, row, lower, upper>>

SearchNext ==
    ImprovementFound \/ NoImprovement \/ SearchSat \/ SearchUnsat \/ UpdateRow

-----------------------------------------------------------------------------
(* The types of the variables.                                             *)
SearchTypeOK ==
    /\ IterationTypeOK
    /\ phase \in {"check", "search"}
    /\ row \in 0..Rows
    /\ lower \in Value /\ upper \in Value
    /\ phase = "search" => row \in Row

(* While a row is searched its candidate is above its bound, so that the   *)
(* update improves it, whatever middle the heuristics choose.              *)
SearchImproves == phase = "search" => inv[row] < lower
=============================================================================
