------------------------- MODULE StrategySolverSimple -------------------------
(***************************************************************************)
(* strategy_solver_simplet on a template polyhedron (option enum-solver):  *)
(* every iterate() takes one model in which a post constraint fails and    *)
(* sets the rows it violates to their values in the model.                 *)
(***************************************************************************)
EXTENDS StrategyIteration

(* The rows whose condition literal is true in the model.                  *)
EditedRows(m) == NotPost(inv, m)

(* The expressions of the row, over the post variables, in the model.      *)
EditedValueUnrenamed(m, r) == m.at[r]
EditedValue(m, r) == m.to[r]

(* edit_row, for the rows found.                                           *)
IterateSat ==
    /\ ~done
    /\ \E m \in Improving(inv) :
        inv' = [r \in Row |-> IF r \in EditedRows(m) THEN EditedValue(m, r) ELSE inv[r]]
    /\ UNCHANGED <<ssa, done>>

(* No row improves: handle_unsat, and the analysis is over.                *)
IterateUnsat ==
    /\ ~done
    /\ Improving(inv) = {}
    /\ done' = TRUE
    /\ UNCHANGED <<ssa, inv>>

SimpleNext == IterateSat \/ IterateUnsat

-----------------------------------------------------------------------------
(* Enumeration is exact: at no time is the value above an inductive one,   *)
(* so that it ends with the strongest invariant of the template.           *)
BelowEveryInductive ==
    \A u \in [Row \ InRow -> RowValue] :
        LET v == [r \in Row |-> IF r \in InRow THEN Inf ELSE u[r]]
        IN  Inductive(v) => \A r \in Row : inv[r] <= v[r]
=============================================================================
