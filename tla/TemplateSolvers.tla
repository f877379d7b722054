---------------------------- MODULE TemplateSolvers ----------------------------
(* tpolyhedra_domaint::new_strategy_solver: the solver that improves a      *)
(* template polyhedron is the one the command line names.                   *)
EXTENDS StrategySolverSimple, StrategySolverBinsearch, ParseOptions

solverVars == <<searchVars, cmdline>>

-----------------------------------------------------------------------------
SolverInit == SearchInit /\ cmdline \in CommandLines

Enumerate ==
    /\ Strategy = "ENUMERATION"
    /\ SimpleNext
    /\ UNCHANGED <<row, lower, upper, phase, cmdline>>

SearchBinary ==
    /\ Strategy = "BINSEARCH"
    /\ SearchNext
    /\ UNCHANGED cmdline

SolverNext == Enumerate \/ SearchBinary

(* The analysis calls iterate() in a loop and nothing else runs.            *)
SolverSpec == SolverInit /\ [][SolverNext]_solverVars /\ WF_solverVars(SolverNext)

-----------------------------------------------------------------------------
(* The types of the variables.                                              *)
SolverTypeOK == SearchTypeOK /\ cmdline \in CommandLines

(* Enumeration is exact: it never rises above an inductive value, so that   *)
(* it ends with the strongest invariant of the template.                    *)
EnumerationIsExact == Strategy = "ENUMERATION" => BelowEveryInductive

(* Either solver implements the iteration: a step raises rows that one      *)
(* model of the current value violates, or stutters, and only an inductive  *)
(* value ends it.                                                           *)
SolversRefine == Spec
=============================================================================
