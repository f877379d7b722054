--------------------------- MODULE CheckProperties ---------------------------
(***************************************************************************)
(* Checking the assertions of a program whose functions have been turned   *)
(* into formulas: summary_checker_baset::check_properties together with    *)
(* cover_goals_extt, which searches the formula of one function for        *)
(* models that violate an assertion ("covers the goal").                   *)
(*                                                                         *)
(* The formula of a function is abstracted to the set of its models, and a *)
(* model to what the check reads off it: the assertions it violates and    *)
(* whether it enters a loop through the loop-select guard, that is, from   *)
(* an arbitrary state allowed by the loop invariant instead of from a      *)
(* state the program has computed.  A model with inv = FALSE is a concrete *)
(* execution; one with inv = TRUE may be spurious.                         *)
(***************************************************************************)
EXTENDS PropertyMap, ParseOptions

CONSTANTS
    Function,       \* the functions of the program
    AssertsOf,      \* function -> the assertions in its body
    Trivial,        \* the assertions whose condition is the constant true
    Formulas,       \* the formulas the functions may have
    SolverMayFail   \* may the decision procedure answer D_ERROR

Model == [viol : SUBSET Property, inv : BOOLEAN]

(* continues: a concrete execution can leave the last unwound iteration.   *)
Formula == [models : SUBSET Model, continues : BOOLEAN]

ASSUME CheckAssumption ==
    /\ IsFiniteSet(Function)
    /\ AssertsOf \in [Function -> SUBSET Property]
    /\ \A f, g \in Function : f # g => AssertsOf[f] \cap AssertsOf[g] = {}
    /\ \A p \in Property : \E f \in Function : p \in AssertsOf[f]
    /\ Trivial \subseteq Property
    /\ Formulas \subseteq [Function -> Formula]
    /\ \A F \in Formulas : \A f \in Function : \A m \in F[f].models :
            m.viol \subseteq AssertsOf[f] \ Trivial
    /\ SolverMayFail \in BOOLEAN

VARIABLES
    formula,   \* function -> its formula (SSA, invariants, callee summaries)
    status,    \* property_map: assertion -> status
    todo,      \* the functions check_properties has still to visit
    cur,       \* {the function being checked}, or {}
    goals,     \* goal_map of the current cover_goals_ext
    covered,   \* the goals marked covered
    asked,     \* the goals in the disjunction last given to the solver
    suspect,   \* spurious_check of the current cover_goals_ext
    model,     \* {the model the solver found last}, or {}
    solverFailed,   \* has the decision procedure ever answered D_ERROR
    pc,        \* where check_properties is
    result     \* what check_properties returned

goalVars == <<goals, covered, asked, suspect, model>>
checkVars == <<cmdline, formula, status, todo, cur, goals, covered, asked,
               suspect, model, solverFailed, pc, result>>

-----------------------------------------------------------------------------
(* What the solver's context of a function says.                           *)

Concrete(M) == {m \in M : ~m.inv}

Violating(M, P) == {m \in M : m.viol \cap P # {}}

(* is_fully_unwound leaves the negated loop selects in the context when no *)
(* concrete execution can go on: the models through invariants are gone.   *)
FormulaModelsPinned(phi) == Concrete(phi.models)
FormulaModels(phi) == IF phi.continues THEN phi.models ELSE Concrete(phi.models)

ContextModels(f) == FormulaModels(formula[f])

Uncovered == goals \ covered

FunctionOf(p) == CHOOSE f \in Function : p \in AssertsOf[f]

-----------------------------------------------------------------------------
CheckInit ==
    /\ cmdline \in CommandLines
    /\ formula \in Formulas
    /\ status = [p \in Property |-> "unknown"]
    /\ todo = Function
    /\ cur = {}
    /\ goals = {}
    /\ covered = {}
    /\ asked = {}
    /\ suspect = FALSE
    /\ model = {}
    /\ solverFailed = FALSE
    /\ pc = "next"
    /\ result = "none"

(* check_properties() takes the next function of the SSA database.         *)
BeginFunction ==
    /\ pc = "next"
    /\ \E f \in todo :
        /\ cur' = {f}
        /\ todo' = todo \ {f}
    /\ pc' = "unwound"
    /\ UNCHANGED <<cmdline, formula, solverFailed, status, goalVars, result>>

(* Only what is still unknown becomes a goal; decided ones are not         *)
(* rechecked.                                                              *)
GoalsOf(f) == {p \in AssertsOf[f] \ Trivial : status[p] = "unknown"}

(* Every function gets a cover_goals_extt of its own.                      *)
NewGoalMapSharesCover(f) == goals' = GoalsOf(f) /\ UNCHANGED covered
NewGoalMap(f) == goals' = GoalsOf(f) /\ covered' = {}

(* is_fully_unwound, then one goal per undecided assertion.                *)
PrepareGoals ==
    /\ pc = "unwound"
    /\ \E f \in cur :
        /\ NewGoalMap(f)
        /\ suspect' = (formula[f].continues /\ SpuriousCheck)
        /\ status' = [p \in Property |->
                        IF p \in AssertsOf[f] \cap Trivial THEN "pass" ELSE status[p]]
    /\ asked' = {}
    /\ model' = {}
    /\ pc' = "solve"
    /\ UNCHANGED <<cmdline, formula, solverFailed, todo, cur, result>>

(* One round of cover_goals_extt::operator(): constraint() asks for one of *)
(* the uncovered goals; a model covers every goal it violates (mark).      *)
MarkNothing(m) == covered
Mark(m) == covered \cup (m.viol \cap goals)

CoverSat ==
    /\ pc = "solve"
    /\ asked' = Uncovered
    /\ \E f \in cur : \E m \in Violating(ContextModels(f), Uncovered) :
        /\ model' = {m}
        /\ covered' = Mark(m)
    /\ pc' = "assignment"
    /\ UNCHANGED <<cmdline, formula, solverFailed, status, todo, cur, goals,
                   suspect, result>>

CoverUnsat ==
    /\ pc = "solve"
    /\ asked' = Uncovered
    /\ \A f \in cur : Violating(ContextModels(f), Uncovered) = {}
    /\ pc' = "settle"
    /\ UNCHANGED <<cmdline, formula, solverFailed, status, todo, cur, goals,
                   covered, suspect, model, result>>

(* D_ERROR only logs "decision procedure has failed" and returns.          *)
CoverError ==
    /\ pc = "solve"
    /\ SolverMayFail
    /\ solverFailed' = TRUE
    /\ asked' = Uncovered
    /\ pc' = "settle"
    /\ UNCHANGED <<cmdline, formula, status, todo, cur, goals, covered,
                   suspect, model, result>>

(* The goals a model turns into failures; with a trace to build and        *)
(* --stop-on-fail, the loop over the goals stops at the first of them.     *)
Failing(m) ==
    LET hit == {p \in goals \cap m.viol : status[p] = "unknown"}
    IN  IF BuildTrace /\ ~AllProperties /\ hit # {}
        THEN {{p} : p \in hit}
        ELSE {hit}

MarkFailed(m) ==
    \E F \in Failing(m) :
        status' = [p \in Property |-> IF p \in F THEN "fail" ELSE status[p]]

AfterAssignment ==
    IF AllProperties /\ covered # goals THEN "solve" ELSE "settle"

(* A model through a loop select is possibly spurious.                     *)
SuspiciousNever(m) == FALSE
Suspicious(m) == suspect /\ m.inv

(* assignment(): a model through no loop select is a counterexample.       *)
AcceptModel ==
    /\ pc = "assignment"
    /\ \E m \in model : ~Suspicious(m) /\ MarkFailed(m)
    /\ pc' = AfterAssignment
    /\ UNCHANGED <<cmdline, formula, solverFailed, todo, cur, goalVars, result>>

(* The models with all the selects negated, the goals asked for being the  *)
(* same as before: those just marked covered included.                     *)
RetriedUncovered(f) == Violating(Concrete(ContextModels(f)), Uncovered)
Retried(f) == Violating(Concrete(ContextModels(f)), asked)

(* assignment(): a suspicious model is replaced by one of those, if any.   *)
RetryConcrete ==
    /\ pc = "assignment"
    /\ \E m \in model : Suspicious(m)
    /\ \E f \in cur :
        IF Retried(f) # {} THEN \E m \in Retried(f) : MarkFailed(m)
                           ELSE UNCHANGED status
    /\ pc' = AfterAssignment
    /\ UNCHANGED <<cmdline, formula, solverFailed, todo, cur, goalVars, result>>

(* Everything not covered passes, unless the search was cut short.         *)
SettledAlways == Uncovered
SettledGoals == goals
Settled ==
    IF AllProperties \/ covered = {} THEN Uncovered ELSE {}

Settle ==
    /\ pc = "settle"
    /\ status' = [p \in Property |-> IF p \in Settled THEN "pass" ELSE status[p]]
    /\ cur' = {}
    /\ pc' = "next"
    /\ UNCHANGED <<cmdline, formula, solverFailed, todo, goalVars, result>>

(* The other calls of the solver throw on D_ERROR and end the analysis.    *)
Throw ==
    /\ SolverMayFail
    /\ \/ pc = "unwound"
       \/ pc = "assignment" /\ \E m \in model : Suspicious(m)
    /\ solverFailed' = TRUE
    /\ pc' = "aborted"
    /\ UNCHANGED <<cmdline, formula, status, todo, cur, goalVars, result>>

Return ==
    /\ pc = "next"
    /\ todo = {}
    /\ result' = Verdict(status)
    /\ pc' = "done"
    /\ UNCHANGED <<cmdline, formula, solverFailed, status, todo, cur, goalVars>>

CheckStep ==
    \/ BeginFunction
    \/ PrepareGoals
    \/ CoverSat
    \/ CoverUnsat
    \/ CoverError
    \/ AcceptModel
    \/ RetryConcrete
    \/ Settle
    \/ Throw
    \/ Return

CheckSpec == CheckInit /\ [][CheckStep]_checkVars /\ WF_checkVars(CheckStep)

-----------------------------------------------------------------------------
(* The types of the variables.                                             *)
TypeOK ==
    /\ cmdline \in CommandLine
    /\ formula \in [Function -> Formula]
    /\ status \in [Property -> Status]
    /\ todo \subseteq Function
    /\ cur \in {{}} \cup {{f} : f \in Function}
    /\ goals \subseteq Property
    /\ covered \subseteq goals
    /\ asked \subseteq goals
    /\ suspect \in BOOLEAN
    /\ model \in {{}} \cup {{m} : m \in Model}
    /\ solverFailed \in BOOLEAN
    /\ pc \in {"next", "unwound", "solve", "assignment", "settle", "done", "aborted"}
    /\ result \in Answer

(* An assertion is reported as failed only if a model that goes through no *)
(* invariant violates it: the spuriousness check of assignment() lets no   *)
(* spurious counterexample through, whatever the solver answers.           *)
FailIsReal ==
    SpuriousCheck =>
        \A p \in Property : status[p] = "fail" =>
            \E m \in Concrete(ContextModels(FunctionOf(p))) : p \in m.viol

(* An assertion is reported as passed only if no model of its function's   *)
(* context violates it: "not covered" at the end of check_properties       *)
(* means that the search was exhausted, unless the decision procedure has  *)
(* failed.                                                                 *)
NoModelViolates(p) == \A m \in ContextModels(FunctionOf(p)) : p \notin m.viol

PassIsProved ==
    ~solverFailed => \A p \in Property : status[p] = "pass" => NoModelViolates(p)

(* The same whatever the decision procedure answers: only goals that were  *)
(* asked for and not covered are set to PASS (summary_checker_base.cpp).   *)
PassIsAlwaysProved ==
    \A p \in Property : status[p] = "pass" => NoModelViolates(p)

(* The assertions of f that some concrete execution violates.              *)
Refutable(f) == {p \in AssertsOf[f] : \E m \in Concrete(ContextModels(f)) : p \in m.viol}

(* A concrete counterexample is never lost: although a goal covered by a   *)
(* spurious model is not asked for again, the check of a function that has *)
(* a counterexample reports one.  (The base case of k-induction rests on   *)
(* it: a round that refutes nothing has excluded every violation within    *)
(* its unwinding.)                                                         *)
CounterexampleFound ==
    pc = "done" /\ ~solverFailed =>
        \A f \in Function : Refutable(f) # {} => result = "FAIL"

(* A decided assertion is never decided again: no step turns a failure     *)
(* into a pass or back, unless the decision procedure has failed.          *)
DecidedStays ==
    [][~solverFailed =>
        \A p \in Property : status[p] # "unknown" => status'[p] = status[p]]_checkVars

(* The search ends: every model covers a goal that no earlier one covered. *)
Terminates == <>(pc \in {"done", "aborted"})
=============================================================================
