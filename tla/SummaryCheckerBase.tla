-------------------------- MODULE SummaryCheckerBase --------------------------
(***************************************************************************)
(* What the drivers of the analysis have in common (summary_checker_baset) *)
(* when the program is inlined into one function: the program, its unwound *)
(* formula, the calls of check_properties, and what the analysis promises. *)
(***************************************************************************)
EXTENDS UnwoundLoop, CheckProperties

CONSTANTS
    main,           \* the function everything is inlined into
    Programs,       \* command line -> the programs to verify with it
    Template        \* value domain -> the sets of states its templates describe

Domain == {"intervals", "zones"}

ASSUME DriverAssumption ==
    /\ Function = {main}
    /\ AssertsOf = [f \in {main} |-> Property]
    /\ Trivial = {}
    /\ Programs \in [CommandLines -> SUBSET Program]
    /\ ~SolverMayFail
    /\ Template \in [Domain -> SUBSET SUBSET State]
    /\ \A d \in Domain : State \in Template[d]

VARIABLES
    prog,       \* the program under verification (does not change)
    unwind,     \* how often its loop is unwound, k
    domain,     \* the value domain
    phase       \* where operator() of the driver is

driverVars == <<prog, unwind, domain, phase>>
vars == <<driverVars, checkVars>>

-----------------------------------------------------------------------------
StartWith(k, at) ==
    /\ prog \in Programs[cmdline]
    /\ unwind = k
    /\ domain = ValueDomain
    /\ phase = at
    /\ formula = [f \in {main} |-> [models |-> {}, continues |-> FALSE]]
    /\ status = [p \in Property |-> "unknown"]
    /\ todo = {} /\ cur = {} /\ goals = {} /\ covered = {} /\ asked = {}
    /\ suspect = FALSE /\ model = {} /\ solverFailed = FALSE
    /\ pc = "done" /\ result = "none"

(* A call of check_properties() on the formula of the unwinding, with what *)
(* is known of the loop-back values.                                       *)
CallCheck(inv) ==
    /\ formula' = [f \in {main} |-> UnwoundFormula(prog, unwind, inv)]
    /\ todo' = Function
    /\ pc' = "next"
    /\ result' = "none"
    /\ cur' = {} /\ goals' = {} /\ covered' = {} /\ asked' = {}
    /\ suspect' = FALSE /\ model' = {}
    /\ UNCHANGED <<cmdline, status, solverFailed>>

(* No summary, or one of an earlier unwinding: a loop invariant constrains *)
(* only the loop-back variables of the unwinding it was computed for.      *)
Unconstrained == State

(* summarize(goto_model) with the domain d, then check_properties().       *)
SummarizeAndCheck(d) ==
    \E inv \in Invariants(prog, unwind, Template[d]) : CallCheck(inv)

(* check_properties runs to its end between two steps of a driver.         *)
Checking ==
    /\ pc # "done"
    /\ CheckStep
    /\ UNCHANGED driverVars

-----------------------------------------------------------------------------
(* When the analysis answers PASS, no execution of the program violates an *)
(* assertion: the windows the checks have looked at, some assuming the     *)
(* earlier assertions, together exclude a violation at any depth.          *)
ProofIsSound == (pc = "done" /\ result = "PASS") => Correct(prog)

(* An assertion that is reported as failed does fail in an execution of at *)
(* most unwind + 1 iterations.                                             *)
CounterexampleIsReal ==
    SpuriousCheck => \A p \in Property : status[p] = "fail" =>
        \E w \in Windows(prog, unwind, prog.init) : \E j \in DOMAIN w : w[j] \in prog.bad[p]

(* An assertion that is reported as passed is never the first to fail in   *)
(* an execution, even while others are still undecided.                    *)
PassIsNeverFirstToFail ==
    \A p \in Property : status[p] = "pass" =>
        ReachableCleanly(prog) \cap prog.bad[p] = {}

(* The base case: once a check has refuted nothing, the first k + 1        *)
(* iterations are safe, although an incremental round k asserts only in    *)
(* the last copies and assumes the assertions of the others.               *)
BaseCase ==
    (phase # "unwind" /\ pc = "done" /\ result \in {"UNKNOWN", "PASS"}) =>
        SafeUpTo(prog, unwind)

(* A loop whose runs all end within the bound is decided: is_fully_unwound *)
(* then drops the invariants from the formula.                             *)
BoundedLoopsAreDecided ==
    (phase = "stop" /\ LoopsBoundedBy(prog, MaxUnwind)) => result \in {"PASS", "FAIL"}

(* The analysis ends.                                                      *)
Stops == <>(phase = "stop")
=============================================================================
