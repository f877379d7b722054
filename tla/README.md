# A TLA+ model of 2LS

2LS is a static analyser and verifier for C programs. It turns every function
into static single assignment (SSA) form, infers invariants and function
summaries by solving template constraints with an incremental solver, and
decides assertions with the help of these invariants: by abstract
interpretation, k-induction, bounded model checking, or k-induction combined
with invariants (kIkI).

This directory models the parts of 2LS whose correctness depends on the order of
steps, on which facts are combined, and on when they are still valid. TLC checks
the models on small programs; TLAPS proves the most important properties for all
programs, templates and options. `PROJECT.json` lists components, runs, mutants,
the map from definitions to source lines, findings, hazards and theorems.

Paths below are relative to the repository (`src/2ls/...` and so on).

## 1. Inventory

2LS runs one analysis in one thread, so the hard questions are not about
threads. They are about *freedom* (which model the solver returns, which middle
value a heuristic names, in which order functions come), *validity over time*
(a status, summary, context or invariant that was right when it was stored and
is used later, at another unwinding or in another context), *partial answers*
(a solver that fails, a search cut short, a callee without summary) and
*termination* of nested refinement loops.

| Component | State it keeps | Operations | Interacts with | Makes it correct |
|---|---|---|---|---|
| Property checking: `2ls/summary_checker_base.cpp`, `cover_goals_ext.cpp` | property map, goals with covered flags, spurious check flag | `check_properties`, `is_fully_unwound`, `cover_goals_extt::operator()`, `mark`, `assignment` | SSA database, summaries, incremental solver | a FAIL has a concrete execution; a PASS has been exhausted; no counterexample is lost; it ends |
| Drivers: `2ls/summary_checker_{kind,bmc,ai}.cpp` | unwinding, chosen domain, result | one round: unwind, check, summarize, check, refine | all others | proofs hold for unbounded executions, counterexamples exist, bounded loops are decided |
| SSA unwinder: `ssa/ssa_unwinder.cpp` | loop tree, body copies, enabling expressions | `unwind`, `add_loop_body/head/connector`, `add_assertions`, `loop_continuation_conditions` | the SSA it rewrites | the copies mean what executions do; what is assumed was checked |
| Strategy iteration: `domains/ssa_analyzer.cpp`, `strategy_solver_*.cpp` | value of the domain | `iterate` | domain, solver | ends, with an inductive value |
| Template domains: `domains/*_domain.cpp` | template rows, values | pre and post constraints, `edit_row`, `join`, `between` | strategy solvers | constraints mean what the value means |
| Summarizers: `solver/summarizer_{base,fw,bw,fw_term,bw_term}.cpp` | summary database, recursion | `compute_summary_rec`, `inline_summaries`, `check_precondition` | strategy iteration, SSA inliner | summaries and contexts over-approximate; the recursion ends |
| Summary database: `solver/summary*.cpp` | function to summary | `put`, `join`, `mark_recompute` | summarizers, inliner | what a caller concluded stays valid |
| SSA inliner: `ssa/ssa_inliner.cpp` | renaming counter | `get_summaries` | SSA of the caller | the constraint added for a call holds for every return |
| Incremental solver: `domains/incremental_solver.cpp` | contexts, activation literals | `new_context`, `pop_context`, `()` | everything that asks | contexts are balanced, nothing is left behind |
| Termination: `solver/summarizer_fw_term.cpp`, report in `2ls/summary_checker_ai.cpp` | verdict of every summary | `compute_summary_rec`, `do_nontermination`, `do_termination`, `report_termination` | summarizer, ranking domains | nothing that runs forever is said to end |
| Non-termination checker: `2ls/summary_checker_nonterm.cpp` | property map (loops as properties), unwinding | search for a recurring loop-head state | unwinder, goal cover | a reported lasso repeats; recurrences are found |
| Passes over the GOTO program: `2ls/preprocessing_util.cpp` | the program | `split_loopheads`, `nondet_locals`, `fix_goto_targets`, ... | everything behind | executions stay executions |
| SSA construction: `ssa/local_ssa.cpp`, `ssa_domain.cpp`, `guard_map.cpp`, `assignments.cpp` | definitions and phi nodes per location, guards, nodes | data-flow iteration, `build_SSA` | everything | the equations hold in every execution |
| Pointer, heap and array analyses: `ssa/ssa_value_set.cpp`, `may_alias_analysis.cpp`, `dynobj_instance_analysis.cpp`, `array_index_analysis.cpp` | abstract values per location | transform, merge | SSA construction | over-approximation, fixpoint |
| GOTO unwinder: `ssa/goto_unwinder.cpp` | unwound GOTO program | incremental unwinding | drivers | as the SSA unwinder |
| Ranking domains: `domains/linrank_domain.cpp`, `lexlinrank_domain.cpp` | ranking functions | refinement | termination summarizers | every step decreases |
| Command line: `2ls/2ls_parse_options.cpp` | options | option derivation, program transformation | all | consistent options |
| Output, web interface | none | formatting | results | not modelled |

The interaction in one run: `doit()` derives the options and selects a driver.
The driver builds the SSA of every function, lets the unwinder add copies of
loop bodies to it, has the summarizer fill the summary database (one strategy
iteration per function and context, callees first) and calls
`check_properties`. That builds one formula per function from SSA, invariants
and callee summaries, and searches it for violating models with
`cover_goals_extt`. What stays undecided leads to the next domain or the next
unwinding.

## 2. Modules

| Module | Models | Role |
|---|---|---|
| `ParseOptions` | option derivation and choice of driver in `2ls_parse_options.cpp` | `cmdline` is a variable fixed in the initial state; the options are operators on it |
| `PropertyMap` | status of assertions, `Verdict` | used by both checkers |
| `CheckProperties` | `check_properties`, `cover_goals_extt` | state machine |
| `GotoProgram` | a function as GOTO program and the passes of `process_goto_program` that touch its control flow | pure operators |
| `GotoExecution` | executions of a GOTO program as it was | reference semantics, refined by `SSAExecution` |
| `LocalSSA` | `ssa_ait` with `ssa_domaint`, `guard_mapt`, `local_SSAt::build_SSA` | state machine |
| `SSAUnwinder` | `ssa_local_unwindert`, `unwindable_local_SSAt` | state machine on top of `LocalSSA` |
| `SSAExecution` | the formula of a round against one execution | composes the passes, the SSA and the unwinder; refines `GotoExecution` |
| `SummaryCheckerNonterm` | `summary_checker_nontermt` | on top of `SSAExecution` |
| `UnwoundLoop` | meaning of an unwound loop (`ssa_unwinder.cpp`), invariant templates of the loop | pure operators |
| `SummaryCheckerBase`, `SummaryCheckerKind`, `SummaryCheckerAI`, `SummaryCheckers` | the drivers | compose `CheckProperties` and `UnwoundLoop` |
| `StrategyIteration` | what any strategy solver promises | abstract specification |
| `StrategySolverSimple`, `StrategySolverBinsearch`, `TemplateSolvers` | enumeration and binary search, and the choice between them | implement `StrategyIteration` |
| `LexLinRankDomain` | `lexlinrank_domaint` with its inner solver, `check_termination_argument` | state machine |
| `TerminationArgument` | `do_summary` and `do_termination` of a function with loops | composes `TemplateSolvers` and `LexLinRankDomain` |
| `CallingProgram` | programs of functions that call each other; their executions | reference semantics |
| `SummarizerFw` | `summarizer_fwt`, `summarizer_baset`, `summary_dbt`, `summaryt::join`, `get_summaries` | state machine |
| `SummarizerTerm` | `summarizer_fw_termt`, verdicts in summaries, `report_termination` | state machine; `AnalysisSpec` selects this or the plain summarizer by option |
| `CheckProperties_proofs`, `SummaryCheckers_proofs`, `StrategySolvers_proofs`, `TerminationArgument_proofs`, `SummarizerFw_proofs`, `SummarizerTerm_proofs`, `SSAExecution_proofs` | theorems about the module of that name (`StrategySolvers`: both solvers and their choice) | TLAPS |
| `InductionLemmas` | a set of numbers has a least element: induction for the proofs | TLAPS |
| `MC*` | instances for TLC | values of the constants |

### CheckProperties

A formula is the set of its models, and a model is what the check reads off it:
the assertions it violates and whether it goes through a *loop select*, that is,
starts from an arbitrary state the invariant allows. Models through no loop
select are concrete executions. `pc` follows the code: next function, unwound
(about to call `is_fully_unwound`), solve (in `cover_goals_extt::operator()`),
assignment, settle. Three details carry the hazards and are kept exactly:

* `mark` covers goals *before* `assignment` finds out that the model is spurious;
  the goals stay covered and are not asked for again. The retry with negated
  selects is made under the question asked *before* the marking (`asked`).
* `is_fully_unwound` leaves the negated selects in the solver context when no
  concrete execution goes on (`FormulaModels`).
* `D_ERROR` in the search only logs and returns (`CoverError`); in the other
  calls it throws (`Throw`). `solverFailed` remembers that either has happened.

Each action is one call of the solver or one piece of code between two calls.

### From the GOTO program to the unwound SSA

`GotoProgram` keeps the instructions of a function as a sequence whose elements
have identities, because the passes insert instructions while gotos go on
pointing to the old ones (list iterators in the code). `Processed` applies the
passes in the order of `process_goto_program`.

`LocalSSA` starts with the data-flow analysis: `Visit` takes the first location
of the work list, `Transform` and `MergedDefs`/`MergedPhis` are
`ssa_domaint::transform` and `merge`, with the sources of definitions and the
rule that a growing phi node is not propagated. `Build` turns the result into
nodes. An equation has the name it defines on the left and, on the right,
alternatives of which the last one that applies counts: this is how nested
`if_exprt`s of phi nodes, disjunctions of guards and plain assignments are all
read.

`SSAUnwinder` tells the copies of a loop body apart by their odometer, the index
of the copy in each enclosing loop. `unwind()` walks the loop tree recursively
and decides at each loop whether to add new copies or to go over the old ones;
the model says by comprehension which copies round `k` adds (`Added`: those with
`k` somewhere in the odometer) and keeps what is added for each: the body, the
connector to the next copy, assertions, hoisted assertions; loop head and exit
merges are enabled for their round only. `DefLevel` decides how much of the
odometer a name carries where it is used.

`SSAExecution` walks an execution of the processed program after any round. It
keeps the odometer it is in and the value of every name it passes; when it leaves
a loop, the names behind the loop get what the exit merges give them. The
equations of the round are then evaluated over these values. The source of the
function, before the passes, is related to the walk by the refinement mapping
`NextOriginal` (the next instruction that no pass has inserted):
`RefinesSource` is `GotoExecution!SourceSpec`. `Structured`, part of the type
invariant, says what the passes make of a function: control stays in it and does
not come back to the first instruction, loops nest and have heads of their own,
and the names needed behind a loop are names of the loop.

`SummaryCheckerNonterm` puts one property per loop on top: the goal of a loop
compares the phi values at the head of copy `%0` with those of the copies `%1` to
`%k` and, for an inner loop, in every instance. Its reference is the set of
states of the source with an endless execution (`Endless`).

### UnwoundLoop and the drivers

The drivers inline the program, so there is one function; the model gives it one
loop. A program is the successor relation of its loop-head states with the
states in which assertions fail; `AfterLoop` tells assertions behind the loop
from those in its body, `dowhile` tells the kind of loop. A model of the SSA
unwound `k` times is a window of at most `k+1` consecutive iterations that
starts on entry or at a loop-back value. `Asserted` and `Assumed` say in which
copy an assertion is checked and in which it is turned into an assumption,
depending on the mode; `Continues` is the loop continuation condition. In
`K_INDUCTION` and `BMC` mode the models therefore contain the effect of assuming
earlier assertions, which is where soundness could be lost. `Invariants` is what
the inference may return: any element of the template that is inductive for the
*loop-back* variables of this unwinding, which are the values at the ends of
whole windows, not at every iteration. `LoopBackWindows` then uses it.

`SummaryCheckers` is a complete run: `Checker` selects the driver by command
line; `CheckStep` runs to its end between two driver steps.

### Strategy iteration and its solvers

A template is a number of rows with bounds between minus and plus infinity; a
model of the SSA is reduced to what rows see of it. The two solvers keep the
control of `iterate()`: enumeration raises all rows one model violates; binary
search picks the first violated row, starts from its value in the model, and
asks for symbolic values above a middle. The heuristics of `between()` are a
nondeterministic choice from `Probes` besides the mean (rounded towards zero, as
integer division in C++ does), and a middle not above `lower` is replaced by
`upper`, as in the code.

### Termination arguments

`LexLinRankDomain` is the second use of `strategy_solver_simplet`: a row per loop,
whose value is *false*, the coefficients of a lexicographic linear function, or
*true* when the loop is given up. An iteration of a loop on which the candidate
does not decrease (`NotRanked`) is turned into a constraint on coefficients for
the inner solver. `EditRow` has the four outcomes of `edit_row`: a new candidate,
any solution within the bounds of the refinement level; wider bounds; one more
component, with a new inner solver for all rows; giving up, which ends the
iteration for the other rows too. The number of candidates per inner solver is
limited, and a candidate found at the limit is not used. `ArgumentVerdict` is
what the summarizer concludes.

`TerminationArgument` runs this search after the strategy iteration: an iteration
of a loop is admitted only if its model satisfies the invariant found before
(`Admitted`). The reference (`Endless`) knows nothing of invariants: it looks for
a set of values at a loop head, reached from the entry, from each of which an
iteration leads back into the set.

### SummarizerFw

The recursion of `compute_summary_rec` is an explicit stack of function,
precondition and next call. At each call `inline_summaries` tests reachability,
tests whether the callee's summary covers the calling context, and otherwise
computes the context and descends. `do_summary` takes the least template element
over the models of function and context and weakens it to an implication from
the context; `put` joins. The strategy iteration is taken at its word (exact,
least element): that is what the previous modules show of enumeration, and the
properties hold as well for any larger element in the proofs, which use only
that the result covers its argument.

`SummarizerTerm` is the same recursion with `--termination`. What changes at a
call: reachability and context are asked for under the assumption of *all*
assertions of the function; the verdict of the callee is noted in the frame
(`Noted`), and a callee that is not known to terminate ends the loop over the
calls of this node only. At the end of a function, `NeverReturns` is
`do_nontermination`, `MayReturn` with `TermVerdicts` is `do_termination`, where a
ranking function may or may not be found for a loop that ends and is not found
for one that does not. `ReportTermination` is the overall answer. `Diverging`,
the greatest fixpoint of functions and arguments with an execution that does not
end, is the reference.

After the analysis the model explores the executions of the program
(`returned`, `called`, least fixpoints, computed step by step) to compare.

## 3. Runs

All runs use two workers and finish in less than four minutes (`summarizer_fw`
is the longest).

| Run | Question | Bounds |
|---|---|---|
| `check_properties` | Are all assertions decided correctly and does the search end, whatever model the solver picks and wherever it fails? | two functions, 3 assertions and a trivial one, every set of models over them, 4 option sets |
| `check_solver_error` | violation: PASS although the solver failed | the same |
| `checkers` | Are proofs, counterexamples and the base case of every driver right? | all programs over up to 4 loop-head states with one assertion in the loop and one behind it; unwindings 0 to 3; 5 command lines |
| `kiki_invariants` | violation: k-induction with invariants proves a violated assertion | the same programs |
| `termination_argument` | Do both solvers implement the iteration, end and cover the executions, is enumeration exact? Does a ranking function found under their invariant prove that no loop goes on for ever, and is it found if there is one? | a loop over 3 values with any choice from the value it is entered with, 4 rows: x, -x, an OUT row, an IN row; six loops over two variables; 25 pairs of loops; 2 components, coefficients to 1 and then 2, 2 candidates per inner solver |
| `idle_loop` | violation: a loop without numeric variables is not noticed | `while(x) x--; while(*);` |
| `summarizer_fw` | Do summaries and contexts cover the executions, do they only improve, does the recursion end? With `--termination`: are verdicts and report right? | 3 functions with 2, 1 and 0 calls over 3 values; conditional and external calls; calls that never return; self-recursion without contexts |
| `ssa` | Do the equations of the unwound SSA describe the executions, is every assertion kept, is the continuation condition exact, are reported non-terminations real and are recurrences found? Is an execution of the processed program one of the source? | 2 variables with 4 values, nondeterministic choices from 2; seven shapes of loops (while, do-while, break and continue, nested, in sequence), all forward flow graphs and loop bodies of four instructions; unwinding 2, for non-termination 3 |
| `bmc_second_loop` | violation: a failing assertion in a second loop is found in no round | one program |
| `ssa_inner_loop` | violation: a name defined in an inner loop has the wrong suffix in a later loop | one program |
| `fw_termination` | violation: a program is reported to terminate although a call hangs | as `summarizer_fw`, with an assertion behind the calls |
| `fw_hanging` | violation: PASS before a call that never returns | as above |

Why the bounds are enough to be interesting:

* Two functions and two goals in one of them are the least for a goal covered by
  a model meant for another, for a spurious model that covers two, and for
  results carried from one function to the next. Formulas range over *all* sets
  of models, so that two is not a restriction on what a function does.
* Four loop-head states with unwinding 3 contain executions longer than the
  windows, windows that start at states no execution reaches, and loops that are
  fully unwound; the windows overlap in every way.
* Three values make a binary search with a non-trivial middle, on both sides of
  zero; the maximum of the row type is reached.
* A chain `main -> f -> g` with a second call of `g` from `main` is the least for
  a summary that is joined from two contexts and for a context computed from the
  summary of an earlier call.

* Two unwindings are the least with a first, a middle and a last copy, and with
  an outer loop whose old copies get new copies of the inner one; two variables
  are the least for a value that outlives another one's change. A recurrence of
  three states needs unwinding three.
* Two components, and paths that need the second one, a coefficient beyond the
  first bounds or a candidate beyond the limit, reach every outcome of `edit_row`;
  one loop that is given up ends the search of another
  that still has candidates. The real bounds are 1, 10 and 511, 5 components and
  50 candidates.
* In the walk, an execution that needs more copies than there are ends as
  `unfinished`; such executions are compared with the equations too.

`CHECK_DEADLOCK FALSE` is used everywhere because every model ends: the analysis
terminates in states without successors. That it does end, and does not stop
halfway, is what `Terminates`, `Stops`, `Answers` and `Summarized` check.

**Fairness.** Each specification has weak fairness of its whole next-state
relation and nothing more, with one exception: in `SSAExecution` it is weak
fairness of the analysis and the construction, because the walk is the program's
and not the analyser's. The code is a sequential loop that takes its next step
when the last one has returned; the solver calls are assumed to return. No
fairness is assumed among alternatives: no model is found eventually, no
heuristic is tried eventually.

**Mutants.** Every property of a passing run is violated when one definition of
the model is changed the way a bug would change the code (`NewGoalMapSharesCover`
and so on, each next to the definition it changes).

## 4. What the runs show

Passing, besides the types:

* `FailIsReal`, `CounterexampleIsReal`: no spurious failure gets through.
* `PassIsProved`, `DecidedStays`: as long as the
  solver does not fail, PASS has been exhausted and nothing is decided twice.
* `CounterexampleFound`, `BaseCase`: covering goals by spurious models loses no
  counterexample; a round that refutes nothing has excluded all violations in its
  unwinding, although it asserts in the last copies only.
* `ProofIsSound`, `PassIsNeverFirstToFail`: k-induction without invariants is
  sound to unwinding 3, with invariants to unwinding 1 on while loops, and in
  competition mode (which gives invariants up at 2) on while loops; abstract
  interpretation on an unwound loop is sound for both kinds of loops.
* `SearchImproves`, `SolversRefine`, `EnumerationIsExact`, `CoversExecutions`.
* `ArgumentIsProof`, `RankingIsFound`, `Answers`: a termination argument proves
  that no loop goes on for ever, although every candidate was fitted to single
  iterations; for one loop the search finds a function of the template if the
  iterations are no more than the candidates it may name; it always ends.
* `SummariesCover`, `ContextsCover`, `SummariesOnlyImprove`, `NoFrameTwice`,
  `PassHoldsIfCallsReturn`: an assertion that passes fails in no execution in
  which the calls of its function return; every call that is made is in a context
  its callee was summarized for, as long as no summary in the database is *false*
  for some argument of its context (`NothingHidden`, see section 6).
* `SSAAgrees`, `SingleAssignment`, `ContinuationExact`: every execution satisfies
  all equations of every round it fits in, no name is defined twice although
  copies are added round by round, and the execution runs out of copies exactly
  if a continuation condition holds, which `is_fully_unwound` relies on.
* `AssertionsKept`, `FailureReported`: in each copy an assertion is checked or
  assumed, and a failing execution is excluded from no round that is the first
  one long enough for it (one loop).
* `RefinesSource`, `AnalysisEnds`: the passes add no behaviour, the data flow ends.
* `NonterminationIsReal`, `NonterminationIsFound`: a recurrence found by renaming
  loop heads is an endless execution of the source; deterministic endless
  executions are found, those of inner loops included.
* `ReportIsSound`, `VerdictsAreSound`, `NeverReturnsIsReal`: the answer
  "terminates" is right although functions are skipped as unreachable, shared
  between contexts and joined; so are the verdicts of the single functions, under
  `NothingHidden` again.

### Findings

1. **k-induction with invariants** (`ssa/ssa_unwinder.cpp:387`): assertions of
   earlier copies are assumed in windows that start at loop-back values, and the
   inferred invariant holds at every (k+1)-th iteration only. The iterations in
   between are assumed good by every window. `x=0; while(x<5){assert(x!=3);x++;}`
   is proved at k=2; do-while loops are affected at k=1.
2. **Solver error** (`2ls/cover_goals_ext.cpp:103`): a failing decision procedure
   leaves goals uncovered, and they are reported as passed.
3. **Calls that never return** (`ssa/ssa_inliner.cpp:92`): the summary *false* of
   the callee makes assertions before the call pass.
4. **Loops without numeric variables** (`domains/lexlinrank_domain.cpp:671`): the
   ranking domain makes no row for a loop that changes no integer or float, and
   the termination argument is the conjunction of the rows there are. Behind a
   loop that counts down, `while(*);`, or a traversal of a list, is reported to
   terminate.
5. **BMC with two loops** (`ssa/ssa_unwinder.cpp:383`): the assertions of all
   copies but the last are assumed, because earlier rounds have checked them. A
   second loop is entered in its copy `%k`; behind a first loop that needs `k`
   unwindings no earlier round has come there. The failure of
   `y=1; while(y!=3) y=y==1?2:3; while(*) assert(y!=3);` is reported in no round.
6. **Names of inner loops** (`ssa/unwindable_local_ssa.cpp:166`): a name defined in
   an inner loop and read in a later loop loses one index of its odometer, not
   all that the later loop does not share, and takes the suffix of that loop's
   copy: `do { while(*) x=1; } while(*); while(*) y=x;`.
7. **Termination report** (`solver/summarizer_fw_term.cpp:171`): calls are looked at
   under all assertions of the function. A hanging call before an assertion that
   always fails is skipped as unreachable, never summarized, and
   `int g() { while(1); } int main() { g(); assert(0); }` "terminates".

## 5. Proofs

All theorems hold for every value of the constants that satisfies the named
assumptions of the modules, which TLC evaluates on every run: `PropertyAssumption`
(finitely many assertions), `CommandLineAssumption` (section 6), `CheckAssumption`
(an assertion belongs to one function), `DriverAssumption` (the inlined function,
a decision procedure that does not fail, templates that can say *true*),
`LoopAssumption` of `UnwoundLoop` (which assertions stand behind the loop),
`TemplateAssumption`, `ProbesAssumption`, `RankingAssumption` (limits are numbers),
`LoopAssumption` of `TerminationArgument` (below), `ProgramAssumption` and
`SummarizerAssumption` (programs are well-formed, there is a value),
`GotoProgramAssumption` and `ExecutionAssumption` (variables are not `$guard` and
the like). Where a theorem needs more, its statement says so.

**InductionLemmas.** The induction theorems of the library take the claim as an
operator. The proofs here take the set of numbers for which a claim fails and its
least element: `LeastNumber` follows from the library's theorem that strict
inclusion of finite sets is well-founded.

**CheckProperties_proofs.** `TypeOK` is inductive. `SearchInv` adds what holds
while a function is checked: goals belong to it and are not passed, the model in
hand satisfies the context and violates a goal asked for, what was not asked for
was covered before. `FailIsReal` follows from it even with a failing solver. The
others need that the solver has not failed: `SettledInv` (what `Settle` lets pass
has no violating model; in the stop-on-fail mode because a found model has
covered a goal) gives `PassIsProved`; that together with `FailSeen` gives
`DecidedStays`; `CounterexampleFound` needs `NothingLost`, the reason why goals
covered by spurious models may be forgotten: the retry under the old question
has shown that no concrete model violates them. The invariants are carried in
the form `~solverFailed => Inv`.

**SummaryCheckers_proofs.** `DriverInv` composes the invariants of the search with
the loop of the driver: between two rounds no search runs and nothing has failed,
otherwise the formula is the one of the unwinding under *some* invariant. From it
follow `CounterexamplesAreReal` and `BoundedLoops`: a model through no loop-back
value is a prefix of an execution; and once all executions fit the unwinding no
model goes on behind it, although something undecided needs such a model
(`DecidesInv`). What passes is carried
from round to round by `RoundInv`: the first `k` iterations violate nothing
(`PathsSafe`), passed assertions are never the first to fail, and the loop-back
values in the formula cover those of the program (`Justified`). This holds only
as long as a round that infers an invariant asserts in every copy, the condition
`InvariantsAreExhaustive` in `PassesAreNeverFirst`, `ProofsAreSound` and
`BaseCases`: for abstract interpretation, for `--havoc`, BMC, k-induction
without invariants, and with them in the rounds in which no copy's assertions are
only assumed. Outside of it the claims are false: finding 1. The reason k-induction
is sound inside is the step from a *window* of k+1 iterations without a violation
to all iterations: the first violation of an execution has its window, at whose
start the loop-back value is admitted.

**StrategySolvers_proofs.** `IterationCovers`: an inductive value bounds the rows
in all executions, because the pairs it allows are closed under the models.
`SolversImplementIteration`: every step of either solver is a step of the
iteration or a stutter. The inductive invariant `SolverInv` says that a row under
search is violated by a model of the current value and that its candidate is
above its bound; the lemma on middles shows that no heuristic can break it.
`SolversCover` composes the two. `EnumerationFindsStrongest` uses monotonicity: a
model admitted now is admitted by every inductive value above.

**TerminationArgument_proofs.** `ArgumentsAreProofs` says that an accepted
argument leaves no execution in a loop for ever. The argument gives a function of
the values at the loop head that decreases lexicographically on every iteration of
the formula. Suppose a set of values is closed under taking a further iteration;
then it has, for some number of components, a part that stays closed while only
these change. Take the least such number: the states of the part at which its most
significant component is least are closed for one component less (`DecreaseEnds`);
and with no component left an iteration would not decrease. That the value of a
linear function changes by the sum of the changes needs the sums of finite
functions (`SumsSubtract`, `SumOfDifference`). The iterations of executions are
iterations of the formula because the invariant the first solver left covers the
executions (`StepsAreAdmitted`, with `ArgumentsCover` and
`ArgumentsRefineIteration`). `LoopAssumption` relates iterations to executions:
there are finitely many, an iteration that execution can take next is one of the
formula, and it ends where another can start. The hypothesis that every loop has a
row (`Templ = DOMAIN variables`) is the one finding 4 shows to be missing.
`RankingsAreFound` needs no hypothesis: by `FoundInv` all constraints told to the
inner solver come from iterations and are satisfied by every ranking function of
the template; the answers are never more than the constraints, so as long as the
limit is not below the number of different constraints it cannot give up first.
The row of a loop with a ranking function never becomes *true*.

**SummarizerFw_proofs.** That summaries cover all executions is not inductive by
itself. `BodiesClosed` is: a model that satisfies the transformers of its callees
is in the transformer of its function. A new summary preserves it because
transformers only shrink (`StepImproves`), so what satisfies them later satisfied
them before. Executions are then covered as they are found. This includes
recursion. `PassesAreSoundForReturningCalls` needs `WholeContexts`: without the
option context-sensitive every precondition is true.

`ContextsAreCovered`: calls that were skipped, or judged by an older summary, lose
no context. `ContextsInv` says that for every function summarized, and for the
sites already passed in the frames on the stack, a call that an execution can
make is in the precondition of its callee; a join later only adds. It is stated
under `NothingHidden` and for programs in which no function calls itself if
contexts are told apart (`OpenProgram`): the call a function makes of itself is
not followed, so its context is recorded nowhere. Nothing is asked of the
assertions, as this summarizer does not assume them. With --termination they are
assumed, and a failing assertion may hide the calls behind it: in
`int main() { assert(0); f(); }` the function `f` is never summarized.
`AnalysedContexts` therefore needs `CallsShown`: assertions stand before the calls
(`AssertionsFirst`), and a call made in spite of a failure is also made, behind the
same calls, without one (`HidesNoCall`); then it is found reachable, and without
contexts its callee is summarized for all arguments. Where contexts are told apart
the argument would still be lost, and a function must make no call when its
assertion fails (`FailsWithoutCalls`). The programs `summarizer_fw` analyses so, in
which assertions do fail, satisfy this, which TLC evaluates (`AssertionsShowCalls` in
`MCSummarizerFw`). `FramesDiffer` (`NoFrameTwice`) needs a rank by which calls descend, self calls
aside where contexts are not told apart (`CallsDescend`); without it, it is false
(section 6). Both are proved of `AnyStep`, which both summarizers refine.

**SummarizerTerm_proofs.** The theorems on summaries hold for the termination
summarizer too (`AnalysisTypes`, `AnalysisCovers`, `AnalysisImproves`,
`AnalysisPassesHold`, `AnalysedContexts`, `AnalysisFrames`), since its steps are
steps of `AnyStep`. `NeverIsReal` needs no hypothesis: NO is given when the end of
the function is unreachable under transformers that cover all returns, and later
summaries only add contexts. For YES, an execution that does not end has a call
that does not end, in a callee that is said to terminate: the set `Good` is the
greatest set of functions with arguments such that all calls made from it stay in
it and loops end. `VerdictInv` says that a function with YES is in it with all
arguments of its precondition, and that the calls a frame has passed are.
Induction on the rank of functions gives `VerdictsSound`, for programs without
recursion (`NoRecursion`) whose assertions stand before their calls
(`AssertionsFirst`): failing assertions hide calls, and so do *false* summaries.
`ReportSound` has no such clause but needs that there are no assertions
(`NoAssertions`): a function that ends may fail on all its executions, and then its
summary is *false* and hides the calls of its callers. Without assertions a
function returns something as soon as its callees do, so if all verdicts are YES
no summary is *false* (`PassHidesNothing`, by the least rank), and `VerdictInv` applies.

**SSAExecution_proofs.** `NamesAreDefinedOnce` is about the nodes of all rounds,
for every nesting of loops and every mode. The equations of round `k` are copies
of a location, entries of a loop head, connectors to the next copy, or merges
behind a loop. The first three define names with an odometer as long as their
location is deep, the merges shorter ones, and copies, entries and connectors
are told apart by their location and last index (`RoundDefinesOnce`). A new round
defines no name of an older one: every odometer it uses has the index `k`
somewhere, except the connector out of the last copy, which defines the head of
copy `k-1`; that is why `OldName` excludes it, and why the head of a loop may be
enabled for its own round only (`RoundIsNew`). Two loops that merge the same name
are the same because loops nest (`SameDepth`). `ExecutionTypes` says that a walk
has an index between 0 and the last round for every loop it is in: there is
exactly one loop at every depth (`LoopAtIs`, by the pigeonhole principle).

`ContinuationsAreExact` follows the walk: the guard of the block it is in has been
found true, and no backward goto was taken in a last copy (`CopiesInv`). A loop is
left through merges, and these leave the names of copies alone (`WithMergesKeeps`),
because the merged names are shorter. So a condition holds at the end exactly if
the walk stands at a backward goto it takes in the copy with index 0.

`GuardsFollowTheExecution` is the half of `SSAAgrees` that is about control:
whatever the rounds, modes and nesting, the equations of the guards hold of an
execution when it has returned, is blocked or has run out of copies. Its invariant
(`WalkedSoFar`) is about the order of the walk. Location `m` in copy `p` comes
before `l` in copy `o` if the outermost loop around both in which the copies
differ has the higher index on the left, or there is none and `m < l` (`Earlier`,
transitive by `BeforeTransitive`). Every name with a value lies before the walk,
merges behind the loop they belong to (`NamesPlaced`); so an equation evaluated
now is not disturbed by names that are yet to come (`NotYet`). A way whose literals
hold has been followed (`Followed`), whoever has been reached came by such a way
(`AllCame`), and what is merged for an exit is what a copy was left with
(`MergedExits`). At the end these are the two directions of the equation of every
guard: of a location outside of the loops, of a copy, of the entry of a round, of a
connector. `EquationsInv` says that there are no other equations of guards. The
theorem needs `JumpsOK`: a jump enters a loop at its head and leaves one loop at a
time; for jumps out of two loops it is false (section 6).

All take `Structured`, and `ExecutionTypes` and `GuardsFollowTheExecution` also
`JumpsOK`, for granted, which the run checks for its functions: that the passes,
which are folds over the instructions, produce them is an induction over data.

Only model-checked:

* liveness (`Terminates`, `Stops`, `Answers`, `Summarized`, `AnalysisEnds`), which
  rests on fairness;
* `SSAAgrees` as far as it is about the values of variables, `AssertionsKept`,
  `FailureReported`: they rest on the definitions the data-flow analysis finds, and
  that those are right depends on the order in which it visits the locations;
* `RefinesSource`: the mapping goes through the passes;
* `NonterminationIsReal`, `NonterminationIsFound`: `SummaryCheckerNonterm` has a
  recursive operator, which the provers do not handle.

## 6. Abstractions and what is not modelled

* The decision procedure is exact except where it is modelled to fail; arithmetic
  of the C types enters through the values of rows and their greatest value only.
* `mark_recompute` is not modelled: `SummarizerFw` is one summarization pass; the
  drivers recompute one function at each round from nothing, which is the same
  for an inlined program.
* The SSA has scalar variables: no expressions through pointers, arrays and
  dynamic objects (`assign_rec`, `ssa_dereference`), no simplifier. A condition
  is a set of values of one variable.
* Two loops with the same head are one loop for the unwinder, which finds them by
  their head (`ssa_unwinder.cpp:43`); `split_loopheads` separates conditional ones
  only. The programs have none. A jump out of two loops at once is recorded for
  the inner one only (`ssa_unwinder.cpp:143`), and the names of the outer loop are
  then merged by its other exits: `SSAAgrees` does not hold for such programs, and
  none is in the run.
* The names merged at an exit are those of the objects with a phi at the loop head
  (`ssa_unwinder.cpp:106`, `:149`). An object that is assigned on the way out of
  the loop only, as in `while(*) { if(*) { x = 1; break; } } y = x;`, has no such
  phi, and behind the loop its name is read without the suffix of a copy, where no
  equation defines it. Of such programs `SSAAgrees` does not hold, and none is in
  the run; `GuardsAgree` speaks of guards and is not affected.
* Of the non-termination checker, `check_nonterm_linear` (tried at unwinding 51
  only) and the property map of several functions, cleared for each.
* Of the termination summarizer, the early return in competition mode. A
  function that never returns gets the summary *false*, which removes its
  conditional call from the models of functions analysed later (comment at
  `summarizer_fw_term.cpp:199`), and with it the calls behind it and their
  contexts; `VerdictsAreSound` and `ContextsCover` are stated for databases without
  such summaries (`NothingHidden`). A function that does nothing but call itself has no loop and
  no summary of itself to ask, and counts as terminating; the termination runs
  have no recursion.
* `SummarizerTerm` assumes that a ranking function is found only for loops that
  end; `ArgumentIsProof` discharges this for loops that have a row, finding 4 is
  about the others. In the composition the loops contain no assertions, which the
  code takes as assumptions, and differences are exact, because the code extends
  the types (`extend_expr_types`). Several loops share the inner solver: one
  loop without a solution makes another one widen or give up, so that
  `RankingIsFound` is stated for one loop. The monolithic domain
  (`linrank_domain.cpp`) is not modelled.
* The middle between two bounds is rounded towards zero, as in the code, also for
  negative sums (`Mean`). Of the hoisted assertions those on overflow, which the
  competition mode adds, are left out (`Hoisted`). The assumptions in
  `FailureReported` are evaluated with all loop selects false, where the code leaves
  those of older copies open: this only makes the property stronger.
* With both `--k-induction` and `--incremental-bmc` no driver is selected by
  `doit()`; `CommandLineAssumption` excludes it. The unwinding limit is always
  given, because the default is the greatest unsigned number.
* Only the domains *intervals* and *zones* are named; further domains are other
  templates.
* Components with status `not_modelled` in `PROJECT.json` and the reason there.

Read from the code while deciding what to model, but not checked by a run:

* The test for recursion (`solver/summarizer_base.cpp:267`) compares caller and
  callee only: two functions that call each other are summarized without end.
  `NoFrameTwice` fails for such programs; the run has programs in which a function
  calls itself.
* `check_postcondition` (`solver/summarizer_bw.cpp:340`) opens a context on the
  solver of the function and returns without closing it; the backward recursion
  has no test for recursion; `get_summary` binds the globals of a backward summary
  before and after the call.
* The equality domain closes the equalities it has found transitively when it
  projects them on variables, although two of them may have been shown under
  different guards.
* `linrank_domain.cpp` takes the values of the first row for all rows when it
  builds the post constraints, and `number_inner_iterations` is compared but never
  incremented.
* Custom templates return before they are instantiated
  (`template_generator_base.cpp:450`); the option for symbolic paths is declared in
  the help text and set nowhere, so that this domain cannot be reached from the
  command line; `predabs_domaint` reports that it has something to solve when it has
  not.

## 7. Plan

Done: property checking, drivers, strategy iteration, forward summarizer,
SSA construction and unwinder, non-termination checker, forward termination
summarizer, lexicographic ranking functions. In this order next:

1. `SummarizerBw`: preconditions, the contexts `check_postcondition` opens, the
   report of preconditions.
2. `IncrementalSolver`: contexts, activation literals, and the clients' use of
   them; refines the exact solver assumed so far. Theorem: contexts are balanced.
3. Equalities and products; monolithic ranking functions; binary search over sums
   of rows; arrays.
4. `GotoUnwinder` beside `SSAUnwinder`.
5. The data-flow analyses of `src/ssa` as pure operators against a reference.
6. Proofs: that the passes keep the structure (`Structured`), as far as it goes
   without induction over data; `ContinuationExact` for a single loop; the
   non-termination checker with its reference as a greatest set.
