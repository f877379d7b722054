-------------------------- MODULE TerminationArgument --------------------------
(***************************************************************************)
(* What the termination summarizer does for a function with loops: first   *)
(* do_summary has a strategy solver infer the invariant of the loops, then *)
(* do_termination looks for ranking functions, on the iterations that the  *)
(* invariant leaves possible.                                              *)
(***************************************************************************)
EXTENDS TemplateSolvers, LexLinRankDomain, FiniteSets

CONSTANTS
    Loops(_),      \* for each formula the rows that stand for the numeric
                \* variables of its loops: [loop -> SUBSET Row]
    Iterations(_)  \* and the iterations of the loops among its models:
                \* [model, loop, entered, pre, post]

(* What model m starts from: inputs, values the executions have, and what  *)
(* model e ends with.                                                      *)
Known(S, m) == \A r \in m.on : r \in InRow \/ <<r, m.at[r]>> \in TakenIn(S)
Continues(S, m, e) ==
    \A r \in m.on :
        r \in InRow \/ <<r, m.at[r]>> \in TakenIn(S) \/ (r \in e.off /\ m.at[r] = e.to[r])

SameStep(i, j) == i.loop = j.loop /\ i.pre = j.pre /\ i.post = j.post

(* What the models say of the iterations: a loop is entered from an        *)
(* execution, and where one iteration ends another one can start; it does  *)
(* what any iteration from the same values does.                           *)
ASSUME LoopAssumption ==
    \A S \in Systems :
        /\ \A l \in DOMAIN Loops(S) : Loops(S)[l] \subseteq Row
        /\ IsFiniteSet(DOMAIN Loops(S)) /\ IsFiniteSet(Iterations(S))
        /\ \A i \in Iterations(S) :
            /\ i.model \in S /\ i.loop \in DOMAIN Loops(S)
            /\ i.pre \in [Loops(S)[i.loop] -> Value] /\ i.post \in [Loops(S)[i.loop] -> Value]
            /\ i.entered => Known(S, i.model)
        /\ \A i, j \in Iterations(S) : i.loop = j.loop =>
            /\ i.entered /\ i.pre = j.pre =>
                \E k \in Iterations(S) : k.entered /\ SameStep(k, j)
            /\ i.post = j.pre =>
                \E k \in Iterations(S) : Continues(S, k.model, i.model) /\ SameStep(k, j)

argumentVars == <<solverVars, rankVars>>

ArgumentInit ==
    /\ SolverInit
    /\ variables = Loops(ssa)
    /\ RankInit

DoSummary == SolverNext /\ UNCHANGED rankVars

(* The models of the formula with the invariant and with the negated       *)
(* condition of a row; a path comes to the end of one loop only.           *)
Admitted(i) == Pre(inv, i.model)
NotRanked == {i \in Iterations(ssa) : i.loop \in Templ /\ Admitted(i) /\ NotDecreasing(i)}

IterateRanking ==
    /\ done /\ ~answered
    /\ IF NotRanked = {} THEN RankingFound ELSE \E i \in NotRanked : EditRow(i)
    /\ UNCHANGED <<solverVars, variables>>

ArgumentNext == DoSummary \/ IterateRanking

ArgumentSpec == ArgumentInit /\ [][ArgumentNext]_argumentVars /\ WF_argumentVars(ArgumentNext)

-----------------------------------------------------------------------------
(* The values of the variables at the head of loop l in executions: those  *)
(* it is entered with, and those an iteration from such values ends with.  *)
Of(l) == {i \in Iterations(ssa) : i.loop = l}
HeadValues(l) == {i.pre : i \in Of(l)} \cup {i.post : i \in Of(l)}
ClosedAtHead(l, P) ==
    \A i \in Of(l) : (i.entered => i.pre \in P) /\ (i.pre \in P => i.post \in P)

AtHead(l) == {v \in HeadValues(l) : \A P \in SUBSET HeadValues(l) : ClosedAtHead(l, P) => v \in P}

(* An execution can stay in the loop: from each of the values an iteration *)
(* leads to one of them.                                                   *)
Endless(l) ==
    \E V \in (SUBSET AtHead(l)) \ {{}} :
        \A v \in V : \E i \in Of(l) : i.pre = v /\ i.post \in V

(* When the summarizer takes the termination argument as a proof, no       *)
(* execution stays in a loop for ever, although the candidate was only     *)
(* ever fitted to single iterations, under an invariant that another       *)
(* solver left, and the inner solver was replaced in between               *)
(* (summarizer_fw_term.cpp, check_termination_argument).                   *)
ArgumentIsProof ==
    (answered /\ ArgumentVerdict = "YES") => \A l \in DOMAIN variables : ~Endless(l)

Differences == {Difference(i) : i \in {i \in Iterations(ssa) : i.loop \in Templ /\ Admitted(i)}}

Rankable(l) ==
    \E c \in Coefficients(l, MaxElements, CoeffBound[MaxRefinement]) :
        \A d \in Differences : Decreases(c, MaxElements, d)

(* With a single loop the search misses no ranking function of the         *)
(* template, whatever iterations and candidates the solvers name, as long  *)
(* as the iterations it may see are no more than the inner ones it makes.  *)
RankingIsFound ==
    answered /\ Cardinality(DOMAIN variables) = 1 /\ Cardinality(Differences) <= MaxIterations =>
        \A l \in Templ : Rankable(l) => ArgumentVerdict = "YES"

(* Both searches end.                                                      *)
Answers == <>answered
=============================================================================
