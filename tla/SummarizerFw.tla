----------------------------- MODULE SummarizerFw -----------------------------
(***************************************************************************)
(* The function-modular forward analysis, summarizer_fwt with              *)
(* summary_dbt: compute_summary_rec summarizes a function after the        *)
(* functions it calls, going down a call only when the callee has no       *)
(* summary that covers the call's context.                                 *)
(*                                                                         *)
(* The stack of compute_summary_rec is explicit: a frame is a function,    *)
(* the precondition (calling context) it is summarized under, and the next *)
(* of its calls that inline_summaries has to look at.  The solver and the  *)
(* abstract domain are exact: a query is a quantifier over the models of   *)
(* the SSA, a strategy iteration returns the least element of the          *)
(* template.                                                               *)
(***************************************************************************)
EXTENDS CallingProgram, ParseOptions

CONSTANTS
    Programs,           \* for every command line, the programs to analyse
    ContextShape,       \* for every domain, the sets of arguments and
    TransformerShape    \* the relations of argument and result it describes

Anything == Value \X Value

ASSUME SummarizerAssumption ==
    /\ \A c \in CommandLines : \A P \in Programs[c] : IsProgram(P)
    /\ \A d \in {"intervals", "zones"} :
        /\ ContextShape[d] \subseteq SUBSET Value
        /\ TransformerShape[d] \subseteq SUBSET Anything

VARIABLES
    prog,       \* the program (does not change)
    returned,   \* its executions (CallingProgram), explored after the analysis
    called,
    db,         \* summary_db: function -> summary, for the functions that have one
    todo,       \* the functions summarize() has still to look at
    stack,      \* the calls of compute_summary_rec, the innermost last
    phase       \* summarize() runs; the executions are explored; they are known

vars == <<cmdline, prog, returned, called, db, todo, stack, phase>>
programVars == <<cmdline, prog, returned, called>>

Summary == [pre : SUBSET Value, trans : SUBSET Anything]

-----------------------------------------------------------------------------
(* get_summaries: the calls in I of m satisfy the transformers at hand;    *)
(* nothing is known of a callee without a summary.                         *)
SummariesHoldClosed(b, m, I) ==
    \A i \in I : Taken(b, m, i) =>
        /\ b.site[i].callee \in DOMAIN db
        /\ <<Argument(b, m, i), m.ret[i]>> \in db[b.site[i].callee].trans
SummariesHold(b, m, I) ==
    \A i \in I : Taken(b, m, i) /\ b.site[i].callee \in DOMAIN db =>
        <<Argument(b, m, i), m.ret[i]>> \in db[b.site[i].callee].trans

(* The models of f under a precondition and the summaries of its callees.  *)
Context(f, pre) ==
    {m \in Models(prog[f]) : m.arg \in pre /\ SummariesHold(prog[f], m, 1..prog[f].n)}

(* What a strategy iteration ends with: the least element of the template  *)
(* domain above S (one of the minimal ones, should there be several).      *)
Above(Shape, S) == {T \in Shape : S \subseteq T}
Least(Shape, S) == {T \in Above(Shape, S) : \A U \in Above(Shape, S) : U \subseteq T => U = T}

-----------------------------------------------------------------------------
Init ==
    /\ cmdline \in CommandLines
    /\ prog \in Programs[cmdline]
    /\ returned = {} /\ called = {}
    /\ db = [f \in {} |-> {}]
    /\ todo = IF AllFunctions /\ ~ContextSensitive THEN Fun ELSE {Entry}
    /\ stack = <<>>
    /\ phase = "summarize"

(* summarize(): the next function, unless there is a summary already.      *)
Summarize ==
    /\ phase = "summarize" /\ stack = <<>>
    /\ \E f \in todo :
        /\ todo' = todo \ {f}
        /\ stack' = IF f \in DOMAIN db THEN <<>> ELSE <<[fun |-> f, pre |-> Value, site |-> 1]>>
    /\ UNCHANGED <<programVars, db, phase>>

Top == stack[Len(stack)]
Body == prog[Top.fun]
Callee == Body.site[Top.site].callee

NextCallRepeated == stack
NextCall == [stack EXCEPT ![Len(stack)].site = @ + 1]

(* check_call_reachable, under all the summaries there are.                *)
CallReachable == {m \in Context(Top.fun, Top.pre) : Taken(Body, m, Top.site)} # {}

(* check_precondition: the summary of the callee covers the call, or there *)
(* is nothing to summarize, or the call is recursive and left open.        *)
PreconditionHoldsNoBody ==
    IF Callee \in DOMAIN db
    THEN ~ContextSensitive \/
         \A m \in Context(Top.fun, Top.pre) : Argument(Body, m, Top.site) \in db[Callee].pre
    ELSE Callee = Top.fun
PreconditionHoldsRecursive ==
    IF Callee \in DOMAIN db
    THEN ~ContextSensitive \/
         \A m \in Context(Top.fun, Top.pre) : Argument(Body, m, Top.site) \in db[Callee].pre
    ELSE Callee \in External
PreconditionHolds ==
    IF Callee \in DOMAIN db
    THEN ~ContextSensitive \/
         \A m \in Context(Top.fun, Top.pre) : Argument(Body, m, Top.site) \in db[Callee].pre
    ELSE Callee \in External \/ Callee = Top.fun

(* compute_calling_context: the arguments of the call in the models that   *)
(* satisfy the summaries of the calls before it.                           *)
ArgumentsAt(i) ==
    {Argument(Body, m, i) : m \in {m \in Models(prog[Top.fun]) :
        m.arg \in Top.pre /\ SummariesHold(prog[Top.fun], m, 1..(i - 1)) /\ Taken(Body, m, i)}}

CallingContext ==
    IF ContextSensitive THEN Least(ContextShape[ValueDomain], ArgumentsAt(Top.site)) ELSE {Value}

InlineSummaries == phase = "summarize" /\ stack # <<>> /\ Top.site <= Body.n

SkipCall ==
    /\ InlineSummaries
    /\ ~CallReachable
    /\ stack' = NextCall
    /\ UNCHANGED <<programVars, db, todo, phase>>

UseSummary ==
    /\ InlineSummaries
    /\ CallReachable /\ PreconditionHolds
    /\ stack' = NextCall
    /\ UNCHANGED <<programVars, db, todo, phase>>

(* The call continues behind the recursive compute_summary_rec.            *)
SummarizeCallee ==
    /\ InlineSummaries
    /\ CallReachable /\ ~PreconditionHolds
    /\ \E pre \in CallingContext :
        stack' = Append(NextCall, [fun |-> Callee, pre |-> pre, site |-> 1])
    /\ UNCHANGED <<programVars, db, todo, phase>>

(* do_summary: what the function returns in its context, weakened to an    *)
(* implication from the precondition; the entry point has no template for  *)
(* arguments and results.                                                  *)
Transition(b, m) == {m.arg} \X Results(b, m)

Transitions == UNION {Transition(Body, m) : m \in Context(Top.fun, Top.pre)}

Templates(f) == IF f = Entry THEN {Anything} ELSE TransformerShape[ValueDomain]

UnderUnguarded(pre, T) == T
Under(pre, T) == {t \in Anything : t[1] \in pre => t \in T}

(* summaryt::join.                                                         *)
JoinKeepsTransformer(s, t) == [pre |-> s.pre \cup t.pre, trans |-> t.trans]
JoinNarrows(s, t) == [pre |-> t.pre, trans |-> s.trans \cap t.trans]
Join(s, t) == [pre |-> s.pre \cup t.pre, trans |-> s.trans \cap t.trans]

(* summary_dbt::put: a second summary is joined to the first.              *)
Put(f, s) ==
    [g \in DOMAIN db \cup {f} |->
        IF g # f THEN db[g] ELSE IF f \in DOMAIN db THEN Join(db[f], s) ELSE s]

ComputeSummary ==
    /\ phase = "summarize" /\ stack # <<>> /\ Top.site > Body.n
    /\ \E T \in Least(Templates(Top.fun), Transitions) :
        db' = Put(Top.fun, [pre |-> Top.pre, trans |-> Under(Top.pre, T)])
    /\ stack' = SubSeq(stack, 1, Len(stack) - 1)
    /\ UNCHANGED <<programVars, todo, phase>>

Finish ==
    /\ phase = "summarize" /\ stack = <<>> /\ todo = {}
    /\ phase' = "explore"
    /\ UNCHANGED <<programVars, db, todo, stack>>

(* The executions of the program, to compare the analysis with.            *)
Explore ==
    /\ phase = "explore"
    /\ returned' = returned \cup ReturnsFound(prog, returned)
    /\ called' = called \cup CallsFound(prog, called, returned)
    /\ phase' = IF returned' = returned /\ called' = called THEN "done" ELSE "explore"
    /\ UNCHANGED <<cmdline, prog, db, todo, stack>>

SummarizerNext ==
    \/ Summarize
    \/ SkipCall
    \/ UseSummary
    \/ SummarizeCallee
    \/ ComputeSummary
    \/ Finish
    \/ Explore

SummarizerSpec == Init /\ [][SummarizerNext]_vars /\ WF_vars(SummarizerNext)

(* check_properties on f: no model of its SSA under the precondition and   *)
(* the summaries violates the assertion.                                   *)
Passes(f) ==
    \A m \in Context(f, IF f \in DOMAIN db THEN db[f].pre ELSE Value) : ~Fails(prog[f], m)

-----------------------------------------------------------------------------
(* The types of the variables.                                             *)
SummarizerTypeOK ==
    /\ cmdline \in CommandLines
    /\ IsProgram(prog)
    /\ returned \subseteq Fun \X Value \X Value
    /\ called \subseteq (Fun \cup External) \X Value
    /\ DOMAIN db \subseteq Fun
    /\ \A f \in DOMAIN db : db[f] \in Summary
    /\ todo \subseteq Fun
    /\ stack \in Seq([fun : Fun, pre : SUBSET Value, site : Nat \ {0}])
    /\ phase \in {"summarize", "explore", "done"}

(* A summary over-approximates its function for every argument, those      *)
(* outside its precondition included, however many contexts were joined in *)
(* whatever order and whatever the callees' summaries were at the time.    *)
SummariesCover ==
    \A f \in DOMAIN db : \A r \in returned :
        r[1] = f => <<r[2], r[3]>> \in db[f].trans

(* No summary says that its function returns from none of its contexts.    *)
NothingHidden ==
    \A g \in DOMAIN db : \A x \in db[g].pre : \E y \in Value : <<x, y>> \in db[g].trans

(* Every function that is called has a summary, and its precondition       *)
(* over-approximates the contexts of the calls (summary.h, "accumulated    *)
(* calling contexts"): none is lost among the calls that were skipped or   *)
(* judged by an older summary.  A summary that says false hides calls.     *)
ContextsCover ==
    (phase = "done" /\ NothingHidden) =>
        \A c \in called : c[1] \in Fun => c[1] \in DOMAIN db /\ c[2] \in db[c[1]].pre

(* An assertion that passes under the summaries fails in no execution.     *)
PassIsSound ==
    phase = "done" =>
        \A f \in Fun : Passes(f) => ~Violated(prog, called, returned, f)

(* An assertion that passes fails in no execution in which the calls of    *)
(* its function all return.                                                *)
PassHoldsIfCallsReturn ==
    phase = "done" =>
        \A f \in Fun : Passes(f) =>
            \A m \in Returning(prog, returned, f) :
                <<f, m.arg>> \in called => ~Fails(prog[f], m)

(* A summary is only ever made to cover more contexts, and then says at    *)
(* least as much about the function as before: what a caller has concluded *)
(* from the older one stays valid.                                         *)
SummariesOnlyImprove ==
    [][\A f \in DOMAIN db :
        /\ f \in DOMAIN db'
        /\ db[f].pre \subseteq db'[f].pre
        /\ db'[f].trans \subseteq db[f].trans]_vars

(* No function is summarized again, in the same context, while it is being *)
(* summarized: the recursion of compute_summary_rec has an end.            *)
NoFrameTwice ==
    \A i, j \in DOMAIN stack :
        i < j => stack[i].fun # stack[j].fun \/ stack[i].pre # stack[j].pre

(* The analysis ends.                                                      *)
Summarized == <>(phase = "done")
=============================================================================
