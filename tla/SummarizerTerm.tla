---------------------------- MODULE SummarizerTerm ----------------------------
(***************************************************************************)
(* The forward analysis with --termination, summarizer_fw_termt: besides   *)
(* its summary a function gets a verdict, whether it terminates, from its  *)
(* loops and the verdicts of the functions it calls; report_termination    *)
(* puts the verdicts together.                                             *)
(*                                                                         *)
(* Where a function never ends (ends[value] = {}), it is in a loop behind  *)
(* its calls.  The synthesis of a ranking function may fail for a loop     *)
(* that terminates, but finds none for a loop that does not.               *)
(***************************************************************************)
EXTENDS SummarizerFw

VARIABLES
    loopy,      \* the functions with a loop (does not change)
    verdict,    \* summaryt::terminates of the summaries in db
    notes       \* has_function_calls and calls_terminate, for every frame

termVars == <<vars, loopy, verdict, notes>>

Fresh == [found |-> FALSE, calls |-> "YES"]

HasLoop(P, f) == \E x \in Value : P[f].ends[x] = {}

TermInit ==
    /\ Init
    /\ loopy \in {L \in SUBSET Fun : {f \in Fun : HasLoop(prog, f)} \subseteq L}
    /\ ~Termination => loopy = {f \in Fun : HasLoop(prog, f)}
    /\ verdict = [f \in {} |-> ""]
    /\ notes = <<>>

-----------------------------------------------------------------------------
(* inline_summaries.  The assertions of the function are assumed.          *)
Assumed == {m \in Context(Top.fun, Top.pre) : ~Fails(Body, m)}

TermCallReachable == {m \in Assumed : Taken(Body, m, Top.site)} # {}

TermPreconditionHolds ==
    IF Callee \in DOMAIN db
    THEN ~ContextSensitive \/ \A m \in Assumed : Argument(Body, m, Top.site) \in db[Callee].pre
    ELSE Callee \in External \/ Callee = Top.fun

TermArgumentsAt(i) ==
    {Argument(Body, m, i) : m \in {m \in Models(Body) :
        m.arg \in Top.pre /\ ~Fails(Body, m) /\ SummariesHold(Body, m, 1..(i - 1)) /\ Taken(Body, m, i)}}

TermCallingContext ==
    IF ContextSensitive THEN Least(ContextShape[ValueDomain], TermArgumentsAt(Top.site)) ELSE {Value}

(* What is noted of a call to g, when the verdicts are V.                  *)
NotedOnlyNo(note, g, V) ==
    IF g \in DOMAIN V /\ V[g] = "NO" THEN [note EXCEPT !.calls = "UNKNOWN"] ELSE note
Noted(note, g, V) ==
    IF g \in DOMAIN V /\ V[g] # "YES" THEN [note EXCEPT !.calls = "UNKNOWN"] ELSE note

Found == [notes EXCEPT ![Len(notes)].found = TRUE]

TermSummarize ==
    /\ Summarize
    /\ notes' = [i \in DOMAIN stack' |-> Fresh]
    /\ UNCHANGED <<loopy, verdict>>

TermSkipCall ==
    /\ InlineSummaries
    /\ ~TermCallReachable
    /\ stack' = NextCall
    /\ UNCHANGED <<programVars, db, todo, phase, loopy, verdict, notes>>

TermUseSummary ==
    /\ InlineSummaries
    /\ TermCallReachable /\ TermPreconditionHolds
    /\ stack' = NextCall
    /\ notes' = [Found EXCEPT ![Len(notes)] = Noted(@, Callee, verdict)]
    /\ UNCHANGED <<programVars, db, todo, phase, loopy, verdict>>

TermSummarizeCallee ==
    /\ InlineSummaries
    /\ TermCallReachable /\ ~TermPreconditionHolds
    /\ \E pre \in TermCallingContext :
        stack' = Append(NextCall, [fun |-> Callee, pre |-> pre, site |-> 1])
    /\ notes' = Append(Found, Fresh)
    /\ UNCHANGED <<programVars, db, todo, phase, loopy, verdict>>

-----------------------------------------------------------------------------
(* do_nontermination, for a function without a summary: is its end         *)
(* reachable?  The invariants of its loops may be too weak to tell, and    *)
(* then the transformer says nothing either.                               *)
EndsIn(M) == \E m \in M : Results(Body, m) # {}
EndReachableIfPassed ==
    IF EndsIn(Assumed) THEN {TRUE} ELSE IF Top.fun \in loopy THEN BOOLEAN ELSE {FALSE}
EndReachable ==
    IF EndsIn(Context(Top.fun, Top.pre)) THEN {TRUE}
    ELSE IF Top.fun \in loopy THEN BOOLEAN ELSE {FALSE}

ComputedTransformers ==
    IF EndsIn(Context(Top.fun, Top.pre)) \/ Top.fun \in DOMAIN db
    THEN Least(Templates(Top.fun), Transitions) ELSE {Anything}

(* do_termination.                                                         *)
RankingFoundForSome ==
    IF \A m \in Assumed : Results(Body, m) = {} THEN {"UNKNOWN"} ELSE {"YES", "UNKNOWN"}
RankingFound ==
    IF \E m \in Assumed : Results(Body, m) = {} THEN {"UNKNOWN"} ELSE {"YES", "UNKNOWN"}

(* What calls and loops say of the function of the frame.                  *)
TermVerdicts ==
    LET note == notes[Len(notes)] IN
    IF note.found /\ note.calls # "YES" THEN {note.calls}
    ELSE IF Top.fun \in loopy THEN RankingFound ELSE {"YES"}

(* summaryt::join, put.                                                    *)
JoinVerdicts(old, new) ==
    CASE new = "YES" -> old
      [] new = "NO" -> "NO"
      [] new = "UNKNOWN" -> IF old = "NO" THEN "NO" ELSE "UNKNOWN"

PutVerdict(f, v) ==
    [g \in DOMAIN db \cup {f} |->
        IF g # f THEN verdict[g] ELSE IF f \in DOMAIN db THEN JoinVerdicts(verdict[f], v) ELSE v]

(* The summary is stored; back in the caller, the verdict is noted.        *)
Store(T, v) ==
    /\ db' = Put(Top.fun, [pre |-> Top.pre, trans |-> Under(Top.pre, T)])
    /\ verdict' = PutVerdict(Top.fun, v)
    /\ stack' = SubSeq(stack, 1, Len(stack) - 1)
    /\ notes' = [i \in 1..(Len(notes) - 1) |->
                    IF i = Len(notes) - 1 THEN Noted(notes[i], Top.fun, verdict') ELSE notes[i]]
    /\ UNCHANGED <<programVars, todo, phase, loopy>>

AtEnd == phase = "summarize" /\ stack # <<>> /\ Top.site > Body.n

(* It never returns: its transformer is false.                             *)
NeverReturns ==
    /\ AtEnd
    /\ Top.fun \notin DOMAIN db /\ FALSE \in EndReachable
    /\ Store({}, "NO")

MayReturn ==
    /\ AtEnd
    /\ ~(Top.fun \notin DOMAIN db /\ TRUE \notin EndReachable)
    /\ \E T \in ComputedTransformers, v \in TermVerdicts : Store(T, v)

-----------------------------------------------------------------------------
TermFinish == Finish /\ UNCHANGED <<loopy, verdict, notes>>
TermExplore == Explore /\ UNCHANGED <<loopy, verdict, notes>>

TermNext ==
    \/ TermSummarize
    \/ TermSkipCall \/ TermUseSummary \/ TermSummarizeCallee
    \/ NeverReturns \/ MayReturn
    \/ TermFinish
    \/ TermExplore

(* The option selects the summarizer.                                      *)
AnalysisNext ==
    IF Termination THEN TermNext
    ELSE SummarizerNext /\ UNCHANGED <<loopy, verdict, notes>>

AnalysisSpec == TermInit /\ [][AnalysisNext]_termVars /\ WF_termVars(AnalysisNext)

(* report_termination.  A function without a summary counts as             *)
(* terminating; FAIL is left to the non-termination checker.               *)
ReportTermination ==
    IF DOMAIN db # {} /\ \A f \in DOMAIN db : verdict[f] = "YES" THEN "PASS" ELSE "UNKNOWN"

-----------------------------------------------------------------------------
(* The executions that do not end.  An execution of f along the model m    *)
(* that has come to call i (or to the end, n + 1) and failed no assertion. *)
ComesTo(f, m, i) ==
    /\ Runs(returned, prog[f], m, i - 1)
    /\ prog[f].place < i => ~Fails(prog[f], m)

(* f does not end on x, given the pairs in S that do not.                  *)
LoopsForever(f, x) ==
    \E m \in Models(prog[f]) :
        m.arg = x /\ ComesTo(f, m, prog[f].n + 1) /\ Results(prog[f], m) = {}
CallsForever(f, x, S) ==
    {prog[f].site[i].callee : i \in {i \in 1..prog[f].n : \E m \in Models(prog[f]) :
        /\ m.arg = x /\ ComesTo(f, m, i) /\ Taken(prog[f], m, i)
        /\ <<prog[f].site[i].callee, Argument(prog[f], m, i)>> \in S}}

(* The greatest such set, recursion without end included.                  *)
Pairs == Cardinality(Fun \X Value)

DivergingAfter[k \in 0..Pairs] ==
    IF k = 0 THEN Fun \X Value
    ELSE {c \in DivergingAfter[k - 1] :
            LoopsForever(c[1], c[2]) \/ CallsForever(c[1], c[2], DivergingAfter[k - 1]) # {}}

Diverging == DivergingAfter[Pairs]

AnalysedTermination == phase = "done" /\ Termination

(* When the report is PASS, every execution of the program ends, although  *)
(* calls that seem unreachable are skipped, functions are summarized once  *)
(* for several contexts and a verdict may be joined to an older one.       *)
ReportIsSound ==
    (AnalysedTermination /\ ReportTermination = "PASS") =>
        \A x \in Value : <<Entry, x>> \notin Diverging

(* A function that is said to terminate does so in every context it was    *)
(* analysed in, whatever calls it was analysed through first, as long as   *)
(* no summary says false, which hides the calls of its function.           *)
VerdictsAreSound ==
    (AnalysedTermination /\ NothingHidden) =>
        \A f \in DOMAIN db : verdict[f] = "YES" =>
            \A x \in db[f].pre : <<f, x>> \notin Diverging

(* A function that is said never to terminate returns from none of the     *)
(* arguments of some context: failing assertions do not count against it.  *)
NeverReturnsIsReal ==
    AnalysedTermination =>
        \A f \in DOMAIN db : verdict[f] = "NO" =>
            \E x \in db[f].pre : \A y \in Value : <<f, x, y>> \notin returned
=============================================================================
