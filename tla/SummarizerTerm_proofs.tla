------------------------ MODULE SummarizerTerm_proofs ------------------------
(***************************************************************************)
(* The verdicts on termination, for all programs, templates and options,   *)
(* and what SummarizerFw_proofs shows of the summaries and contexts for    *)
(* the analysis with either summarizer.                                    *)
(*                                                                         *)
(* That a verdict is sound is proved without looking at executions: the    *)
(* pairs of function and argument that end are the greatest set that is    *)
(* closed under the calls the summaries allow.  This set only grows, the   *)
(* summaries improving, and no execution leaves it.                        *)
(***************************************************************************)
EXTENDS SummarizerTerm, SummarizerFw_proofs

-----------------------------------------------------------------------------
(* The steps with --termination are among those of SummarizerFw_proofs.    *)

LEMMA SkipIsAnyStep == Termination /\ TermSkipCall => AnyStep
<1>. SUFFICES ASSUME Termination, TermSkipCall PROVE MoveOn
  BY DEF AnyStep
<1>1. \A m \in Context(Top.fun, Top.pre) :
          Considered(Top.fun, m) => ~Taken(Body, m, Top.site)
  BY DEF TermSkipCall, TermCallReachable, Assumed, Considered, Body
<1>. QED
  BY <1>1 DEF MoveOn, TermSkipCall

LEMMA UseIsAnyStep == Termination /\ TermUseSummary => AnyStep
<1>. SUFFICES ASSUME Termination, TermUseSummary PROVE MoveOn
  BY DEF AnyStep
<1>1. CASE Callee \in DOMAIN db
  BY <1>1 DEF TermUseSummary, TermPreconditionHolds, MoveOn, Assumed, Considered, Body
<1>2. CASE Callee \notin DOMAIN db
  BY <1>2 DEF TermUseSummary, TermPreconditionHolds, MoveOn
<1>. QED
  BY <1>1, <1>2

LEMMA CalleeTermContext ==
    ASSUME SummarizerTypeOK, Termination, TermSummarizeCallee
    PROVE  \E pre \in TermCallingContext :
               /\ GoDown(pre)
               /\ notes' = Append(Found, Fresh)
               /\ pre # {}
<1>1. PICK pre \in TermCallingContext :
          stack' = Append(NextCall, [fun |-> Callee, pre |-> pre, site |-> 1])
  BY DEF TermSummarizeCallee
<1>2. InlineSummaries /\ TermCallReachable /\ ~TermPreconditionHolds
  BY DEF TermSummarizeCallee
<1>3. /\ Top \in Frame /\ IsBody(Body) /\ Top.site \in 1..Body.n
      /\ Callee \in Fun \cup External /\ DOMAIN db \subseteq Fun
  BY <1>2, TopInlines DEF SummarizerTypeOK
<1>4. Callee \in Fun
  BY <1>2, <1>3 DEF TermPreconditionHolds
<1>5. TermArgumentsAt(Top.site) \subseteq pre /\ pre \subseteq Value
  <2>1. CASE ContextSensitive
    <3>1. ValueDomain \in {"intervals", "zones"}
      BY DEF ValueDomain
    <3>. QED
      BY <1>1, <2>1, <3>1, SummarizerAssumption DEF TermCallingContext, Least, Above
  <2>2. CASE ~ContextSensitive
    <3>1. pre = Value
      BY <1>1, <2>2 DEF TermCallingContext
    <3>. QED
      BY <1>3, <3>1, ArgumentIsValue DEF TermArgumentsAt
  <2>. QED
    BY <2>1, <2>2
<1>6. ASSUME NEW m \in Ways(Top.fun, Top.pre, Top.site)
      PROVE  Argument(Body, m, Top.site) \in pre
  <2>1. Argument(Body, m, Top.site) \in TermArgumentsAt(Top.site)
    BY DEF Ways, TermArgumentsAt, Considered, Body
  <2>. QED
    BY <1>5, <2>1
<1>7. ~ContextSensitive => pre = Value /\ Callee # Top.fun
  BY <1>1, <1>2 DEF TermCallingContext, TermPreconditionHolds
<1>8. pre # {}
  <2>1. PICK m \in Assumed : Taken(Body, m, Top.site)
    BY <1>2 DEF TermCallReachable
  <2>2. SummariesHold(Body, m, 1..(Top.site - 1))
    <3>1. 1..(Top.site - 1) \subseteq 1..Body.n
      BY <1>3 DEF IsBody
    <3>. QED
      BY <2>1, <3>1 DEF Assumed, Context, SummariesHold, Body
  <2>3. Argument(Body, m, Top.site) \in TermArgumentsAt(Top.site)
    BY <2>1, <2>2 DEF Assumed, Context, TermArgumentsAt, Body
  <2>. QED
    BY <1>5, <2>3
<1>9. GoDown(pre)
  BY <1>1, <1>2, <1>4, <1>5, <1>6, <1>7 DEF GoDown, TermSummarizeCallee
<1>. QED
  BY <1>8, <1>9 DEF TermSummarizeCallee

(* What is stored is above what the models of the function allow.          *)
LEMMA NeverStores ==
    ASSUME NeverReturns PROVE PutSummary({}) /\ ~EndsIn(Context(Top.fun, Top.pre))
<1>1. ~EndsIn(Context(Top.fun, Top.pre))
  BY DEF NeverReturns, EndReachable
<1>2. Transitions = {}
  BY <1>1 DEF EndsIn, Transitions, Transition
<1>. QED
  BY <1>1, <1>2 DEF NeverReturns, AtEnd, Store, PutSummary

LEMMA MayReturnStores ==
    ASSUME SummarizerTypeOK, MayReturn
    PROVE  \E T \in ComputedTransformers, v \in TermVerdicts : PutSummary(T) /\ Store(T, v)
<1>1. PICK T \in ComputedTransformers, v \in TermVerdicts : Store(T, v)
  BY DEF MayReturn
<1>2. Transitions \subseteq T
  <2>1. CASE T \in Least(Templates(Top.fun), Transitions)
    BY <2>1 DEF Least, Above
  <2>2. CASE T = Anything
    <3>1. IsBody(Body)
      BY TopTyped, ProgramBodies DEF MayReturn, AtEnd, SummarizerTypeOK, Frame, Body
    <3>2. ASSUME NEW m \in Context(Top.fun, Top.pre) PROVE Transition(Body, m) \subseteq Anything
      BY <3>1, ResultsAreValues DEF Context, Transition, Anything, Body
    <3>. QED
      BY <2>2, <3>2 DEF Transitions
  <2>. QED
    BY <2>1, <2>2 DEF ComputedTransformers
<1>3. PutSummary(T)
  BY <1>1, <1>2 DEF MayReturn, AtEnd, Store, PutSummary
<1>. QED
  BY <1>1, <1>3

LEMMA AnalysisIsAnyStep == SummarizerTypeOK /\ [AnalysisNext]_termVars => [AnyStep]_vars
<1>. SUFFICES ASSUME SummarizerTypeOK, AnalysisNext PROVE [AnyStep]_vars
  BY DEF termVars
<1>1. CASE ~Termination
  BY <1>1, StepIsAnyStep DEF AnalysisNext
<1>2. CASE Termination
  <2>1. CASE TermSummarize
    BY <2>1 DEF TermSummarize, AnyStep
  <2>2. CASE TermSkipCall \/ TermUseSummary
    BY <1>2, <2>2, SkipIsAnyStep, UseIsAnyStep
  <2>3. CASE TermSummarizeCallee
    BY <1>2, <2>3, CalleeTermContext DEF AnyStep
  <2>4. CASE NeverReturns
    BY <2>4, NeverStores DEF AnyStep
  <2>5. CASE MayReturn
    BY <2>5, MayReturnStores DEF AnyStep
  <2>6. CASE TermFinish \/ TermExplore
    BY <2>6 DEF TermFinish, TermExplore, AnyStep
  <2>. QED
    BY <1>2, <2>1, <2>2, <2>3, <2>4, <2>5, <2>6 DEF AnalysisNext, TermNext
<1>. QED
  BY <1>1, <1>2

(* The variables keep their types, with either summarizer.                 *)
THEOREM AnalysisTypes == AnalysisSpec => []SummarizerTypeOK
<1>1. TermInit => SummarizerTypeOK
  BY TypesInit DEF TermInit
<1>2. SummarizerTypeOK /\ [AnalysisNext]_termVars => SummarizerTypeOK'
  BY AnalysisIsAnyStep, TypesStep
<1>. QED
  BY <1>1, <1>2, PTL DEF AnalysisSpec

LEMMA AnalysisTakesAnyStep == AnalysisSpec => Init /\ []SummarizerTypeOK /\ [][AnyStep]_vars
<1>1. TermInit => Init
  BY DEF TermInit
<1>. QED
  BY <1>1, AnalysisTypes, AnalysisIsAnyStep, PTL DEF AnalysisSpec

(* What a function is known to return includes all it can return, although *)
(* with --termination an end found unreachable makes a summary false.      *)
THEOREM AnalysisCovers == AnalysisSpec => []SummariesCover
<1>1. CoverInv => SummariesCover
  BY DEF CoverInv
<1>. QED
  BY AnalysisTakesAnyStep, CoverInit, CoverStep, <1>1, PTL

(* A summary is never replaced by one that is known for fewer contexts or  *)
(* that says less, with either summarizer.                                 *)
THEOREM AnalysisImproves == AnalysisSpec => SummariesOnlyImprove
<1>1. [AnyStep]_vars => [Improved]_vars
  BY StepImproves
<1>. QED
  BY AnalysisTakesAnyStep, <1>1, PTL DEF SummariesOnlyImprove, Improved

(* Without contexts, an assertion that passes fails in no execution of its *)
(* function in which its calls return, with either summarizer.             *)
THEOREM AnalysisPassesHold == AnalysisSpec => [](~ContextSensitive => PassHoldsIfCallsReturn)
<1>1. WholeInv /\ CoverInv => (~ContextSensitive => PassHoldsIfCallsReturn)
  BY PassesHold DEF WholeInv
<1>. QED
  BY AnalysisTakesAnyStep, WholeInit, WholeInvStep, CoverInit, CoverStep, <1>1, PTL

(* Unless a summary says false, the contexts of all calls are covered.     *)
(* With --termination the assertions are assumed: they stand before the    *)
(* calls, may fail, and hide no call; where contexts are told apart, a     *)
(* function makes no call when its assertion fails.                        *)
THEOREM AnalysedContexts == AnalysisSpec => [](CallsShown => ContextsCover)
BY AnalysisTakesAnyStep, CalledInit, CalledStep, CalledContexts, PTL

(* No function waits for itself, with either summarizer.                   *)
THEOREM AnalysisFrames == AnalysisSpec => [](CallsDescend => NoFrameTwice)
BY AnalysisTakesAnyStep, RankInit, RankStep, RankedFrames, PTL

-----------------------------------------------------------------------------
(* The types of the verdicts and the notes.                                *)

Note == [found : BOOLEAN, calls : {"YES", "UNKNOWN"}]

TermTypeOK ==
    /\ DOMAIN verdict = DOMAIN db
    /\ \A f \in DOMAIN verdict : verdict[f] \in {"YES", "NO", "UNKNOWN"}
    /\ notes \in Seq(Note) /\ Len(notes) = Len(stack)
    /\ \A k \in 1..Len(notes) :
          k < Len(notes) \/ notes[k].calls # "YES" => notes[k].found
    /\ \A k \in 1..Len(stack) : stack[k].pre # {}
    /\ \A f \in Fun : HasLoop(prog, f) => f \in loopy

TermTypeInv == SummarizerTypeOK /\ (Termination => TermTypeOK)

LEMMA TermTypesInit == TermInit => TermTypeInv
<1>. SUFFICES ASSUME TermInit PROVE TermTypeInv
  OBVIOUS
<1>1. SummarizerTypeOK
  BY TypesInit DEF TermInit
<1>2. DOMAIN verdict = {} /\ DOMAIN db = {} /\ notes = <<>> /\ stack = <<>>
  BY DEF TermInit, Init
<1>3. \A f \in Fun : HasLoop(prog, f) => f \in loopy
  BY DEF TermInit
<1>. QED
  BY <1>1, <1>2, <1>3 DEF TermTypeInv, TermTypeOK

(* The note of the top frame is marked and changed.                        *)
LEMMA NotedTyped ==
    ASSUME NEW note \in Note, NEW g, NEW V
    PROVE  /\ Noted(note, g, V) \in Note
           /\ Noted(note, g, V).found = note.found
           /\ Noted(note, g, V).calls = "YES" =>
                  note.calls = "YES" /\ (g \in DOMAIN V => V[g] = "YES")
           /\ note.calls # "YES" => Noted(note, g, V).calls # "YES"
BY DEF Noted, Note

LEMMA FoundNotes ==
    ASSUME notes \in Seq(Note), notes # <<>>
    PROVE  /\ Found \in Seq(Note) /\ Len(Found) = Len(notes) /\ Len(notes) \in 1..Len(notes)
           /\ \A k \in 1..Len(notes) : k # Len(notes) => Found[k] = notes[k]
           /\ Found[Len(notes)] \in Note
           /\ Found[Len(notes)].found = TRUE
           /\ Found[Len(notes)].calls = notes[Len(notes)].calls
<1>1. Len(notes) \in 1..Len(notes) /\ DOMAIN notes = 1..Len(notes)
  OBVIOUS
<1>2. notes[Len(notes)] \in Note
  BY <1>1
<1>3. [notes[Len(notes)] EXCEPT !.found = TRUE] \in Note
  BY <1>2 DEF Note
<1>4. Found = [notes EXCEPT ![Len(notes)] = [notes[Len(notes)] EXCEPT !.found = TRUE]]
  BY <1>1 DEF Found
<1>. QED
  BY <1>1, <1>2, <1>3, <1>4 DEF Note

(* The notes behind a summary that is stored.                              *)
LEMMA StoredNotes ==
    ASSUME TermTypeOK, stack \in Seq(Frame), stack # <<>>, NEW T, NEW v, Store(T, v)
    PROVE  /\ notes' \in Seq(Note) /\ Len(notes') = Len(notes) - 1
           /\ \A k \in 1..(Len(notes) - 1) :
                  /\ k # Len(notes) - 1 => notes'[k] = notes[k]
                  /\ k = Len(notes) - 1 => notes'[k] = Noted(notes[k], Top.fun, verdict')
<1>1. Len(notes) \in Nat \ {0}
  BY TopMoved DEF TermTypeOK
<1>. DEFINE n == Len(notes) - 1
<1>2. n \in Nat
  BY <1>1
<1>3. notes' = [i \in 1..n |-> IF i = n THEN Noted(notes[i], Top.fun, verdict') ELSE notes[i]]
  BY DEF Store
<1>4. \A i \in 1..n : notes[i] \in Note
  BY <1>1 DEF TermTypeOK
<1>5. \A i \in 1..n : notes'[i] \in Note
  BY <1>3, <1>4, NotedTyped
<1>6. notes' \in [1..n -> Note]
  BY <1>3, <1>5
<1>. HIDE DEF n
<1>7. notes' \in Seq(Note) /\ Len(notes') = n
  BY <1>2, <1>6
<1>. QED
  BY <1>3, <1>7 DEF n

LEMMA JoinsTyped ==
    ASSUME NEW a \in {"YES", "NO", "UNKNOWN"}, NEW b \in {"YES", "NO", "UNKNOWN"}
    PROVE  /\ JoinVerdicts(a, b) \in {"YES", "NO", "UNKNOWN"}
           /\ JoinVerdicts(a, b) = "YES" => a = "YES" /\ b = "YES"
           /\ JoinVerdicts(a, b) = "NO" => a = "NO" \/ b = "NO"
BY DEF JoinVerdicts

(* The verdict of a function after put.                                    *)
LEMMA PutVerdicts ==
    ASSUME TermTypeOK, NEW v \in {"YES", "NO", "UNKNOWN"}, NEW T, Store(T, v)
    PROVE  /\ DOMAIN verdict' = DOMAIN db' /\ DOMAIN db' = DOMAIN db \cup {Top.fun}
           /\ \A g \in DOMAIN db' : g # Top.fun => verdict'[g] = verdict[g]
           /\ Top.fun \in DOMAIN db => verdict'[Top.fun] = JoinVerdicts(verdict[Top.fun], v)
           /\ Top.fun \notin DOMAIN db => verdict'[Top.fun] = v
           /\ \A g \in DOMAIN db' : verdict'[g] \in {"YES", "NO", "UNKNOWN"}
<1>1. /\ db' = Put(Top.fun, [pre |-> Top.pre, trans |-> Under(Top.pre, T)])
      /\ verdict' = PutVerdict(Top.fun, v)
  BY DEF Store
<1>2. DOMAIN verdict' = DOMAIN db' /\ DOMAIN db' = DOMAIN db \cup {Top.fun}
  BY <1>1 DEF PutVerdict, Put
<1>3. /\ \A g \in DOMAIN db' : g # Top.fun => verdict'[g] = verdict[g]
      /\ Top.fun \in DOMAIN db => verdict'[Top.fun] = JoinVerdicts(verdict[Top.fun], v)
      /\ Top.fun \notin DOMAIN db => verdict'[Top.fun] = v
  BY <1>1, <1>2 DEF PutVerdict
<1>. QED
  BY <1>2, <1>3, JoinsTyped DEF TermTypeOK

(* A verdict from calls and loops.                                         *)
LEMMA VerdictsFrom ==
    ASSUME TermTypeOK, stack # <<>>, stack \in Seq(Frame), NEW v \in TermVerdicts
    PROVE  /\ v \in {"YES", "UNKNOWN"}
           /\ v = "YES" => /\ notes[Len(notes)].calls = "YES"
                           /\ Top.fun \in loopy => \A m \in Assumed : Results(Body, m) # {}
<1>1. Len(notes) \in 1..Len(notes) /\ notes[Len(notes)] \in Note
  BY TopMoved DEF TermTypeOK
<1>2. notes[Len(notes)].calls # "YES" => notes[Len(notes)].found
  BY <1>1 DEF TermTypeOK
<1>3. notes[Len(notes)].calls \in {"YES", "UNKNOWN"}
  BY <1>1 DEF Note
<1>. QED
  BY <1>2, <1>3 DEF TermVerdicts, RankingFound

LEMMA StoreTypes ==
    ASSUME SummarizerTypeOK, TermTypeOK, stack # <<>>, NEW T, NEW v \in {"YES", "NO", "UNKNOWN"}, Store(T, v)
    PROVE  TermTypeOK'
<1>0. stack \in Seq(Frame)
  BY DEF SummarizerTypeOK, Frame
<1>1. UNCHANGED <<prog, loopy>> /\ stack' = SubSeq(stack, 1, Len(stack) - 1)
  BY DEF Store, programVars
<1>2. /\ Len(stack) \in Nat \ {0} /\ Len(stack') = Len(stack) - 1
      /\ \A k \in 1..(Len(stack) - 1) : stack'[k] = stack[k]
  BY <1>0, <1>1, StackPopped, TopMoved
<1>3. /\ notes' \in Seq(Note) /\ Len(notes') = Len(notes) - 1 /\ Len(notes) = Len(stack)
      /\ \A k \in 1..(Len(notes) - 1) :
              /\ k # Len(notes) - 1 => notes'[k] = notes[k]
              /\ k = Len(notes) - 1 => notes'[k] = Noted(notes[k], Top.fun, verdict')
  BY <1>0, StoredNotes DEF TermTypeOK
<1>4. ASSUME NEW k \in 1..Len(notes') PROVE notes'[k].found
  <2>1. k \in 1..Len(notes) /\ k < Len(notes) /\ notes[k] \in Note /\ notes[k].found
    BY <1>2, <1>3 DEF TermTypeOK
  <2>. QED
    BY <1>2, <1>3, <2>1, NotedTyped
<1>5. /\ DOMAIN verdict' = DOMAIN db'
      /\ \A g \in DOMAIN db' : verdict'[g] \in {"YES", "NO", "UNKNOWN"}
  BY PutVerdicts
<1>6. \A k \in 1..Len(stack') : stack'[k].pre # {}
  BY <1>2 DEF TermTypeOK
<1>7. \A f \in Fun : HasLoop(prog, f)' => f \in loopy'
  BY <1>1 DEF TermTypeOK, HasLoop
<1>. QED
  BY <1>2, <1>3, <1>4, <1>5, <1>6, <1>7 DEF TermTypeOK

LEMMA TermTypesStep == TermTypeInv /\ [AnalysisNext]_termVars => TermTypeInv'
<1>. SUFFICES ASSUME TermTypeInv, [AnalysisNext]_termVars PROVE TermTypeInv'
  OBVIOUS
<1>1. SummarizerTypeOK /\ SummarizerTypeOK' /\ UNCHANGED <<cmdline, prog>>
  BY AnalysisIsAnyStep, TypesStep, OptionsStay DEF TermTypeInv
<1>2. SUFFICES ASSUME Termination, TermTypeOK, [TermNext]_termVars PROVE TermTypeOK'
  <2>1. Termination' => Termination
    BY <1>1 DEF Termination, Isset
  <2>. QED
    BY <1>1, <1>2, <2>1 DEF TermTypeInv, AnalysisNext
<1>3. stack \in Seq(Frame) /\ Len(stack) \in Nat
  BY <1>1 DEF SummarizerTypeOK, Frame
<1>4. ASSUME UNCHANGED loopy PROVE \A f \in Fun : HasLoop(prog, f)' => f \in loopy'
  BY <1>1, <1>2, <1>4 DEF TermTypeOK, HasLoop
<1>5. ASSUME stack # <<>>, NextCall \in Seq(Frame)
      PROVE  /\ Len(NextCall) = Len(stack) /\ Len(stack) \in Nat \ {0} /\ notes # <<>>
             /\ \A k \in 1..Len(NextCall) : NextCall[k].pre # {}
  <2>1. \A k \in 1..Len(stack) : NextCall[k].pre = stack[k].pre
    BY <1>3, <1>5, TopMoved DEF Top
  <2>. QED
    BY <1>2, <1>3, <1>5, <2>1, TopMoved DEF TermTypeOK
<1>6. CASE TermSummarize
  <2>1. PICK f : stack' = IF f \in DOMAIN db THEN <<>> ELSE <<[fun |-> f, pre |-> Value, site |-> 1]>>
    BY <1>6 DEF TermSummarize, Summarize
  <2>2. notes' = [i \in DOMAIN stack' |-> Fresh] /\ UNCHANGED <<loopy, verdict, db>>
    BY <1>6 DEF TermSummarize, Summarize
  <2>3. Fresh \in Note /\ Fresh.calls = "YES"
    BY DEF Fresh, Note
  <2>4. CASE stack' = <<>>
    <3>1. notes' = <<>>
      BY <2>2, <2>4
    <3>. QED
      BY <1>2, <1>4, <2>2, <2>4, <3>1 DEF TermTypeOK
  <2>5. CASE stack' = <<[fun |-> f, pre |-> Value, site |-> 1]>>
    <3>1. Len(stack') = 1 /\ stack'[1].pre = Value /\ DOMAIN stack' = 1..1
      BY <2>5
    <3>2. notes' = [i \in 1..1 |-> Fresh]
      BY <2>2, <3>1
    <3>3. notes' \in Seq(Note) /\ Len(notes') = 1 /\ notes'[1] = Fresh
      BY <2>3, <3>2
    <3>. QED
      BY <1>2, <1>4, <2>2, <2>3, <3>1, <3>3, ProgramAssumption DEF TermTypeOK
  <2>. QED
    BY <2>1, <2>4, <2>5
<1>7. CASE TermSkipCall
  <2>1. stack # <<>> /\ stack' = NextCall /\ UNCHANGED <<db, loopy, verdict, notes>>
    BY <1>7 DEF TermSkipCall, InlineSummaries
  <2>2. NextCall \in Seq(Frame)
    BY <1>3, <2>1, NextCallTyped
  <2>. QED
    BY <1>2, <1>4, <1>5, <2>1, <2>2 DEF TermTypeOK
<1>8. CASE TermUseSummary
  <2>1. /\ stack # <<>> /\ stack' = NextCall /\ UNCHANGED <<db, loopy, verdict>>
        /\ notes' = [Found EXCEPT ![Len(notes)] = Noted(@, Callee, verdict)]
    BY <1>8 DEF TermUseSummary, InlineSummaries
  <2>2. NextCall \in Seq(Frame)
    BY <1>3, <2>1, NextCallTyped
  <2>3. notes \in Seq(Note) /\ notes # <<>> /\ Len(notes) = Len(stack)
    BY <1>2, <1>5, <2>1, <2>2 DEF TermTypeOK
  <2>4. DOMAIN Found = 1..Len(notes) /\ Len(notes) \in DOMAIN Found
    BY <2>3, FoundNotes
  <2>5. notes' = [Found EXCEPT ![Len(notes)] = Noted(Found[Len(notes)], Callee, verdict)]
    BY <2>1, <2>4
  <2>6. /\ Noted(Found[Len(notes)], Callee, verdict) \in Note
        /\ Noted(Found[Len(notes)], Callee, verdict).found = TRUE
    BY <2>3, FoundNotes, NotedTyped
  <2>7. /\ notes' \in Seq(Note) /\ Len(notes') = Len(notes)
        /\ \A k \in 1..Len(notes) : k # Len(notes) => notes'[k] = notes[k]
        /\ notes'[Len(notes)].found = TRUE
    BY <2>3, <2>4, <2>5, <2>6, FoundNotes
  <2>8. \A k \in 1..Len(notes') : notes'[k].found
    BY <1>2, <1>5, <2>1, <2>2, <2>3, <2>7 DEF TermTypeOK
  <2>. QED
    BY <1>2, <1>4, <1>5, <2>1, <2>2, <2>3, <2>7, <2>8 DEF TermTypeOK
<1>9. CASE TermSummarizeCallee
  <2>1. PICK pre : GoDown(pre) /\ notes' = Append(Found, Fresh) /\ pre # {}
    BY <1>1, <1>2, <1>9, CalleeTermContext
  <2>2. UNCHANGED <<db, loopy, verdict>>
    BY <1>9 DEF TermSummarizeCallee
  <2>. DEFINE H == [fun |-> Callee, pre |-> pre, site |-> 1]
  <2>3. stack # <<>> /\ stack' = Append(NextCall, H) /\ H \in Frame /\ H.pre = pre
    BY <2>1 DEF GoDown, InlineSummaries, Frame
  <2>. HIDE DEF H
  <2>4. NextCall \in Seq(Frame)
    BY <1>3, <2>3, NextCallTyped
  <2>5. notes \in Seq(Note) /\ notes # <<>> /\ Len(notes) = Len(stack) /\ Len(stack) \in Nat \ {0}
    BY <1>2, <1>5, <2>3, <2>4 DEF TermTypeOK
  <2>6. Fresh \in Note /\ Fresh.calls = "YES"
    BY DEF Fresh, Note
  <2>7. /\ notes' \in Seq(Note) /\ Len(notes') = Len(notes) + 1
        /\ notes'[Len(notes) + 1] = Fresh
        /\ \A k \in 1..Len(notes) : notes'[k] = Found[k]
    BY <2>1, <2>5, <2>6, FoundNotes
  <2>8. ASSUME NEW k \in 1..Len(notes) PROVE notes'[k].found
    <3>1. CASE k = Len(notes)
      BY <2>5, <2>7, <3>1, FoundNotes
    <3>2. CASE k # Len(notes)
      <4>1. notes'[k] = notes[k] /\ k < Len(notes)
        BY <2>5, <2>7, <3>2, FoundNotes
      <4>. QED
        BY <1>2, <4>1 DEF TermTypeOK
    <3>. QED
      BY <3>1, <3>2
  <2>9. /\ Len(stack') = Len(stack) + 1 /\ stack'[Len(stack) + 1] = H
        /\ \A k \in 1..Len(stack) : stack'[k] = NextCall[k]
    BY <1>5, <2>3, <2>4
  <2>10. \A k \in 1..Len(stack') : stack'[k].pre # {}
    BY <1>5, <2>1, <2>3, <2>4, <2>5, <2>9
  <2>11. \A k \in 1..Len(notes') : k < Len(notes') \/ notes'[k].calls # "YES" => notes'[k].found
    BY <2>5, <2>6, <2>7, <2>8
  <2>. QED
    BY <1>2, <1>4, <2>2, <2>5, <2>7, <2>9, <2>10, <2>11 DEF TermTypeOK
<1>10. CASE NeverReturns
  <2>1. Store({}, "NO") /\ stack # <<>>
    BY <1>10 DEF NeverReturns, AtEnd
  <2>. QED
    BY <1>1, <1>2, <2>1, StoreTypes
<1>11. CASE MayReturn
  <2>1. PICK T \in ComputedTransformers, v \in TermVerdicts : Store(T, v)
    BY <1>11 DEF MayReturn
  <2>2. stack # <<>>
    BY <1>11 DEF MayReturn, AtEnd
  <2>. QED
    BY <1>1, <1>2, <1>3, <2>1, <2>2, VerdictsFrom, StoreTypes
<1>12. CASE TermFinish \/ TermExplore \/ UNCHANGED termVars
  <2>1. UNCHANGED <<db, stack, loopy, verdict, notes>>
    BY <1>12 DEF TermFinish, TermExplore, Finish, Explore, termVars, vars
  <2>. QED
    BY <1>2, <1>4, <2>1 DEF TermTypeOK
<1>. QED
  BY <1>2, <1>6, <1>7, <1>8, <1>9, <1>10, <1>11, <1>12 DEF TermNext

-----------------------------------------------------------------------------
(* Functions that never return.                                            *)

NeverEnds(f, x) ==
    \A m \in Models(prog[f]) :
        m.arg = x /\ SummariesHold(prog[f], m, 1..prog[f].n) => Results(prog[f], m) = {}

NoInv == \A f \in DOMAIN db : verdict[f] = "NO" => \E x \in db[f].pre : NeverEnds(f, x)

(* What a function is found to return it returns in a model the summaries  *)
(* allow.                                                                  *)
HasModel(r) ==
    \E m \in Models(prog[r[1]]) :
        /\ m.arg = r[2] /\ r[3] \in Results(prog[r[1]], m)
        /\ SummariesHold(prog[r[1]], m, 1..prog[r[1]].n)

ReturnedInv == \A r \in returned : HasModel(r)

NeverInv ==
    /\ TermTypeInv /\ CoverInv /\ ReturnedInv
    /\ Termination => NoInv

LEMMA NeverStays ==
    ASSUME Improved, prog' = prog, NEW f, NEW x, NeverEnds(f, x) PROVE NeverEnds(f, x)'
<1>1. ASSUME NEW m, SummariesHold(prog[f], m, 1..prog[f].n)'
      PROVE  SummariesHold(prog[f], m, 1..prog[f].n)
  BY <1>1 DEF Improved, SummariesHold, Taken, Argument, Behind
<1>2. Models(prog[f])' = Models(prog[f]) /\ \A m : Results(prog[f], m)' = Results(prog[f], m)
  BY DEF Models, Taken, Results, Argument, Behind
<1>. QED
  BY <1>1, <1>2 DEF NeverEnds

LEMMA HasModelStays ==
    ASSUME UNCHANGED <<prog, db>>, NEW r, HasModel(r) PROVE HasModel(r)'
<1>1. PICK m \in Models(prog[r[1]]) :
          /\ m.arg = r[2] /\ r[3] \in Results(prog[r[1]], m)
          /\ SummariesHold(prog[r[1]], m, 1..prog[r[1]].n)
  BY DEF HasModel
<1>2. Models(prog[r[1]])' = Models(prog[r[1]]) /\ Results(prog[r[1]], m)' = Results(prog[r[1]], m)
  BY DEF Models, Taken, Results, Argument, Behind
<1>3. SummariesHold(prog[r[1]], m, 1..prog[r[1]].n)'
  BY <1>1 DEF SummariesHold, Taken, Argument, Behind
<1>. QED
  BY <1>1, <1>2, <1>3 DEF HasModel

LEMMA ReturnedStep == CoverInv /\ ReturnedInv /\ [AnyStep]_vars => ReturnedInv'
<1>. SUFFICES ASSUME CoverInv, ReturnedInv, [AnyStep]_vars PROVE ReturnedInv'
  OBVIOUS
<1>1. CASE Explore
  <2>1. /\ returned' = returned \cup ReturnsFound(prog, returned)
        /\ UNCHANGED <<prog, db>>
    BY <1>1 DEF Explore
  <2>2. ASSUME NEW r \in ReturnsFound(prog, returned)
        PROVE  HasModel(r)
    <3>1. PICK f \in Fun : \E m \in Returning(prog, returned, f) :
              r \in {f} \X {m.arg} \X Results(prog[f], m)
      BY DEF ReturnsFound
    <3>2. PICK m \in Returning(prog, returned, f) : r \in {f} \X {m.arg} \X Results(prog[f], m)
      BY <3>1
    <3>3. SummariesHold(prog[f], m, 1..prog[f].n)
      BY ReturningHolds DEF CoverInv
    <3>4. r[1] = f /\ r[2] = m.arg /\ r[3] \in Results(prog[f], m) /\ m \in Models(prog[f])
      BY <3>2 DEF Returning
    <3>. QED
      BY <3>3, <3>4 DEF HasModel
  <2>3. \A r \in returned' : HasModel(r)
    BY <2>1, <2>2 DEF ReturnedInv
  <2>. QED
    BY <2>1, <2>3, HasModelStays DEF ReturnedInv
<1>2. CASE UNCHANGED <<prog, db, returned>>
  BY <1>2, HasModelStays DEF ReturnedInv
<1>3. CASE \E T : PutSummary(T)
  <2>1. returned' = {}
    BY <1>3 DEF PutSummary, programVars, CoverInv
  <2>. QED
    BY <2>1 DEF ReturnedInv
<1>. QED
  BY <1>1, <1>2, <1>3 DEF AnyStep, Summarize, MoveOn, GoDown, Finish, vars, programVars

(* An entry that is not the one of the top frame is the one it was.        *)
LEMMA StoreKeepsNo ==
    ASSUME SummarizerTypeOK, TermTypeOK, NoInv, stack # <<>>, Improved, prog' = prog,
           NEW T, NEW v \in {"YES", "NO", "UNKNOWN"}, Store(T, v),
           v = "NO" => \A x \in Top.pre : NeverEnds(Top.fun, x)
    PROVE  NoInv'
<1>0. stack \in Seq(Frame) /\ Len(stack) \in 1..Len(stack) /\ Top.pre # {}
  BY TopMoved DEF SummarizerTypeOK, Frame, TermTypeOK, Top
<1>1. SUFFICES ASSUME NEW f \in DOMAIN db', verdict'[f] = "NO"
               PROVE  \E x \in db'[f].pre : NeverEnds(f, x)
  BY NeverStays DEF NoInv
<1>2. CASE f \in DOMAIN db /\ verdict[f] = "NO"
  <2>1. PICK x \in db[f].pre : NeverEnds(f, x)
    BY <1>2 DEF NoInv
  <2>. QED
    BY <1>2, <2>1 DEF Improved
<1>3. CASE ~(f \in DOMAIN db /\ verdict[f] = "NO")
  <2>1. f = Top.fun /\ v = "NO"
    BY <1>1, <1>3, PutVerdicts, JoinsTyped DEF TermTypeOK
  <2>2. Top.pre \subseteq db'[f].pre
    BY <2>1 DEF Store, Put, Join
  <2>. QED
    BY <1>0, <2>1, <2>2
<1>. QED
  BY <1>2, <1>3

LEMMA NeverInit == TermInit => NeverInv
<1>1. TermInit => CoverInv /\ TermTypeInv
  BY CoverInit, TermTypesInit DEF TermInit
<1>2. TermInit => DOMAIN db = {} /\ returned = {}
  BY DEF TermInit, Init
<1>. QED
  BY <1>1, <1>2 DEF NeverInv, NoInv, ReturnedInv

LEMMA NeverStep == NeverInv /\ [AnalysisNext]_termVars => NeverInv'
<1>. SUFFICES ASSUME NeverInv, [AnalysisNext]_termVars PROVE NeverInv'
  OBVIOUS
<1>1. SummarizerTypeOK /\ [AnyStep]_vars
  BY AnalysisIsAnyStep DEF NeverInv, TermTypeInv
<1>2. TermTypeInv' /\ CoverInv' /\ ReturnedInv'
  BY <1>1, TermTypesStep, CoverStep, ReturnedStep DEF NeverInv
<1>3. Improved /\ UNCHANGED <<cmdline, prog>>
  BY <1>1, StepImproves, OptionsStay
<1>4. SUFFICES ASSUME Termination, TermTypeOK, NoInv, [TermNext]_termVars PROVE NoInv'
  <2>1. Termination' => Termination
    BY <1>3 DEF Termination, Isset
  <2>. QED
    BY <1>2, <1>4, <2>1 DEF NeverInv, TermTypeInv, AnalysisNext
<1>5. CASE NeverReturns
  <2>1. Store({}, "NO") /\ stack # <<>> /\ ~EndsIn(Context(Top.fun, Top.pre))
    BY <1>5, NeverStores DEF NeverReturns, AtEnd
  <2>2. \A x \in Top.pre : NeverEnds(Top.fun, x)
    BY <2>1 DEF EndsIn, Context, NeverEnds, Body
  <2>. QED
    BY <1>1, <1>3, <1>4, <2>1, <2>2, StoreKeepsNo
<1>6. CASE MayReturn
  <2>1. PICK T \in ComputedTransformers, v \in TermVerdicts : Store(T, v)
    BY <1>6 DEF MayReturn
  <2>2. stack # <<>> /\ stack \in Seq(Frame)
    BY <1>1, <1>6 DEF MayReturn, AtEnd, SummarizerTypeOK, Frame
  <2>3. v \in {"YES", "UNKNOWN"}
    BY <1>4, <2>1, <2>2, VerdictsFrom
  <2>. QED
    BY <1>1, <1>3, <1>4, <2>1, <2>2, <2>3, StoreKeepsNo
<1>7. CASE UNCHANGED <<db, verdict>>
  BY <1>3, <1>4, <1>7, NeverStays DEF NoInv
<1>. QED
  BY <1>4, <1>5, <1>6, <1>7
  DEF TermNext, TermSummarize, TermSkipCall, TermUseSummary, TermSummarizeCallee,
      TermFinish, TermExplore, Summarize, Finish, Explore, termVars, vars

LEMMA NeverReal == NeverInv => NeverReturnsIsReal
<1>. SUFFICES ASSUME NeverInv, Termination, NEW f \in DOMAIN db, verdict[f] = "NO"
              PROVE  \E x \in db[f].pre : \A y \in Value : <<f, x, y>> \notin returned
  BY DEF NeverReturnsIsReal, AnalysedTermination
<1>1. PICK x \in db[f].pre : NeverEnds(f, x)
  BY DEF NeverInv, NoInv
<1>2. ASSUME NEW y \in Value, <<f, x, y>> \in returned PROVE FALSE
  <2>. DEFINE r == <<f, x, y>>
  <2>1. r[1] = f /\ r[2] = x /\ r[3] = y
    OBVIOUS
  <2>2. PICK m \in Models(prog[r[1]]) :
            /\ m.arg = r[2] /\ r[3] \in Results(prog[r[1]], m)
            /\ SummariesHold(prog[r[1]], m, 1..prog[r[1]].n)
    BY <1>2 DEF NeverInv, ReturnedInv, HasModel
  <2>. QED
    BY <1>1, <2>1, <2>2 DEF NeverEnds
<1>. QED
  BY <1>2

(* A function said never to terminate returns from none of the arguments   *)
(* of some context, whatever contexts were joined to the one it was found  *)
(* in and whatever was learnt of its callees later.                        *)
THEOREM NeverIsReal == AnalysisSpec => []NeverReturnsIsReal
BY NeverInit, NeverStep, NeverReal, PTL DEF AnalysisSpec

-----------------------------------------------------------------------------
(* The arguments on which functions end, as far as the summaries tell: the *)
(* greatest set of them that is closed under the calls.                    *)

EndsOn(f, x) ==
    \A m \in Models(prog[f]) :
        m.arg = x /\ Considered(f, m) /\ SummariesHold(prog[f], m, 1..prog[f].n) =>
            Results(prog[f], m) # {}

CallsIn(f, pre, i, G) ==
    prog[f].site[i].callee \in Fun =>
        \A m \in Ways(f, pre, i) : <<prog[f].site[i].callee, Argument(prog[f], m, i)>> \in G

ClosedSet(G) ==
    \A f \in Fun, x \in Value : <<f, x>> \in G =>
        EndsOn(f, x) /\ \A i \in 1..prog[f].n : CallsIn(f, {x}, i, G)

Good == UNION {G \in SUBSET (Fun \X Value) : ClosedSet(G)}

LEMMA CallsInLarger ==
    ASSUME NEW f, NEW pre, NEW i, NEW G, NEW H, G \subseteq H, CallsIn(f, pre, i, G)
    PROVE  CallsIn(f, pre, i, H)
BY DEF CallsIn

LEMMA GoodIsClosed == Good \subseteq Fun \X Value /\ ClosedSet(Good)
<1>1. Good \subseteq Fun \X Value
  BY DEF Good
<1>2. SUFFICES ASSUME NEW f \in Fun, NEW x \in Value, <<f, x>> \in Good
               PROVE  EndsOn(f, x) /\ \A i \in 1..prog[f].n : CallsIn(f, {x}, i, Good)
  BY <1>1 DEF ClosedSet
<1>3. PICK G \in SUBSET (Fun \X Value) : ClosedSet(G) /\ <<f, x>> \in G
  BY <1>2 DEF Good
<1>4. G \subseteq Good
  BY <1>3 DEF Good
<1>5. EndsOn(f, x) /\ \A i \in 1..prog[f].n : CallsIn(f, {x}, i, G)
  BY <1>3 DEF ClosedSet
<1>. QED
  BY <1>4, <1>5, CallsInLarger

(* A function whose calls are good, in a context in which it ends.         *)
LEMMA GoodContext ==
    ASSUME NEW f \in Fun, NEW pre \in SUBSET Value,
           \A x \in pre : EndsOn(f, x), \A i \in 1..prog[f].n : CallsIn(f, pre, i, Good)
    PROVE  \A x \in pre : <<f, x>> \in Good
<1>. DEFINE G == Good \cup ({f} \X pre)
<1>1. G \in SUBSET (Fun \X Value) /\ Good \subseteq G
  BY GoodIsClosed
<1>2. ASSUME NEW g \in Fun, NEW x \in Value, <<g, x>> \in G
      PROVE  EndsOn(g, x) /\ \A i \in 1..prog[g].n : CallsIn(g, {x}, i, G)
  <2>1. CASE <<g, x>> \in Good
    <3>1. EndsOn(g, x) /\ \A i \in 1..prog[g].n : CallsIn(g, {x}, i, Good)
      BY <2>1, GoodIsClosed DEF ClosedSet
    <3>. HIDE DEF G
    <3>. QED
      BY <1>1, <3>1, CallsInLarger
  <2>2. CASE g = f /\ x \in pre
    <3>1. ASSUME NEW i \in 1..prog[f].n PROVE CallsIn(f, {x}, i, G)
      <4>1. Ways(f, {x}, i) \subseteq Ways(f, pre, i)
        BY <2>2 DEF Ways
      <4>. HIDE DEF G
      <4>. QED
        BY <1>1, <4>1 DEF CallsIn
    <3>. HIDE DEF G
    <3>. QED
      BY <2>2, <3>1
  <2>. QED
    BY <1>2, <2>1, <2>2
<1>3. ClosedSet(G)
  <2>. HIDE DEF G
  <2>. QED
    BY <1>2 DEF ClosedSet
<1>4. G \subseteq Good
  <2>. HIDE DEF G
  <2>. QED
    BY <1>1, <1>3 DEF Good
<1>. QED
  BY <1>4

(* The set only grows.                                                     *)
LEMMA EndsStays ==
    ASSUME Improved, UNCHANGED <<cmdline, prog>>, NEW f, NEW x, EndsOn(f, x)
    PROVE  EndsOn(f, x)'
<1>1. ASSUME NEW m, SummariesHold(prog[f], m, 1..prog[f].n)'
      PROVE  SummariesHold(prog[f], m, 1..prog[f].n)
  BY <1>1 DEF Improved, SummariesHold, Taken, Argument, Behind
<1>2. /\ Models(prog[f])' = Models(prog[f])
      /\ \A m : Results(prog[f], m)' = Results(prog[f], m)
      /\ \A m : Considered(f, m)' <=> Considered(f, m)
  BY DEF Models, Taken, Results, Argument, Behind, Considered, Termination, Isset, Fails
<1>. QED
  BY <1>1, <1>2 DEF EndsOn

LEMMA CallsInStays ==
    ASSUME Improved, UNCHANGED <<cmdline, prog>>, NEW f, NEW pre, NEW i, NEW G, CallsIn(f, pre, i, G)
    PROVE  CallsIn(f, pre, i, G)'
<1>1. Ways(f, pre, i)' \subseteq Ways(f, pre, i)
  BY WaysBefore
<1>2. \A m : Argument(prog[f], m, i)' = Argument(prog[f], m, i)
  BY DEF Argument, Behind
<1>. QED
  BY <1>1, <1>2 DEF CallsIn

LEMMA GoodGrows == Improved /\ UNCHANGED <<cmdline, prog>> => Good \subseteq Good'
<1>. SUFFICES ASSUME Improved, UNCHANGED <<cmdline, prog>>,
                     NEW G \in SUBSET (Fun \X Value), ClosedSet(G)
              PROVE  ClosedSet(G)'
  BY DEF Good
<1>1. ASSUME NEW f \in Fun, NEW x \in Value, <<f, x>> \in G
      PROVE  EndsOn(f, x)' /\ \A i \in 1..prog[f].n : CallsIn(f, {x}, i, G)'
  BY <1>1, EndsStays, CallsInStays DEF ClosedSet
<1>. QED
  BY <1>1 DEF ClosedSet

-----------------------------------------------------------------------------
(* The invariant of the verdicts.                                          *)

(* No function is called while it runs.  The calls of an acyclic program   *)
(* go down at most as many functions as there are.                         *)
RanksFunctions(rank) ==
    /\ rank \in [Fun -> 0..(Cardinality(Fun) - 1)]
    /\ \A f \in Fun : \A i \in 1..prog[f].n :
          prog[f].site[i].callee \in Fun => rank[prog[f].site[i].callee] < rank[f]

NoRecursion == \E rank : RanksFunctions(rank)

YesEnds == \A f \in DOMAIN db : verdict[f] = "YES" => \A x \in db[f].pre : EndsOn(f, x)
YesGood == \A f \in DOMAIN db : verdict[f] = "YES" => \A x \in db[f].pre : <<f, x>> \in Good

(* The calls noted as terminating, the one being summarized left out.      *)
FrameGood(F, last) == \A i \in 1..prog[F.fun].n : i <= last => CallsIn(F.fun, F.pre, i, Good)
FramesGood ==
    \A k \in 1..Len(stack) : \A F \in Frame : (F = stack[k] /\ notes[k].calls = "YES") =>
        /\ k = Len(stack) => FrameGood(F, F.site - 1)
        /\ k < Len(stack) => FrameGood(F, F.site - 2)

VerdictInv ==
    /\ TermTypeInv /\ ContextsInv
    /\ Termination => YesEnds
    /\ Termination /\ AssertionsFirst /\ NoRecursion /\ NothingHidden => YesGood /\ FramesGood

(* What the steps can rely on when they look for termination.              *)
Decided ==
    /\ SummarizerTypeOK /\ TermTypeOK /\ ContextsInv /\ YesGood /\ FramesGood
    /\ Termination /\ AssertionsFirst /\ NoRecursion /\ NothingHidden

LEMMA NoRecursionNoSelfCalls ==
    ASSUME SummarizerTypeOK, NoRecursion PROVE NoSelfCalls
<1>1. PICK rank : RanksFunctions(rank)
  BY DEF NoRecursion
<1>2. SUFFICES ASSUME NEW f \in Fun, NEW i \in 1..prog[f].n, prog[f].site[i].callee = f PROVE FALSE
  BY DEF NoSelfCalls
<1>3. rank[f] \in 0..(Cardinality(Fun) - 1) /\ rank[f] < rank[f]
  BY <1>1, <1>2 DEF RanksFunctions
<1>. QED
  BY <1>3

LEMMA DecidedOpen == Decided => OpenProgram
BY NoRecursionNoSelfCalls DEF Decided, OpenProgram

LEMMA FrameGoodStays ==
    ASSUME Improved, UNCHANGED <<cmdline, prog>>, NEW F, NEW last, FrameGood(F, last)
    PROVE  FrameGood(F, last)'
<1>1. ASSUME NEW i \in 1..prog[F.fun].n, i <= last PROVE CallsIn(F.fun, F.pre, i, Good)'
  <2>1. PICK G : G = Good'
    OBVIOUS
  <2>2. Good \subseteq G
    BY <2>1, GoodGrows
  <2>3. CallsIn(F.fun, F.pre, i, G)
    BY <1>1, <2>2, CallsInLarger DEF FrameGood
  <2>4. CallsIn(F.fun, F.pre, i, G)'
    BY <2>3, CallsInStays
  <2>. QED
    BY <2>1, <2>4 DEF CallsIn
<1>. QED
  BY <1>1 DEF FrameGood

LEMMA YesStays ==
    ASSUME UNCHANGED <<cmdline, prog, db, verdict>>
    PROVE  (YesEnds => YesEnds') /\ (YesGood => YesGood')
<1>1. Improved
  BY DEF Improved
<1>2. YesEnds => YesEnds'
  BY <1>1, EndsStays DEF YesEnds
<1>3. Good \subseteq Good'
  BY <1>1, GoodGrows
<1>4. YesGood => YesGood'
  BY <1>3 DEF YesGood
<1>. QED
  BY <1>2, <1>4

(* The calls of the frames behind a call that has been decided.            *)
LEMMA MovedFrames ==
    ASSUME Decided, UNCHANGED <<cmdline, prog, db>>, stack # <<>>, stack' = NextCall,
           Top.site \in 1..Body.n, Len(notes') = Len(notes),
           \A k \in 1..Len(notes) : k # Len(notes) => notes'[k] = notes[k],
           notes'[Len(notes)].calls = "YES" =>
              notes[Len(notes)].calls = "YES" /\ CallsIn(Top.fun, Top.pre, Top.site, Good)
    PROVE  FramesGood'
<1>0. SummarizerTypeOK /\ stack \in Seq(Frame) /\ Len(notes) = Len(stack) /\ Improved
  BY DEF Decided, SummarizerTypeOK, Frame, TermTypeOK, Improved
<1>1. SUFFICES ASSUME NEW k \in 1..Len(stack), NEW F \in Frame, F = NextCall[k], notes'[k].calls = "YES"
               PROVE  /\ k = Len(stack) => FrameGood(F, F.site - 1)'
                      /\ k < Len(stack) => FrameGood(F, F.site - 2)'
  BY <1>0, TopMoved DEF FramesGood
<1>2. CASE k = Len(stack)
  <2>1. F.fun = Top.fun /\ F.pre = Top.pre /\ F.site = Top.site + 1 /\ Top \in Frame
    BY <1>0, <1>1, <1>2, TopTyped, TopMoved
  <2>2. FrameGood(Top, Top.site - 1) /\ CallsIn(Top.fun, Top.pre, Top.site, Good)
    BY <1>0, <1>1, <1>2, <2>1 DEF Decided, FramesGood, Top
  <2>3. IsBody(prog[Top.fun]) /\ Top.site \in Nat
    BY <1>0, <2>1, ProgramBodies DEF SummarizerTypeOK, Frame
  <2>4. FrameGood(F, F.site - 1)
    BY <2>1, <2>2, <2>3 DEF FrameGood, IsBody
  <2>. QED
    BY <1>0, <1>2, <2>4, FrameGoodStays
<1>3. CASE k # Len(stack)
  <2>1. F = stack[k] /\ k < Len(stack) /\ notes[k].calls = "YES"
    BY <1>0, <1>1, <1>3, TopMoved
  <2>2. FrameGood(F, F.site - 2)
    BY <2>1 DEF Decided, FramesGood
  <2>. QED
    BY <1>0, <1>3, <2>2, FrameGoodStays
<1>. QED
  BY <1>2, <1>3

LEMMA SkipFrames == ASSUME Decided, TermSkipCall PROVE FramesGood'
<1>1. /\ UNCHANGED <<cmdline, prog, db, notes>> /\ stack # <<>> /\ stack' = NextCall
      /\ InlineSummaries /\ ~TermCallReachable
  BY DEF TermSkipCall, programVars, InlineSummaries
<1>2. Top \in Frame /\ Top.fun \in Fun /\ IsBody(Body) /\ Top.site \in 1..Body.n
  BY <1>1, TopInlines DEF Decided, Frame
<1>3. Ways(Top.fun, Top.pre, Top.site) = {}
  <2>1. SUFFICES ASSUME NEW m \in Ways(Top.fun, Top.pre, Top.site) PROVE FALSE
    OBVIOUS
  <2>2. PICK l \in Context(Top.fun, Top.pre) : Considered(Top.fun, l) /\ Taken(Body, l, Top.site)
    BY <1>2, DecidedOpen, WayContinues DEF Decided, ContextsInv, Body
  <2>. QED
    BY <1>1, <2>2 DEF TermCallReachable, Assumed, Considered, Decided, Body
<1>4. CallsIn(Top.fun, Top.pre, Top.site, Good)
  BY <1>3 DEF CallsIn
<1>. QED
  BY <1>1, <1>2, <1>4, MovedFrames

LEMMA UseFrames == ASSUME Decided, TermUseSummary PROVE FramesGood'
<1>1. /\ UNCHANGED <<cmdline, prog, db, verdict>> /\ stack # <<>> /\ stack' = NextCall
      /\ InlineSummaries /\ TermPreconditionHolds
      /\ notes' = [Found EXCEPT ![Len(notes)] = Noted(@, Callee, verdict)]
  BY DEF TermUseSummary, programVars, InlineSummaries
<1>2. /\ Top \in Frame /\ Top.fun \in Fun /\ IsBody(Body) /\ Top.site \in 1..Body.n
      /\ Callee \in Fun \cup External
  BY <1>1, TopInlines DEF Decided, Frame
<1>3. notes \in Seq(Note) /\ notes # <<>> /\ stack \in Seq(Frame)
  <2>1. stack \in Seq(Frame) /\ notes \in Seq(Note) /\ Len(notes) = Len(stack)
    BY DEF Decided, TermTypeOK, SummarizerTypeOK, Frame
  <2>. QED
    BY <1>1, <2>1
<1>4. DOMAIN Found = 1..Len(notes) /\ Len(notes) \in DOMAIN Found
  BY <1>3, FoundNotes
<1>5. notes' = [Found EXCEPT ![Len(notes)] = Noted(Found[Len(notes)], Callee, verdict)]
  BY <1>1, <1>4
<1>6. /\ Found[Len(notes)] \in Note /\ Found[Len(notes)].calls = notes[Len(notes)].calls
      /\ Noted(Found[Len(notes)], Callee, verdict) \in Note
  BY <1>3, FoundNotes, NotedTyped
<1>7. /\ Len(notes') = Len(notes)
      /\ \A k \in 1..Len(notes) : k # Len(notes) => notes'[k] = notes[k]
      /\ notes'[Len(notes)] = Noted(Found[Len(notes)], Callee, verdict)
  <2>1. notes'[Len(notes)] = Noted(Found[Len(notes)], Callee, verdict)
    BY <1>4, <1>5
  <2>2. notes' \in Seq(Note) /\ Len(notes') = Len(Found)
    <3>1. Found \in Seq(Note) /\ Len(notes) \in 1..Len(Found)
      BY <1>3, FoundNotes
    <3>. QED
      BY <1>5, <1>6, <3>1, ExceptSeq
  <2>3. \A k \in 1..Len(notes) : k # Len(notes) => notes'[k] = Found[k]
    BY <1>4, <1>5
  <2>. QED
    BY <1>3, <2>1, <2>2, <2>3, FoundNotes
<1>8. ASSUME notes'[Len(notes)].calls = "YES"
      PROVE  notes[Len(notes)].calls = "YES" /\ CallsIn(Top.fun, Top.pre, Top.site, Good)
  <2>1. notes[Len(notes)].calls = "YES" /\ (Callee \in DOMAIN verdict => verdict[Callee] = "YES")
    BY <1>6, <1>7, <1>8, NotedTyped
  <2>2. SUFFICES ASSUME Callee \in Fun, NEW m \in Ways(Top.fun, Top.pre, Top.site)
                 PROVE  <<Callee, Argument(Body, m, Top.site)>> \in Good
    BY <2>1 DEF CallsIn, Callee, Body
  <2>3. Callee \in DOMAIN db
    <3>1. Callee # Top.fun
      BY <1>2, NoRecursionNoSelfCalls DEF Decided, NoSelfCalls, Callee, Body
    <3>. QED
      BY <1>1, <2>2, <3>1, ProgramAssumption DEF TermPreconditionHolds
  <2>4. Argument(Body, m, Top.site) \in db[Callee].pre
    <3>1. CASE ContextSensitive
      <4>1. PICK l \in Context(Top.fun, Top.pre) :
                Considered(Top.fun, l) /\ Argument(Body, l, Top.site) = Argument(Body, m, Top.site)
        BY <1>2, DecidedOpen, WayContinues DEF Decided, ContextsInv, Body
      <4>2. l \in Assumed
        BY <4>1 DEF Assumed, Considered, Decided, Body
      <4>. QED
        BY <1>1, <2>3, <3>1, <4>1, <4>2 DEF TermPreconditionHolds
    <3>2. CASE ~ContextSensitive
      <4>1. db[Callee].pre = Value
        BY <2>3, <3>2 DEF Decided, ContextsInv, WholeInv, WholeContexts
      <4>2. Argument(Body, m, Top.site) \in Value
        BY <1>2, ArgumentIsValue DEF Ways, Body
      <4>. QED
        BY <4>1, <4>2
    <3>. QED
      BY <3>1, <3>2
  <2>. QED
    BY <2>1, <2>3, <2>4 DEF Decided, YesGood, TermTypeOK
<1>. QED
  BY <1>1, <1>2, <1>7, <1>8, MovedFrames

LEMMA CalleeFrames == ASSUME Decided, TermSummarizeCallee PROVE FramesGood'
<1>0. SummarizerTypeOK /\ stack \in Seq(Frame) /\ Len(notes) = Len(stack) /\ notes \in Seq(Note)
  BY DEF Decided, SummarizerTypeOK, Frame, TermTypeOK
<1>1. PICK pre : GoDown(pre) /\ notes' = Append(Found, Fresh)
  BY <1>0, CalleeTermContext DEF Decided
<1>. DEFINE H == [fun |-> Callee, pre |-> pre, site |-> 1]
<1>2. /\ UNCHANGED <<cmdline, prog, db>> /\ Improved /\ stack # <<>>
      /\ stack' = Append(NextCall, H) /\ H \in Frame /\ H.site = 1
  BY <1>1 DEF GoDown, programVars, InlineSummaries, Improved, Frame
<1>. HIDE DEF H
<1>3. NextCall \in Seq(Frame) /\ Len(NextCall) = Len(stack) /\ Len(stack) \in Nat \ {0} /\ notes # <<>>
  BY <1>0, <1>2, TopMoved
<1>4. /\ Len(stack') = Len(stack) + 1 /\ stack'[Len(stack) + 1] = H
      /\ \A k \in 1..Len(stack) : stack'[k] = NextCall[k]
  BY <1>2, <1>3
<1>5. \A k \in 1..Len(notes) : notes'[k].calls = notes[k].calls
  <2>1. Fresh \in Note
    BY DEF Fresh, Note
  <2>2. \A k \in 1..Len(notes) : notes'[k] = Found[k]
    BY <1>0, <1>1, <1>3, <2>1, FoundNotes
  <2>3. ASSUME NEW k \in 1..Len(notes) PROVE Found[k].calls = notes[k].calls
    BY <1>0, <1>3, FoundNotes
  <2>. QED
    BY <2>2, <2>3
<1>6. SUFFICES ASSUME NEW k \in 1..(Len(stack) + 1), NEW F \in Frame, F = stack'[k], notes'[k].calls = "YES"
               PROVE  /\ k = Len(stack) + 1 => FrameGood(F, F.site - 1)'
                      /\ k < Len(stack) + 1 => FrameGood(F, F.site - 2)'
  BY <1>4 DEF FramesGood
<1>7. CASE k = Len(stack) + 1
  <2>1. F.site = 1
    BY <1>2, <1>4, <1>6, <1>7
  <2>2. IsBody(prog[F.fun])
    BY <1>0, ProgramBodies DEF SummarizerTypeOK, Frame
  <2>3. FrameGood(F, F.site - 1)
    BY <2>1, <2>2 DEF FrameGood, IsBody
  <2>. QED
    BY <1>2, <1>3, <1>7, <2>3, FrameGoodStays
<1>8. CASE k \in 1..Len(stack)
  <2>1. F = NextCall[k] /\ notes[k].calls = "YES" /\ stack[k] \in Frame /\ Len(stack) \in 1..Len(stack)
    BY <1>0, <1>3, <1>4, <1>5, <1>6, <1>8
  <2>2. FrameGood(F, F.site - 2)
    <3>1. CASE k = Len(stack)
      <4>1. F.fun = Top.fun /\ F.pre = Top.pre /\ F.site = Top.site + 1 /\ Top \in Frame
        BY <1>0, <1>2, <2>1, <3>1, TopTyped, TopMoved
      <4>2. FrameGood(Top, Top.site - 1)
        BY <2>1, <3>1, <4>1 DEF Decided, FramesGood, Top
      <4>. QED
        BY <4>1, <4>2 DEF FrameGood, Frame
    <3>2. CASE k # Len(stack)
      <4>1. F = stack[k] /\ k < Len(stack)
        BY <1>0, <1>2, <1>3, <1>8, <2>1, <3>2, TopMoved
      <4>. QED
        BY <1>8, <2>1, <4>1 DEF Decided, FramesGood
    <3>. QED
      BY <3>1, <3>2
  <2>. QED
    BY <1>2, <1>3, <1>8, <2>2, FrameGoodStays
<1>. QED
  BY <1>3, <1>7, <1>8

(* A verdict YES of the new summary, and of the caller that waits for it.  *)
LEMMA StoreGood ==
    ASSUME Decided, stack # <<>>, Improved, UNCHANGED <<cmdline, prog>>,
           NEW T, NEW v \in {"YES", "NO", "UNKNOWN"}, Store(T, v),
           v = "YES" => \A x \in Top.pre : <<Top.fun, x>> \in Good
    PROVE  YesGood' /\ FramesGood'
<1>0. /\ SummarizerTypeOK /\ TermTypeOK /\ stack \in Seq(Frame) /\ Len(notes) = Len(stack) /\ Top \in Frame
      /\ stack' = SubSeq(stack, 1, Len(stack) - 1)
  BY TopTyped DEF Decided, SummarizerTypeOK, Frame, TermTypeOK, Store
<1>1. Good \subseteq Good'
  BY GoodGrows
<1>2. db' = Put(Top.fun, [pre |-> Top.pre, trans |-> Under(Top.pre, T)])
  BY DEF Store
<1>3. ASSUME NEW f \in DOMAIN db', verdict'[f] = "YES", NEW x \in db'[f].pre
      PROVE  <<f, x>> \in Good
  <2>1. CASE f # Top.fun
    <3>1. f \in DOMAIN db /\ verdict[f] = "YES" /\ db'[f] = db[f]
      BY <1>0, <1>2, <1>3, <2>1, PutVerdicts DEF Put
    <3>. QED
      BY <1>3, <3>1 DEF Decided, YesGood
  <2>2. CASE f = Top.fun /\ f \notin DOMAIN db
    <3>1. v = "YES" /\ db'[f].pre = Top.pre
      BY <1>0, <1>2, <1>3, <2>2, PutVerdicts DEF Put
    <3>. QED
      BY <1>3, <2>2, <3>1
  <2>3. CASE f = Top.fun /\ f \in DOMAIN db
    <3>1. JoinVerdicts(verdict[f], v) = "YES" /\ verdict[f] \in {"YES", "NO", "UNKNOWN"}
      BY <1>0, <1>3, <2>3, PutVerdicts DEF TermTypeOK
    <3>2. verdict[f] = "YES" /\ v = "YES"
      BY <3>1, JoinsTyped
    <3>3. db'[f].pre = db[f].pre \cup Top.pre
      BY <1>2, <2>3 DEF Put, Join
    <3>. QED
      BY <1>3, <2>3, <3>2, <3>3 DEF Decided, YesGood
  <2>. QED
    BY <2>1, <2>2, <2>3
<1>4. YesGood'
  BY <1>1, <1>3 DEF YesGood
<1>5. /\ Len(stack) \in Nat \ {0} /\ Len(stack') = Len(stack) - 1
      /\ \A k \in 1..(Len(stack) - 1) : stack'[k] = stack[k]
  BY <1>0, StackPopped, TopMoved
<1>6. \A k \in 1..(Len(notes) - 1) :
          /\ k # Len(notes) - 1 => notes'[k] = notes[k]
          /\ k = Len(notes) - 1 => notes'[k] = Noted(notes[k], Top.fun, verdict')
  BY <1>0, StoredNotes
<1>7. SUFFICES ASSUME NEW k \in 1..(Len(stack) - 1), NEW F \in Frame, F = stack[k], notes'[k].calls = "YES"
               PROVE  /\ k = Len(stack) - 1 => FrameGood(F, F.site - 1)'
                      /\ k < Len(stack) - 1 => FrameGood(F, F.site - 2)'
  BY <1>4, <1>5 DEF FramesGood
<1>8. k \in 1..Len(stack) /\ k < Len(stack) /\ notes[k] \in Note
  BY <1>0, <1>5 DEF TermTypeOK
<1>9. notes[k].calls = "YES"
  BY <1>0, <1>6, <1>7, <1>8, NotedTyped
<1>10. FrameGood(F, F.site - 2)
  BY <1>7, <1>8, <1>9 DEF Decided, FramesGood
<1>11. CASE k = Len(stack) - 1
  <2>1. verdict'[Top.fun] = "YES" /\ Top.fun \in DOMAIN db'
    <3>1. notes'[k] = Noted(notes[k], Top.fun, verdict')
      BY <1>0, <1>6, <1>11
    <3>2. Top.fun \in DOMAIN db' /\ DOMAIN verdict' = DOMAIN db'
      BY <1>0, PutVerdicts
    <3>3. Noted(notes[k], Top.fun, verdict').calls = "YES"
      BY <1>7, <3>1
    <3>. QED
      BY <1>8, <3>2, <3>3, NotedTyped
  <2>2. \A x \in Top.pre : <<Top.fun, x>> \in Good
    <3>1. Top.pre \subseteq db'[Top.fun].pre
      BY <1>2 DEF Put, Join
    <3>. QED
      BY <1>3, <2>1, <3>1
  <2>3. FramePending(F, Top)
    <3>1. stack[k + 1] = Top
      BY <1>5, <1>11 DEF Top
    <3>. QED
      BY <1>0, <1>7, <1>8, <3>1, DecidedOpen DEF Decided, ContextsInv, FramesCovered
  <2>4. ASSUME NEW i \in 1..prog[F.fun].n, i = F.site - 1
        PROVE  CallsIn(F.fun, F.pre, i, Good)
    BY <2>2, <2>3, <2>4 DEF FramePending, CallsIn
  <2>5. F.site \in Nat /\ IsBody(prog[F.fun])
    BY <1>0, ProgramBodies DEF SummarizerTypeOK, Frame
  <2>6. FrameGood(F, F.site - 1)
    BY <1>10, <2>4, <2>5 DEF FrameGood, IsBody
  <2>. QED
    BY <1>11, <2>6, FrameGoodStays
<1>12. CASE k < Len(stack) - 1
  BY <1>10, <1>12, FrameGoodStays
<1>. QED
  BY <1>5, <1>11, <1>12

(* The verdict YES is given where the loops are known to end, and where    *)
(* the calls do.                                                           *)
LEMMA YesVerdictEnds ==
    ASSUME SummarizerTypeOK, TermTypeOK, Termination, stack # <<>>,
           "YES" \in TermVerdicts
    PROVE  \A x \in Top.pre : EndsOn(Top.fun, x)
<1>0. stack \in Seq(Frame)
  BY DEF SummarizerTypeOK, Frame
<1>1. Top \in Frame /\ Top.fun \in Fun /\ Top.pre \subseteq Value /\ IsBody(Body)
  BY <1>0, TopTyped, ProgramBodies DEF SummarizerTypeOK, Frame, Body
<1>2. SUFFICES ASSUME NEW m \in Models(Body), m.arg \in Top.pre, ~Fails(Body, m),
                      SummariesHold(Body, m, 1..Body.n)
               PROVE  Results(Body, m) # {}
  BY DEF EndsOn, Considered, Body
<1>3. CASE Top.fun \in loopy
  <2>1. m \in Assumed
    BY <1>2 DEF Assumed, Context, Body
  <2>. QED
    BY <1>0, <1>3, <2>1, VerdictsFrom
<1>4. CASE Top.fun \notin loopy
  <2>1. ~HasLoop(prog, Top.fun)
    BY <1>1, <1>4 DEF TermTypeOK
  <2>2. Behind(m, Body.n) \in Value
    <3>1. Body.n \in 0..Body.n
      BY <1>1 DEF IsBody
    <3>. QED
      BY <1>1, <3>1, BehindIsValue
  <2>. QED
    BY <2>1, <2>2 DEF HasLoop, Results, Body
<1>. QED
  BY <1>3, <1>4

LEMMA StoreEnds ==
    ASSUME SummarizerTypeOK, TermTypeOK, YesEnds, Improved, UNCHANGED <<cmdline, prog>>,
           NEW T, NEW v \in {"YES", "NO", "UNKNOWN"}, Store(T, v),
           v = "YES" => \A x \in Top.pre : EndsOn(Top.fun, x)
    PROVE  YesEnds'
<1>1. db' = Put(Top.fun, [pre |-> Top.pre, trans |-> Under(Top.pre, T)])
  BY DEF Store
<1>2. ASSUME NEW f \in DOMAIN db', verdict'[f] = "YES", NEW x \in db'[f].pre
      PROVE  EndsOn(f, x)
  <2>1. CASE f # Top.fun
    <3>1. f \in DOMAIN db /\ verdict[f] = "YES" /\ db'[f] = db[f]
      BY <1>1, <1>2, <2>1, PutVerdicts DEF Put
    <3>. QED
      BY <1>2, <3>1 DEF YesEnds
  <2>2. CASE f = Top.fun /\ f \notin DOMAIN db
    <3>1. v = "YES" /\ db'[f].pre = Top.pre
      BY <1>1, <1>2, <2>2, PutVerdicts DEF Put
    <3>. QED
      BY <1>2, <2>2, <3>1
  <2>3. CASE f = Top.fun /\ f \in DOMAIN db
    <3>1. JoinVerdicts(verdict[f], v) = "YES" /\ verdict[f] \in {"YES", "NO", "UNKNOWN"}
      BY <1>2, <2>3, PutVerdicts DEF TermTypeOK
    <3>2. verdict[f] = "YES" /\ v = "YES"
      BY <3>1, JoinsTyped
    <3>3. db'[f].pre = db[f].pre \cup Top.pre
      BY <1>1, <2>3 DEF Put, Join
    <3>. QED
      BY <1>2, <2>3, <3>2, <3>3 DEF YesEnds
  <2>. QED
    BY <2>1, <2>2, <2>3
<1>. QED
  BY <1>2, EndsStays DEF YesEnds

LEMMA VerdictInit == TermInit => VerdictInv
<1>. SUFFICES ASSUME TermInit PROVE VerdictInv
  OBVIOUS
<1>1. DOMAIN db = {} /\ Len(stack) = 0
  BY DEF TermInit, Init
<1>2. TermTypeInv /\ ContextsInv
  BY TermTypesInit, ContextsInit DEF TermInit
<1>. QED
  BY <1>1, <1>2 DEF VerdictInv, YesEnds, YesGood, FramesGood

LEMMA EndsStep ==
    ASSUME SummarizerTypeOK, TermTypeOK, YesEnds, Termination, [TermNext]_termVars,
           Improved, UNCHANGED <<cmdline, prog>>
    PROVE  YesEnds'
<1>1. CASE NeverReturns
  <2>1. Store({}, "NO")
    BY <1>1 DEF NeverReturns
  <2>. QED
    BY <2>1, StoreEnds
<1>2. CASE MayReturn
  <2>1. PICK T \in ComputedTransformers, v \in TermVerdicts : Store(T, v)
    BY <1>2 DEF MayReturn
  <2>2. stack # <<>> /\ stack \in Seq(Frame)
    BY <1>2 DEF MayReturn, AtEnd, SummarizerTypeOK, Frame
  <2>3. v \in {"YES", "UNKNOWN"}
    BY <2>1, <2>2, VerdictsFrom
  <2>4. v = "YES" => \A x \in Top.pre : EndsOn(Top.fun, x)
    BY <2>1, <2>2, YesVerdictEnds
  <2>. QED
    BY <2>1, <2>3, <2>4, StoreEnds
<1>3. CASE UNCHANGED <<db, verdict>>
  BY <1>3, YesStays
<1>. QED
  BY <1>1, <1>2, <1>3
  DEF TermNext, TermSummarize, TermSkipCall, TermUseSummary, TermSummarizeCallee,
      TermFinish, TermExplore, Summarize, Finish, Explore, termVars, vars

LEMMA GoodStep ==
    ASSUME Decided, YesEnds, [TermNext]_termVars, Improved, UNCHANGED <<cmdline, prog>>
    PROVE  YesGood' /\ FramesGood'
<1>0. SummarizerTypeOK /\ TermTypeOK /\ stack \in Seq(Frame) /\ YesGood /\ FramesGood
  BY DEF Decided, SummarizerTypeOK, Frame
<1>1. CASE TermSummarize
  <2>1. PICK f : stack' = IF f \in DOMAIN db THEN <<>> ELSE <<[fun |-> f, pre |-> Value, site |-> 1]>>
    BY <1>1 DEF TermSummarize, Summarize
  <2>2. YesGood'
    BY <1>0, <1>1, YesStays DEF TermSummarize, Summarize
  <2>3. CASE stack' = <<>>
    BY <2>2, <2>3 DEF FramesGood
  <2>4. CASE stack' = <<[fun |-> f, pre |-> Value, site |-> 1]>>
    <3>1. Len(stack') = 1 /\ stack'[1].site = 1
      BY <2>4
    <3>2. \A F : F.site = 1 => FrameGood(F, F.site - 1)'
      <4>1. ASSUME NEW F, F.site = 1 PROVE FrameGood(F, F.site - 1)'
        BY <4>1 DEF FrameGood
      <4>. QED
        BY <4>1
    <3>. QED
      BY <2>2, <3>1, <3>2 DEF FramesGood
  <2>. QED
    BY <2>1, <2>3, <2>4
<1>2. CASE TermSkipCall
  BY <1>0, <1>2, SkipFrames, YesStays DEF TermSkipCall
<1>3. CASE TermUseSummary
  BY <1>0, <1>3, UseFrames, YesStays DEF TermUseSummary
<1>4. CASE TermSummarizeCallee
  BY <1>0, <1>4, CalleeFrames, YesStays DEF TermSummarizeCallee
<1>5. CASE NeverReturns
  <2>1. Store({}, "NO") /\ stack # <<>>
    BY <1>5 DEF NeverReturns, AtEnd
  <2>. QED
    BY <2>1, StoreGood
<1>6. CASE MayReturn
  <2>1. PICK T \in ComputedTransformers, v \in TermVerdicts : Store(T, v)
    BY <1>6 DEF MayReturn
  <2>2. stack # <<>> /\ Top.site > Body.n
    BY <1>6 DEF MayReturn, AtEnd
  <2>3. v \in {"YES", "UNKNOWN"}
    BY <1>0, <2>1, <2>2, VerdictsFrom
  <2>4. ASSUME v = "YES" PROVE \A x \in Top.pre : <<Top.fun, x>> \in Good
    <3>1. Top \in Frame /\ Top.fun \in Fun /\ Top.pre \in SUBSET Value /\ Top.site \in Nat /\ IsBody(Body)
      BY <1>0, <2>2, TopTyped, ProgramBodies DEF SummarizerTypeOK, Frame, Body
    <3>2. \A x \in Top.pre : EndsOn(Top.fun, x)
      BY <1>0, <2>1, <2>2, <2>4, YesVerdictEnds DEF Decided
    <3>3. FrameGood(Top, Top.site - 1)
      <4>1. notes[Len(stack)].calls = "YES" /\ Len(stack) \in 1..Len(stack)
        BY <1>0, <2>1, <2>2, <2>4, VerdictsFrom, TopMoved DEF TermTypeOK
      <4>. QED
        BY <1>0, <3>1, <4>1 DEF FramesGood, Top
    <3>4. ASSUME NEW i \in 1..prog[Top.fun].n PROVE CallsIn(Top.fun, Top.pre, i, Good)
      <4>1. i <= Top.site - 1
        BY <2>2, <3>1 DEF Body, IsBody
      <4>. QED
        BY <3>3, <4>1 DEF FrameGood
    <3>. QED
      BY <3>1, <3>2, <3>4, GoodContext
  <2>. QED
    BY <2>1, <2>2, <2>3, <2>4, StoreGood
<1>7. CASE UNCHANGED <<db, verdict, stack, notes>>
  <2>1. FramesGood'
    BY <1>0, <1>7, FrameGoodStays DEF FramesGood
  <2>. QED
    BY <1>0, <1>7, <2>1, YesStays
<1>. QED
  BY <1>1, <1>2, <1>3, <1>4, <1>5, <1>6, <1>7
  DEF TermNext, TermFinish, TermExplore, Finish, Explore, termVars, vars

LEMMA VerdictStep == VerdictInv /\ [AnalysisNext]_termVars => VerdictInv'
<1>. SUFFICES ASSUME VerdictInv, [AnalysisNext]_termVars PROVE VerdictInv'
  OBVIOUS
<1>1. SummarizerTypeOK /\ [AnyStep]_vars /\ TermTypeInv' /\ ContextsInv'
  BY AnalysisIsAnyStep, TermTypesStep, ContextsStep DEF VerdictInv, TermTypeInv
<1>2. Improved /\ UNCHANGED <<cmdline, prog>>
  BY <1>1, StepImproves, OptionsStay
<1>3. /\ Termination' => Termination
      /\ AssertionsFirst' => AssertionsFirst
      /\ NothingHidden' => NothingHidden
  BY <1>2, HiddenStays DEF Termination, Isset, AssertionsFirst
<1>4. NoRecursion' => NoRecursion
  BY <1>2 DEF NoRecursion, RanksFunctions
<1>5. ASSUME Termination PROVE TermTypeOK /\ YesEnds /\ [TermNext]_termVars
  BY <1>5 DEF VerdictInv, TermTypeInv, AnalysisNext
<1>6. Termination => YesEnds'
  BY <1>1, <1>2, <1>5, EndsStep
<1>7. ASSUME Termination, AssertionsFirst, NoRecursion, NothingHidden PROVE YesGood' /\ FramesGood'
  <2>1. Decided
    BY <1>1, <1>5, <1>7 DEF Decided, VerdictInv
  <2>. QED
    BY <1>2, <1>5, <1>7, <2>1, GoodStep
<1>. QED
  BY <1>1, <1>3, <1>4, <1>6, <1>7 DEF VerdictInv

-----------------------------------------------------------------------------
(* No execution leaves the good arguments.                                 *)

DivergingStep(S) ==
    {c \in S : LoopsForever(c[1], c[2]) \/ CallsForever(c[1], c[2], S) # {}}

UpTo(n, D) ==
    D = [k \in 0..n |-> IF k = 0 THEN Fun \X Value ELSE DivergingStep(D[k - 1])]

LEMMA UpToIs ==
    ASSUME NEW n \in Nat, NEW D, UpTo(n, D), NEW k \in 0..n
    PROVE  D[k] = IF k = 0 THEN Fun \X Value ELSE DivergingStep(D[k - 1])
<1>. DEFINE R(j) == IF j = 0 THEN Fun \X Value ELSE DivergingStep(D[j - 1])
<1>1. D = [j \in 0..n |-> R(j)]
  BY DEF UpTo
<1>. HIDE DEF R
<1>2. D[k] = R(k)
  BY <1>1
<1>. QED
  BY <1>2 DEF R

LEMMA UpToGrows ==
    ASSUME NEW n \in Nat, NEW D, UpTo(n, D)
    PROVE  \E E : UpTo(n + 1, E)
<1>. DEFINE E == [k \in 0..(n + 1) |-> IF k <= n THEN D[k] ELSE DivergingStep(D[n])]
<1>1. ASSUME NEW k \in 0..(n + 1)
      PROVE  E[k] = IF k = 0 THEN Fun \X Value ELSE DivergingStep(E[k - 1])
  <2>1. CASE k = 0
    BY <2>1 DEF UpTo
  <2>2. CASE k \in 1..n
    <3>1. E[k] = D[k] /\ E[k - 1] = D[k - 1]
      BY <2>2
    <3>2. D[k] = DivergingStep(D[k - 1])
      BY <2>2, UpToIs
    <3>. QED
      BY <2>2, <3>1, <3>2
  <2>3. CASE k = n + 1
    <3>1. E[k] = DivergingStep(D[n]) /\ E[k - 1] = D[n]
      BY <2>3
    <3>. QED
      BY <2>3, <3>1
  <2>. QED
    BY <2>1, <2>2, <2>3
<1>2. DOMAIN E = 0..(n + 1) /\ E = [k \in 0..(n + 1) |-> E[k]]
  OBVIOUS
<1>. HIDE DEF E
<1>3. UpTo(n + 1, E)
  BY <1>1, <1>2 DEF UpTo
<1>. QED
  BY <1>3

LEMMA UpToExists == ASSUME NEW n \in Nat PROVE \E D : UpTo(n, D)
<1>. DEFINE Defined == {k \in 0..n : \E D : UpTo(k, D)}
<1>1. 0 \in Defined
  <2>. DEFINE D == [k \in 0..0 |-> Fun \X Value]
  <2>1. UpTo(0, D)
    BY DEF UpTo
  <2>. QED
    BY <2>1
<1>2. PICK k \in Defined : \A j \in Defined : j <= k
  <2>1. Defined \in SUBSET (0..n) /\ Defined # {}
    BY <1>1
  <2>. HIDE DEF Defined
  <2>. QED
    BY <2>1, GreatestNumber
<1>3. k \in 0..n /\ \E D : UpTo(k, D)
  OBVIOUS
<1>4. k = n
  <2>1. SUFFICES ASSUME k < n PROVE FALSE
    BY <1>3
  <2>2. \E E : UpTo(k + 1, E)
    BY <1>3, UpToGrows
  <2>3. k + 1 \in Defined
    BY <1>3, <2>1, <2>2
  <2>4. k + 1 <= k
    <3>. HIDE DEF Defined
    <3>. QED
      BY <1>2, <2>3
  <2>. QED
    BY <1>3, <2>4
<1>. QED
  BY <1>3, <1>4

LEMMA PairsAreMany == Pairs \in Nat /\ Cardinality(Fun) \in Nat /\ Cardinality(Fun) <= Pairs
<1>1. PICK x \in Value : TRUE
  BY ProgramAssumption
<1>2. IsFiniteSet(Fun \X Value)
  BY ProgramAssumption, FS_Product
<1>. DEFINE h == [f \in Fun |-> <<f, x>>]
<1>3. h \in Injection(Fun, Fun \X Value)
  BY DEF Injection, IsInjective
<1>4. Cardinality(Fun) <= Cardinality(Fun \X Value)
  <2>. HIDE DEF h
  <2>. QED
    BY <1>2, <1>3, FS_Injection
<1>. QED
  BY <1>2, <1>4, ProgramAssumption, FS_CardinalityType DEF Pairs

LEMMA DivergingDefined == UpTo(Pairs, DivergingAfter)
<1>1. \E D : UpTo(Pairs, D)
  BY PairsAreMany, UpToExists
<1>. QED
  BY <1>1 DEF UpTo, DivergingAfter, DivergingStep

LEMMA DivergingPairs ==
    ASSUME NEW k \in 0..Pairs PROVE DivergingAfter[k] \subseteq Fun \X Value
<1>. DEFINE Others == {j \in 0..Pairs : ~(DivergingAfter[j] \subseteq Fun \X Value)}
<1>1. SUFFICES ASSUME Others # {} PROVE FALSE
  OBVIOUS
<1>2. PICK j \in Others : \A i \in Others : j <= i
  <2>1. Others \in SUBSET Nat
    BY PairsAreMany
  <2>. HIDE DEF Others
  <2>. QED
    BY <1>1, <2>1, LeastNumber
<1>3. DivergingAfter[j] =
          IF j = 0 THEN Fun \X Value ELSE DivergingStep(DivergingAfter[j - 1])
  BY PairsAreMany, DivergingDefined, UpToIs
<1>4. j # 0 /\ j - 1 \in 0..Pairs
  BY <1>3, PairsAreMany
<1>5. j - 1 \in Others
  BY <1>3, <1>4 DEF DivergingStep
<1>6. j <= j - 1
  <2>. HIDE DEF Others
  <2>. QED
    BY <1>2, <1>5
<1>. QED
  BY <1>4, <1>6, PairsAreMany

(* An execution satisfies the summaries of the calls it has behind it.     *)
LEMMA GoodEnds ==
    ASSUME SummarizerTypeOK, SummariesCover, NEW f \in Fun, NEW x, EndsOn(f, x)
    PROVE  ~LoopsForever(f, x)
<1>1. SUFFICES ASSUME NEW m \in Models(prog[f]), m.arg = x, ComesTo(f, m, prog[f].n + 1),
                      Results(prog[f], m) = {}
               PROVE  FALSE
  BY DEF LoopsForever
<1>2. prog[f].n \in Nat /\ prog[f].place \in 0..prog[f].n
  BY ProgramBodies DEF SummarizerTypeOK, IsBody
<1>3. prog[f].n \in 0..prog[f].n /\ prog[f].place < prog[f].n + 1 /\ prog[f].n + 1 - 1 = prog[f].n
  BY <1>2
<1>4. Runs(returned, prog[f], m, prog[f].n) /\ ~Fails(prog[f], m)
  BY <1>1, <1>3 DEF ComesTo
<1>5. SummariesHold(prog[f], m, 1..prog[f].n)
  BY <1>3, <1>4, RunsHold
<1>. QED
  BY <1>1, <1>4, <1>5 DEF EndsOn, Considered

LEMMA GoodCalls ==
    ASSUME SummarizerTypeOK, SummariesCover, AssertionsFirst, NEW f \in Fun, NEW x,
           NEW i \in 1..prog[f].n, CallsIn(f, {x}, i, Good), prog[f].site[i].callee \in Fun,
           NEW m \in Models(prog[f]), m.arg = x, ComesTo(f, m, i), Taken(prog[f], m, i)
    PROVE  <<prog[f].site[i].callee, Argument(prog[f], m, i)>> \in Good
<1>1. prog[f].n \in Nat /\ i - 1 \in 0..prog[f].n /\ 0 < i
  BY ProgramBodies DEF SummarizerTypeOK, IsBody
<1>2. SummariesHold(prog[f], m, 1..(i - 1))
  BY <1>1, RunsHold DEF ComesTo
<1>3. ~Fails(prog[f], m)
  BY <1>1 DEF AssertionsFirst, ComesTo, Fails
<1>4. m \in Ways(f, {x}, i)
  BY <1>2, <1>3 DEF Ways, Considered
<1>. QED
  BY <1>4 DEF CallsIn

LEMMA GoodNotDiverging ==
    ASSUME SummarizerTypeOK, SummariesCover, AssertionsFirst, NoRecursion,
           NEW f \in Fun, NEW x \in Value, <<f, x>> \in Good
    PROVE  <<f, x>> \notin Diverging
<1>1. PICK rank : RanksFunctions(rank)
  BY DEF NoRecursion
<1>2. \A g \in Fun : rank[g] \in Nat /\ rank[g] < Pairs
  BY <1>1, PairsAreMany DEF RanksFunctions
<1>. DEFINE Late == {r \in Nat : \E g \in Fun, z \in Value, k \in 0..Pairs :
                        rank[g] = r /\ r < k /\ <<g, z>> \in Good /\ <<g, z>> \in DivergingAfter[k]}
<1>3. SUFFICES ASSUME Late # {} PROVE FALSE
  <2>1. ASSUME <<f, x>> \in Diverging PROVE rank[f] \in Late
    BY <1>2, <2>1, PairsAreMany DEF Diverging
  <2>. QED
    BY <2>1
<1>4. PICK r \in Late : \A q \in Late : r <= q
  <2>1. Late \in SUBSET Nat
    OBVIOUS
  <2>. HIDE DEF Late
  <2>. QED
    BY <1>3, <2>1, LeastNumber
<1>5. PICK g \in Fun, z \in Value, k \in 0..Pairs :
          rank[g] = r /\ r < k /\ <<g, z>> \in Good /\ <<g, z>> \in DivergingAfter[k]
  OBVIOUS
<1>6. r \in Nat /\ k - 1 \in 0..Pairs /\ k # 0 /\ k \in Nat
  BY <1>5, PairsAreMany
<1>7. DivergingAfter[k] = DivergingStep(DivergingAfter[k - 1])
  BY <1>6, PairsAreMany, DivergingDefined, UpToIs
<1>8. LoopsForever(g, z) \/ CallsForever(g, z, DivergingAfter[k - 1]) # {}
  BY <1>5, <1>7 DEF DivergingStep
<1>9. EndsOn(g, z) /\ \A i \in 1..prog[g].n : CallsIn(g, {z}, i, Good)
  BY <1>5, GoodIsClosed DEF ClosedSet
<1>10. PICK i \in 1..prog[g].n, m \in Models(prog[g]) :
          /\ m.arg = z /\ ComesTo(g, m, i) /\ Taken(prog[g], m, i)
          /\ <<prog[g].site[i].callee, Argument(prog[g], m, i)>> \in DivergingAfter[k - 1]
  BY <1>8, <1>9, GoodEnds DEF CallsForever
<1>11. prog[g].site[i].callee \in Fun /\ Argument(prog[g], m, i) \in Value
  BY <1>6, <1>10, DivergingPairs
<1>12. <<prog[g].site[i].callee, Argument(prog[g], m, i)>> \in Good
  BY <1>9, <1>10, <1>11, GoodCalls
<1>13. rank[prog[g].site[i].callee] \in Nat /\ rank[prog[g].site[i].callee] < r
  BY <1>1, <1>2, <1>5, <1>11 DEF RanksFunctions
<1>14. rank[prog[g].site[i].callee] \in Late
  <2>1. rank[prog[g].site[i].callee] < k - 1
    BY <1>5, <1>6, <1>13
  <2>. QED
    BY <1>6, <1>10, <1>11, <1>12, <1>13, <2>1
<1>15. r <= rank[prog[g].site[i].callee]
  <2>. HIDE DEF Late
  <2>. QED
    BY <1>4, <1>14
<1>. QED
  BY <1>6, <1>13, <1>15

-----------------------------------------------------------------------------
LEMMA AnalysisInvariants == AnalysisSpec => []VerdictInv /\ []CoverInv
BY AnalysisTakesAnyStep, CoverInit, CoverStep, VerdictInit, VerdictStep, PTL DEF AnalysisSpec

(* A function that is said to terminate ends in every context it was       *)
(* analysed in (report_termination, summary_dbt::put): for programs        *)
(* without recursion whose assertions stand before their calls, the ones   *)
(* in which a skipped call is really unreachable.                          *)
THEOREM VerdictsSound ==
    AnalysisSpec => [](AssertionsFirst /\ NoRecursion => VerdictsAreSound)
<1>1. ASSUME VerdictInv, CoverInv, AssertionsFirst, NoRecursion PROVE VerdictsAreSound
  <2>1. SUFFICES ASSUME AnalysedTermination, NothingHidden,
                        NEW f \in DOMAIN db, verdict[f] = "YES", NEW x \in db[f].pre
                 PROVE  <<f, x>> \notin Diverging
    BY DEF VerdictsAreSound
  <2>2. YesGood /\ SummarizerTypeOK /\ SummariesCover
    BY <1>1, <2>1 DEF VerdictInv, CoverInv, AnalysedTermination
  <2>3. f \in Fun /\ x \in Value
    BY <2>2 DEF SummarizerTypeOK, Summary
  <2>4. <<f, x>> \in Good
    BY <2>1, <2>2 DEF YesGood
  <2>. QED
    BY <1>1, <2>2, <2>3, <2>4, GoodNotDiverging
<1>2. VerdictInv /\ CoverInv => (AssertionsFirst /\ NoRecursion => VerdictsAreSound)
  BY <1>1
<1>. QED
  BY AnalysisInvariants, <1>2, PTL

-----------------------------------------------------------------------------
(* The report.  If all functions are said to terminate, no summary says    *)
(* false: a function whose callees all return something returns something  *)
(* itself, as it ends.                                                     *)

NoAssertions == \A f \in Fun : prog[f].bad = {}

Silent(g, x) == \A y \in Value : <<x, y>> \notin db[g].trans

LEMMA EndingReturns ==
    ASSUME CoverInv, OutsideOpen, YesEnds, NoAssertions,
           NEW g \in DOMAIN db, verdict[g] = "YES", NEW x \in db[g].pre,
           \A i \in 1..prog[g].n : prog[g].site[i].callee \in DOMAIN db =>
               \A z \in db[prog[g].site[i].callee].pre : ~Silent(prog[g].site[i].callee, z)
    PROVE  ~Silent(g, x)
<1>. DEFINE b == prog[g]
            m == [arg |-> x, ret |-> [i \in 1..b.n |-> x]]
<1>1. g \in Fun /\ x \in Value /\ IsBody(b)
  BY ProgramBodies DEF CoverInv, SummarizerTypeOK, Summary
<1>2. CalleesOpen(b)
  BY DEF CalleesOpen, OutsideOpen, Silent
<1>3. Prefix(b, m, 0) /\ 0 \in 0..b.n
  BY <1>1 DEF Prefix, SummariesHold, IsBody
<1>4. m.arg = x
  OBVIOUS
<1>. HIDE DEF b, m
<1>5. PICK l \in Models(b) : SummariesHold(b, l, 1..b.n) /\ Agree(m, l, 0)
  BY <1>1, <1>2, <1>3, PrefixExtends
<1>6. l.arg = x /\ Considered(g, l)
  BY <1>1, <1>4, <1>5 DEF Agree, Considered, NoAssertions, Fails
<1>7. PICK y : y \in Results(b, l)
  BY <1>5, <1>6 DEF YesEnds, EndsOn, b
<1>8. y \in Value
  BY <1>1, <1>5, <1>7, ResultsAreValues
<1>9. <<x, y>> \in db[g].trans
  BY <1>5, <1>6, <1>7 DEF CoverInv, BodiesClosed, Transition, b
<1>. QED
  BY <1>8, <1>9 DEF Silent

LEMMA PassHidesNothing ==
    ASSUME CoverInv, OutsideOpen, YesEnds, NoAssertions, NoRecursion,
           \A f \in DOMAIN db : verdict[f] = "YES"
    PROVE  NothingHidden
<1>1. PICK rank : RanksFunctions(rank)
  BY DEF NoRecursion
<1>2. DOMAIN db \subseteq Fun /\ \A g \in Fun : rank[g] \in Nat
  BY <1>1, PairsAreMany DEF RanksFunctions, CoverInv, SummarizerTypeOK
<1>. DEFINE Hiding == {r \in Nat : \E g \in DOMAIN db : rank[g] = r /\ \E x \in db[g].pre : Silent(g, x)}
<1>3. SUFFICES ASSUME Hiding # {} PROVE FALSE
  <2>1. ASSUME NEW g \in DOMAIN db, NEW x \in db[g].pre, Silent(g, x) PROVE rank[g] \in Hiding
    BY <1>2, <2>1
  <2>. QED
    BY <2>1 DEF NothingHidden, Silent
<1>4. PICK r \in Hiding : \A q \in Hiding : r <= q
  <2>1. Hiding \in SUBSET Nat
    OBVIOUS
  <2>. HIDE DEF Hiding
  <2>. QED
    BY <1>3, <2>1, LeastNumber
<1>5. PICK g \in DOMAIN db : rank[g] = r /\ \E x \in db[g].pre : Silent(g, x)
  OBVIOUS
<1>6. ASSUME NEW i \in 1..prog[g].n, prog[g].site[i].callee \in DOMAIN db,
             NEW z \in db[prog[g].site[i].callee].pre
      PROVE  ~Silent(prog[g].site[i].callee, z)
  <2>. DEFINE h == prog[g].site[i].callee
  <2>1. rank[h] \in Nat /\ rank[h] < r
    BY <1>1, <1>2, <1>5, <1>6 DEF RanksFunctions
  <2>2. rank[h] \notin Hiding
    <3>. HIDE DEF Hiding
    <3>. QED
      BY <1>4, <1>5, <1>2, <2>1
  <2>. QED
    BY <1>6, <2>1, <2>2
<1>7. \A x \in db[g].pre : ~Silent(g, x)
  BY <1>5, <1>6, EndingReturns
<1>. QED
  BY <1>5, <1>7

(* When the report is PASS, every execution of the program ends            *)
(* (report_termination): for programs without recursion and assertions.    *)
THEOREM ReportSound ==
    AnalysisSpec => [](NoAssertions /\ NoRecursion => ReportIsSound)
<1>1. ASSUME VerdictInv, CoverInv, EntryInv, NoAssertions, NoRecursion PROVE ReportIsSound
  <2>1. SUFFICES ASSUME AnalysedTermination, ReportTermination = "PASS", NEW x \in Value
                 PROVE  <<Entry, x>> \notin Diverging
    BY DEF ReportIsSound
  <2>2. \A f \in DOMAIN db : verdict[f] = "YES"
    BY <2>1 DEF ReportTermination
  <2>3. Termination /\ phase = "done" /\ YesEnds /\ OutsideOpen
    BY <1>1, <2>1 DEF VerdictInv, ContextsInv, AnalysedTermination
  <2>4. NothingHidden
    BY <1>1, <2>2, <2>3, PassHidesNothing
  <2>5. AssertionsFirst
    BY <1>1 DEF NoAssertions, AssertionsFirst
  <2>6. YesGood
    BY <1>1, <2>3, <2>4, <2>5 DEF VerdictInv
  <2>7. Entry \in DOMAIN db /\ db[Entry].pre = Value
    BY <1>1, <2>3 DEF EntryInv
  <2>8. <<Entry, x>> \in Good
    BY <2>2, <2>6, <2>7 DEF YesGood
  <2>. QED
    BY <1>1, <2>5, <2>8, GoodNotDiverging, ProgramAssumption DEF CoverInv
<1>2. VerdictInv => WholeInv
  BY DEF VerdictInv, ContextsInv
<1>3. AnalysisSpec => []EntryInv
  BY AnalysisTakesAnyStep, AnalysisInvariants, EntryInit, EntryStep, <1>2, PTL
<1>4. VerdictInv /\ CoverInv /\ EntryInv => (NoAssertions /\ NoRecursion => ReportIsSound)
  BY <1>1
<1>. QED
  BY AnalysisInvariants, <1>3, <1>4, PTL

=============================================================================
