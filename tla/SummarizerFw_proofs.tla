------------------------- MODULE SummarizerFw_proofs -------------------------
(***************************************************************************)
(* The summaries of the forward analysis, for all programs, templates and  *)
(* options.  That a summary covers all executions is not inductive: the    *)
(* invariant is that the summaries are closed under the bodies, a model    *)
(* that satisfies the transformers of its callees being in the transformer *)
(* of its function.  It survives a new summary because transformers only   *)
(* ever shrink, and every execution is then covered as it is found.        *)
(*                                                                         *)
(* The summarizer of --termination takes other decisions along the same    *)
(* lines.  The proofs are about AnyStep, which leaves these decisions open *)
(* and keeps what the invariants need of them.                             *)
(***************************************************************************)
EXTENDS SummarizerFw, InductionLemmas, SequenceTheorems

Frame == [fun : Fun, pre : SUBSET Value, site : Nat \ {0}]

-----------------------------------------------------------------------------
(* Bodies, models and results have their types.                            *)

LEMMA ProgramBodies ==
    ASSUME NEW f \in Fun, IsProgram(prog)
    PROVE  IsBody(prog[f])
BY DEF IsProgram

LEMMA BehindIsValue ==
    ASSUME NEW b, IsBody(b), NEW m \in Models(b), NEW i \in 0..b.n
    PROVE  Behind(m, i) \in Value
BY DEF IsBody, Models, Behind

LEMMA ArgumentIsValue ==
    ASSUME NEW b, IsBody(b), NEW m \in Models(b), NEW i \in 1..b.n
    PROVE  /\ Argument(b, m, i) \in Value
           /\ b.site[i].callee \in Fun \cup External
<1>1. b.n \in Nat /\ i - 1 \in 0..b.n
  BY DEF IsBody
<1>2. Behind(m, i - 1) \in Value
  BY <1>1, BehindIsValue
<1>3. b.site[i] \in Site
  BY DEF IsBody
<1>. QED
  BY <1>2, <1>3 DEF Argument, Site

LEMMA ResultsAreValues ==
    ASSUME NEW b, IsBody(b), NEW m \in Models(b)
    PROVE  m.arg \in Value /\ Results(b, m) \subseteq Value
<1>1. b.n \in 0..b.n
  BY DEF IsBody
<1>2. Behind(m, b.n) \in Value
  BY <1>1, BehindIsValue
<1>. QED
  BY <1>2 DEF Results, IsBody, Models

-----------------------------------------------------------------------------
(* The type invariant.                                                     *)

LEMMA NextCallTyped ==
    ASSUME stack \in Seq(Frame), stack # <<>>
    PROVE  NextCall \in Seq(Frame) /\ Len(NextCall) = Len(stack)
<1>1. Len(stack) \in 1..Len(stack) /\ Len(stack) \in Nat
  OBVIOUS
<1>2. stack[Len(stack)] \in Frame
  BY <1>1
<1>3. [stack[Len(stack)] EXCEPT !.site = @ + 1] \in Frame
  <2>1. stack[Len(stack)].site + 1 \in Nat \ {0}
    BY <1>2 DEF Frame
  <2>. QED
    BY <1>2, <2>1 DEF Frame
<1>. QED
  BY <1>1, <1>3 DEF NextCall

LEMMA TopTyped ==
    ASSUME stack \in Seq(Frame), stack # <<>>
    PROVE  Top \in Frame /\ SubSeq(stack, 1, Len(stack) - 1) \in Seq(Frame)
<1>1. Len(stack) \in 1..Len(stack) /\ Len(stack) \in Nat
  OBVIOUS
<1>2. Top \in Frame
  BY <1>1 DEF Top
<1>. QED
  BY <1>1, <1>2

LEMMA TypesInit == Init => SummarizerTypeOK
<1>. SUFFICES ASSUME Init PROVE SummarizerTypeOK
  OBVIOUS
<1>. USE DEF Init
<1>1. cmdline \in CommandLines /\ IsProgram(prog)
  BY SummarizerAssumption
<1>2. DOMAIN db = {}
  OBVIOUS
<1>3. todo \subseteq Fun
  BY ProgramAssumption
<1>4. stack \in Seq([fun : Fun, pre : SUBSET Value, site : Nat \ {0}])
  OBVIOUS
<1>. QED
  BY <1>1, <1>2, <1>3, <1>4 DEF SummarizerTypeOK

(* The stack behind a function that has been summarized.                   *)
LEMMA StackPopped ==
    ASSUME stack \in Seq(Frame), stack # <<>>, stack' = SubSeq(stack, 1, Len(stack) - 1)
    PROVE  /\ stack' \in Seq(Frame)
           /\ Len(stack') = Len(stack) - 1
           /\ \A k \in 1..(Len(stack) - 1) : stack'[k] = stack[k]
<1>. DEFINE n == Len(stack) - 1
<1>1. n \in Nat /\ n <= Len(stack)
  OBVIOUS
<1>2. \A i \in 1..n : stack[i] \in Frame
  BY <1>1
<1>3. stack' = SubSeq(stack, 1, n)
  OBVIOUS
<1>. HIDE DEF n
<1>4. /\ SubSeq(stack, 1, n) \in Seq(Frame)
      /\ Len(SubSeq(stack, 1, n)) = IF 1 <= n THEN n - 1 + 1 ELSE 0
      /\ \A i \in 1..(n - 1 + 1) : SubSeq(stack, 1, n)[i] = stack[1 + i - 1]
  BY <1>1, <1>2, SubSeqProperties
<1>5. Len(stack') = n /\ \A i \in 1..n : stack'[i] = stack[i]
  BY <1>1, <1>3, <1>4
<1>. QED
  BY <1>3, <1>4, <1>5 DEF n

(* A frame that has still calls to look at.                                *)
LEMMA TopInlines ==
    ASSUME SummarizerTypeOK, InlineSummaries
    PROVE  /\ Top \in Frame /\ IsBody(Body) /\ Top.site \in 1..Body.n
           /\ Callee \in Fun \cup External
<1>1. stack \in Seq(Frame) /\ stack # <<>> /\ IsProgram(prog)
  BY DEF SummarizerTypeOK, InlineSummaries, Frame
<1>2. Top \in Frame
  BY <1>1, TopTyped
<1>3. IsBody(Body) /\ Top.site \in 1..Body.n
  <2>1. Top.fun \in Fun /\ Top.site \in Nat \ {0}
    BY <1>2 DEF Frame
  <2>2. IsBody(Body)
    BY <2>1, <1>1 DEF IsProgram, Body
  <2>3. Top.site <= Body.n /\ Body.n \in Nat
    BY <2>2 DEF InlineSummaries, IsBody
  <2>. QED
    BY <2>1, <2>2, <2>3
<1>4. Body.site[Top.site] \in Site
  BY <1>3 DEF IsBody
<1>. QED
  BY <1>2, <1>3, <1>4 DEF Site, Callee

(* The callee that inline_summaries goes down into has a body.             *)
LEMMA CalleeHasBody ==
    ASSUME SummarizerTypeOK, InlineSummaries, ~PreconditionHolds
    PROVE  Callee \in Fun
<1>1. Callee \in Fun \cup External /\ DOMAIN db \subseteq Fun
  BY TopInlines DEF SummarizerTypeOK
<1>. QED
  BY <1>1 DEF PreconditionHolds

LEMMA ContextTyped == CallingContext \subseteq SUBSET Value
<1>1. ValueDomain \in {"intervals", "zones"}
  BY DEF ValueDomain
<1>. QED
  BY <1>1, SummarizerAssumption DEF CallingContext, Least, Above

(* The entry of a function after put.                                      *)
LEMMA PutEntries ==
    ASSUME NEW f, NEW s
    PROVE  /\ DOMAIN Put(f, s) = DOMAIN db \cup {f}
           /\ \A g \in DOMAIN db : g # f => Put(f, s)[g] = db[g]
           /\ f \in DOMAIN db => Put(f, s)[f] = Join(db[f], s)
           /\ f \notin DOMAIN db => Put(f, s)[f] = s
BY DEF Put

LEMMA UnderIsRelation == ASSUME NEW pre, NEW T PROVE Under(pre, T) \subseteq Anything
BY DEF Under

LEMMA PutTyped ==
    ASSUME NEW f \in Fun, NEW s \in Summary,
           DOMAIN db \subseteq Fun, \A g \in DOMAIN db : db[g] \in Summary
    PROVE  /\ DOMAIN Put(f, s) \subseteq Fun
           /\ \A g \in DOMAIN Put(f, s) : Put(f, s)[g] \in Summary
<1>1. \A t \in Summary : Join(t, s) \in Summary
  BY DEF Join, Summary
<1>2. DOMAIN Put(f, s) = DOMAIN db \cup {f}
  BY PutEntries
<1>3. ASSUME NEW g \in DOMAIN Put(f, s) PROVE Put(f, s)[g] \in Summary
  <2>1. CASE g # f
    BY <2>1, <1>2 DEF Put
  <2>2. CASE g = f
    BY <2>2, <1>1 DEF Put
  <2>. QED
    BY <2>1, <2>2
<1>. QED
  BY <1>2, <1>3

LEMMA FoundTyped ==
    ASSUME IsProgram(prog), NEW R, NEW C
    PROVE  /\ ReturnsFound(prog, R) \subseteq Fun \X Value \X Value
           /\ CallsFound(prog, C, R) \subseteq (Fun \cup External) \X Value
<1>1. ASSUME NEW f \in Fun, NEW m \in Models(prog[f])
      PROVE  {f} \X {m.arg} \X Results(prog[f], m) \subseteq Fun \X Value \X Value
  <2>1. m.arg \in Value /\ Results(prog[f], m) \subseteq Value
    BY ProgramBodies, ResultsAreValues
  <2>. QED
    BY <2>1
<1>2. ReturnsFound(prog, R) \subseteq Fun \X Value \X Value
  BY <1>1 DEF ReturnsFound, Returning
<1>3. ASSUME NEW f \in Fun, NEW m \in Models(prog[f]), NEW i \in CallsMade(prog, R, f, m)
      PROVE  <<prog[f].site[i].callee, Argument(prog[f], m, i)>> \in (Fun \cup External) \X Value
  <2>1. i \in 1..prog[f].n
    BY DEF CallsMade
  <2>. QED
    BY <2>1, ProgramBodies, ArgumentIsValue
<1>4. {Entry} \X Value \subseteq (Fun \cup External) \X Value
  BY ProgramAssumption
<1>5. ASSUME NEW c \in CallsFound(prog, C, R) PROVE c \in (Fun \cup External) \X Value
  <2>1. CASE c \in {Entry} \X Value
    BY <2>1, <1>4
  <2>2. CASE c \notin {Entry} \X Value
    <3>. DEFINE Made(f, m) == {<<prog[f].site[i].callee, Argument(prog[f], m, i)>> : i \in CallsMade(prog, R, f, m)}
                MadeBy(f) == UNION {Made(f, m) : m \in {m \in Models(prog[f]) : <<f, m.arg>> \in C}}
    <3>0. CallsFound(prog, C, R) = {Entry} \X Value \cup UNION {MadeBy(f) : f \in Fun}
      BY DEF CallsFound
    <3>. HIDE DEF MadeBy
    <3>1. PICK f \in Fun : c \in MadeBy(f)
      BY <2>2, <1>5, <3>0
    <3>2. PICK m \in Models(prog[f]) : c \in Made(f, m)
      BY <3>1 DEF MadeBy
    <3>3. PICK i \in CallsMade(prog, R, f, m) :
              c = <<prog[f].site[i].callee, Argument(prog[f], m, i)>>
      BY <3>2 DEF Made
    <3>. QED
      BY <3>3, <1>3
  <2>. QED
    BY <2>1, <2>2
<1>. QED
  BY <1>2, <1>5

-----------------------------------------------------------------------------
(* The steps of both summarizers.  With --termination the models that fail *)
(* the assertion of their function are left out.                           *)

Considered(f, m) == Termination => ~Fails(prog[f], m)

(* Call i of f, made from the arguments in pre, in the models that satisfy *)
(* the summaries of the calls before it.                                   *)
Ways(f, pre, i) ==
    {m \in Models(prog[f]) :
        /\ m.arg \in pre /\ Considered(f, m)
        /\ SummariesHold(prog[f], m, 1..(i - 1)) /\ Taken(prog[f], m, i)}

(* A call that is not reachable, covered by a summary or left open.        *)
MoveOn ==
    /\ InlineSummaries
    /\ \/ \A m \in Context(Top.fun, Top.pre) :
            Considered(Top.fun, m) => ~Taken(Body, m, Top.site)
       \/ /\ Callee \in DOMAIN db
          /\ ContextSensitive =>
                \A m \in Context(Top.fun, Top.pre) :
                    Considered(Top.fun, m) => Argument(Body, m, Top.site) \in db[Callee].pre
       \/ Callee \in External
       \/ Callee = Top.fun
    /\ stack' = NextCall
    /\ UNCHANGED <<programVars, db, todo, phase>>

(* A call whose callee is summarized under pre.                            *)
GoDown(pre) ==
    /\ InlineSummaries
    /\ Callee \in Fun /\ pre \subseteq Value
    /\ \A m \in Ways(Top.fun, Top.pre, Top.site) : Argument(Body, m, Top.site) \in pre
    /\ ~ContextSensitive => pre = Value /\ Callee # Top.fun
    /\ stack' = Append(NextCall, [fun |-> Callee, pre |-> pre, site |-> 1])
    /\ UNCHANGED <<programVars, db, todo, phase>>

(* A summary with a transformer T that covers the models.                  *)
PutSummary(T) ==
    /\ phase = "summarize" /\ stack # <<>> /\ Top.site > Body.n
    /\ Transitions \subseteq T
    /\ db' = Put(Top.fun, [pre |-> Top.pre, trans |-> Under(Top.pre, T)])
    /\ stack' = SubSeq(stack, 1, Len(stack) - 1)
    /\ UNCHANGED <<programVars, todo, phase>>

AnyStep ==
    \/ Summarize
    \/ MoveOn
    \/ \E pre : GoDown(pre)
    \/ \E T : PutSummary(T)
    \/ Finish
    \/ Explore

(* A call that is judged and not covered is summarized in a context of its *)
(* own.                                                                    *)
LEMMA StepIsAnyStep == SummarizerTypeOK /\ [SummarizerNext]_vars => [AnyStep]_vars
<1>. SUFFICES ASSUME SummarizerTypeOK, SummarizerNext PROVE AnyStep
  OBVIOUS
<1>1. CASE SkipCall
  <2>1. MoveOn
    BY <1>1 DEF SkipCall, CallReachable, MoveOn
  <2>. QED
    BY <2>1 DEF AnyStep
<1>2. CASE UseSummary
  <2>1. MoveOn
    BY <1>2 DEF UseSummary, PreconditionHolds, MoveOn
  <2>. QED
    BY <2>1 DEF AnyStep
<1>3. CASE SummarizeCallee
  <2>1. InlineSummaries /\ ~PreconditionHolds
    BY <1>3 DEF SummarizeCallee
  <2>2. PICK pre \in CallingContext :
            stack' = Append(NextCall, [fun |-> Callee, pre |-> pre, site |-> 1])
    BY <1>3 DEF SummarizeCallee
  <2>3. Callee \in Fun /\ pre \subseteq Value
    BY <2>1, <2>2, CalleeHasBody, ContextTyped
  <2>4. IsBody(Body) /\ Top.site \in 1..Body.n
    BY <2>1, TopInlines
  <2>5. ASSUME NEW m \in Ways(Top.fun, Top.pre, Top.site)
        PROVE  Argument(Body, m, Top.site) \in pre
    <3>1. CASE ContextSensitive
      <4>1. ArgumentsAt(Top.site) \subseteq pre
        BY <2>2, <3>1 DEF CallingContext, Least, Above
      <4>2. Argument(Body, m, Top.site) \in ArgumentsAt(Top.site)
        BY <2>5 DEF Ways, ArgumentsAt, Body
      <4>. QED
        BY <4>1, <4>2
    <3>2. CASE ~ContextSensitive
      <4>1. pre = Value
        BY <2>2, <3>2 DEF CallingContext
      <4>2. Argument(Body, m, Top.site) \in Value
        BY <2>4, <2>5, ArgumentIsValue DEF Ways, Body
      <4>. QED
        BY <4>1, <4>2
    <3>. QED
      BY <3>1, <3>2
  <2>6. ~ContextSensitive => pre = Value /\ Callee # Top.fun
    BY <2>1, <2>2 DEF CallingContext, PreconditionHolds
  <2>7. GoDown(pre)
    BY <1>3, <2>1, <2>2, <2>3, <2>5, <2>6 DEF GoDown, SummarizeCallee
  <2>. QED
    BY <2>7 DEF AnyStep
<1>4. CASE ComputeSummary
  <2>1. PICK T \in Least(Templates(Top.fun), Transitions) :
            db' = Put(Top.fun, [pre |-> Top.pre, trans |-> Under(Top.pre, T)])
    BY <1>4 DEF ComputeSummary
  <2>2. Transitions \subseteq T
    BY <2>1 DEF Least, Above
  <2>3. PutSummary(T)
    BY <1>4, <2>1, <2>2 DEF PutSummary, ComputeSummary
  <2>. QED
    BY <2>3 DEF AnyStep
<1>5. CASE Summarize \/ Finish \/ Explore
  BY <1>5 DEF AnyStep
<1>. QED
  BY <1>1, <1>2, <1>3, <1>4, <1>5 DEF SummarizerNext

-----------------------------------------------------------------------------
(* The types stay.                                                         *)

LEMMA TypesStep == SummarizerTypeOK /\ [AnyStep]_vars => SummarizerTypeOK'
<1>. SUFFICES ASSUME SummarizerTypeOK, [AnyStep]_vars PROVE SummarizerTypeOK'
  OBVIOUS
<1>. USE DEF SummarizerTypeOK
<1>0. stack \in Seq(Frame) /\ (stack' \in Seq(Frame) => stack' \in Seq([fun : Fun, pre : SUBSET Value, site : Nat \ {0}]))
  BY DEF Frame
<1>1. CASE Summarize
  <2>1. PICK f \in todo :
            /\ todo' = todo \ {f}
            /\ stack' = IF f \in DOMAIN db THEN <<>> ELSE <<[fun |-> f, pre |-> Value, site |-> 1]>>
    BY <1>1 DEF Summarize
  <2>2. [fun |-> f, pre |-> Value, site |-> 1] \in Frame
    BY DEF Frame
  <2>3. stack' \in Seq(Frame)
    BY <2>1, <2>2
  <2>. QED
    BY <1>0, <1>1, <2>1, <2>3 DEF Summarize, programVars
<1>2. CASE MoveOn
  BY <1>0, <1>2, NextCallTyped DEF MoveOn, InlineSummaries, programVars
<1>3. CASE \E pre : GoDown(pre)
  <2>1. PICK pre : GoDown(pre)
    BY <1>3
  <2>2. [fun |-> Callee, pre |-> pre, site |-> 1] \in Frame
    BY <2>1 DEF GoDown, Frame
  <2>3. NextCall \in Seq(Frame)
    BY <1>0, <2>1, NextCallTyped DEF GoDown, InlineSummaries
  <2>4. stack' \in Seq(Frame)
    BY <2>1, <2>2, <2>3 DEF GoDown
  <2>. QED
    BY <1>0, <2>1, <2>4 DEF GoDown, programVars
<1>4. CASE \E T : PutSummary(T)
  <2>1. PICK T : PutSummary(T)
    BY <1>4
  <2>2. Top \in Frame /\ stack' \in Seq(Frame)
    BY <1>0, <2>1, TopTyped DEF PutSummary
  <2>3. [pre |-> Top.pre, trans |-> Under(Top.pre, T)] \in Summary /\ Top.fun \in Fun
    BY <2>2, UnderIsRelation DEF Summary, Frame
  <2>4. /\ DOMAIN db' \subseteq Fun
        /\ \A f \in DOMAIN db' : db'[f] \in Summary
    BY <2>1, <2>3, PutTyped DEF PutSummary
  <2>. QED
    BY <1>0, <2>1, <2>2, <2>4 DEF PutSummary, programVars
<1>5. CASE Finish
  BY <1>5 DEF Finish, programVars
<1>6. CASE Explore
  <2>1. IsProgram(prog) /\ prog' = prog
    BY <1>6 DEF Explore
  <2>2. returned' \subseteq Fun \X Value \X Value
    BY <1>6, <2>1, FoundTyped DEF Explore
  <2>3. called' \subseteq (Fun \cup External) \X Value
    BY <1>6, <2>1, FoundTyped DEF Explore
  <2>. QED
    BY <1>6, <2>2, <2>3 DEF Explore
<1>7. CASE UNCHANGED vars
  BY <1>7 DEF vars
<1>. QED
  BY <1>1, <1>2, <1>3, <1>4, <1>5, <1>6, <1>7 DEF AnyStep

(* The variables of the analysis keep their types: only functions with a   *)
(* body are ever summarized, under preconditions that are sets of values.  *)
THEOREM SummarizerTypes == SummarizerSpec => []SummarizerTypeOK
<1>1. SummarizerTypeOK /\ [SummarizerNext]_vars => SummarizerTypeOK'
  BY StepIsAnyStep, TypesStep
<1>. QED
  BY TypesInit, <1>1, PTL DEF SummarizerSpec

(* The summarizer takes the steps the other proofs are about.              *)
LEMMA SummarizerTakesAnyStep == SummarizerSpec => [](SummarizerTypeOK) /\ [][AnyStep]_vars
BY SummarizerTypes, StepIsAnyStep, PTL DEF SummarizerSpec

-----------------------------------------------------------------------------
(* How the summaries change: put is the only operation on them, and it     *)
(* grows preconditions and shrinks transformers.                           *)

Improved ==
    \A f \in DOMAIN db :
        /\ f \in DOMAIN db'
        /\ db[f].pre \subseteq db'[f].pre
        /\ db'[f].trans \subseteq db[f].trans

LEMMA PutImproves == ASSUME NEW T, PutSummary(T) PROVE Improved
<1>1. db' = Put(Top.fun, [pre |-> Top.pre, trans |-> Under(Top.pre, T)])
  BY DEF PutSummary
<1>2. ASSUME NEW f \in DOMAIN db
      PROVE  /\ f \in DOMAIN db'
             /\ db[f].pre \subseteq db'[f].pre
             /\ db'[f].trans \subseteq db[f].trans
  <2>1. CASE f = Top.fun
    <3>1. db'[f] = Join(db[f], [pre |-> Top.pre, trans |-> Under(Top.pre, T)])
      BY <1>1, <2>1 DEF Put
    <3>. QED
      BY <1>1, <3>1 DEF Put, Join
  <2>2. CASE f # Top.fun
    BY <1>1, <2>2 DEF Put
  <2>. QED
    BY <2>1, <2>2
<1>. QED
  BY <1>2 DEF Improved

LEMMA StepImproves == [AnyStep]_vars => Improved
<1>1. (\E T : PutSummary(T)) => Improved
  BY PutImproves
<1>2. UNCHANGED db => Improved
  BY DEF Improved
<1>. QED
  BY <1>1, <1>2 DEF AnyStep, Summarize, MoveOn, GoDown, Finish, Explore, vars

(* Whatever is put into the database, and in whatever order, a summary     *)
(* never loses a context and never says less of its function than it did.  *)
THEOREM SummariesImprove == SummarizerSpec => SummariesOnlyImprove
<1>1. [AnyStep]_vars => [Improved]_vars
  BY StepImproves
<1>. QED
  BY SummarizerTakesAnyStep, <1>1, PTL DEF SummariesOnlyImprove, Improved

-----------------------------------------------------------------------------
(* The inductive invariant.                                                *)

(* The transformers are closed under the bodies.                           *)
BodiesClosed ==
    \A f \in DOMAIN db : \A m \in Models(prog[f]) :
        SummariesHold(prog[f], m, 1..prog[f].n) => Transition(prog[f], m) \subseteq db[f].trans

CoverInv ==
    /\ SummarizerTypeOK
    /\ phase = "summarize" => returned = {}
    /\ BodiesClosed
    /\ SummariesCover

(* What satisfies the summaries after a step satisfies those before it.    *)
LEMMA SummariesHoldBefore ==
    ASSUME NEW b, NEW m, NEW I, Improved, SummariesHold(b, m, I)'
    PROVE  SummariesHold(b, m, I)
BY DEF Improved, SummariesHold, Taken, Argument, Behind

(* The calls of an execution satisfy the summaries, if these cover what    *)
(* the executions found so far return.                                     *)
LEMMA RunsHold ==
    ASSUME SummarizerTypeOK, SummariesCover, NEW f \in Fun, NEW m \in Models(prog[f]),
           NEW k \in 0..prog[f].n, Runs(returned, prog[f], m, k)
    PROVE  SummariesHold(prog[f], m, 1..k)
<1>. DEFINE b == prog[f]
<1>1. ASSUME NEW i \in 1..k, Taken(b, m, i), b.site[i].callee \in DOMAIN db
      PROVE  <<Argument(b, m, i), m.ret[i]>> \in db[b.site[i].callee].trans
  <2>1. b.site[i].callee \notin External
    BY <1>1, ProgramAssumption DEF SummarizerTypeOK
  <2>2. <<b.site[i].callee, Argument(b, m, i), m.ret[i]>> \in returned
    BY <1>1, <2>1 DEF Runs
  <2>. QED
    BY <1>1, <2>2 DEF SummariesCover
<1>. QED
  BY <1>1 DEF SummariesHold

LEMMA ReturningHolds ==
    ASSUME SummarizerTypeOK, SummariesCover, NEW f \in Fun, NEW m \in Returning(prog, returned, f)
    PROVE  SummariesHold(prog[f], m, 1..prog[f].n)
<1>1. prog[f].n \in 0..prog[f].n
  BY ProgramBodies DEF SummarizerTypeOK, IsBody
<1>. QED
  BY <1>1, RunsHold DEF Returning

LEMMA FoundCovered ==
    ASSUME CoverInv, NEW r \in ReturnsFound(prog, returned), r[1] \in DOMAIN db
    PROVE  <<r[2], r[3]>> \in db[r[1]].trans
<1>1. PICK f \in Fun : \E m \in Returning(prog, returned, f) :
          r \in {f} \X {m.arg} \X Results(prog[f], m)
  BY DEF ReturnsFound
<1>2. PICK m \in Returning(prog, returned, f) : r \in {f} \X {m.arg} \X Results(prog[f], m)
  BY <1>1
<1>3. r[1] = f /\ <<r[2], r[3]>> \in Transition(prog[f], m)
  BY <1>2 DEF Transition
<1>4. SummariesHold(prog[f], m, 1..prog[f].n) /\ m \in Models(prog[f])
  BY ReturningHolds DEF CoverInv, Returning
<1>. QED
  BY <1>3, <1>4 DEF CoverInv, BodiesClosed

(* do_summary: the new transformer of a function contains what its models  *)
(* allow, in its context because it is above them, outside of it because   *)
(* of the implication.                                                     *)
LEMMA ComputedCovers ==
    ASSUME SummarizerTypeOK, stack # <<>>,
           NEW T, Transitions \subseteq T,
           NEW m \in Models(Body), SummariesHold(Body, m, 1..Body.n)
    PROVE  Transition(Body, m) \subseteq Under(Top.pre, T)
<1>1. Top.fun \in Fun /\ IsBody(Body)
  BY TopTyped, ProgramBodies DEF SummarizerTypeOK, Frame, Body
<1>2. Transition(Body, m) \subseteq Anything
  BY <1>1, ResultsAreValues DEF Transition, Anything
<1>3. ASSUME NEW t \in Transition(Body, m), t[1] \in Top.pre PROVE t \in T
  <2>1. m.arg \in Top.pre
    BY <1>3 DEF Transition
  <2>2. m \in Context(Top.fun, Top.pre)
    BY <2>1 DEF Context, Body
  <2>3. Transition(Body, m) \subseteq Transitions
    BY <2>2 DEF Transitions
  <2>. QED
    BY <2>3, <1>3
<1>. QED
  BY <1>2, <1>3 DEF Under

LEMMA PutKeepsClosed == ASSUME CoverInv, NEW T, PutSummary(T) PROVE BodiesClosed'
<1>1. SummarizerTypeOK /\ stack # <<>> /\ prog' = prog
  BY DEF CoverInv, PutSummary, programVars
<1>2. /\ Transitions \subseteq T
      /\ db' = Put(Top.fun, [pre |-> Top.pre, trans |-> Under(Top.pre, T)])
  BY DEF PutSummary
<1>3. Improved
  BY PutImproves
<1>4. ASSUME NEW f \in DOMAIN db', NEW m \in Models(prog[f]),
             SummariesHold(prog[f], m, 1..prog[f].n)'
      PROVE  Transition(prog[f], m) \subseteq db'[f].trans
  <2>1. SummariesHold(prog[f], m, 1..prog[f].n)
    <3>. DEFINE b == prog[f]
    <3>1. b' = b
      BY <1>1
    <3>. QED
      BY <1>1, <1>3, <1>4, SummariesHoldBefore
  <2>2. ASSUME f \in DOMAIN db PROVE Transition(prog[f], m) \subseteq db[f].trans
    BY <2>1, <2>2 DEF CoverInv, BodiesClosed
  <2>3. CASE f # Top.fun
    <3>1. f \in DOMAIN db /\ db'[f] = db[f]
      BY <1>2, <2>3 DEF Put
    <3>. QED
      BY <3>1, <2>2
  <2>4. CASE f = Top.fun
    <3>1. Transition(prog[f], m) \subseteq Under(Top.pre, T)
      BY <1>1, <1>2, <2>1, <2>4, ComputedCovers DEF Body
    <3>2. db'[f].trans = IF f \in DOMAIN db THEN db[f].trans \cap Under(Top.pre, T) ELSE Under(Top.pre, T)
      BY <1>2, <2>4 DEF Put, Join
    <3>. QED
      BY <3>1, <3>2, <2>2
  <2>. QED
    BY <2>3, <2>4
<1>5. prog' = prog => \A f, m : Models(prog[f])' = Models(prog[f]) /\ Transition(prog[f], m)' = Transition(prog[f], m)
  BY DEF Models, Transition, Results, Behind, Taken, Argument
<1>. QED
  BY <1>1, <1>4, <1>5 DEF BodiesClosed

LEMMA CoverInit == Init => CoverInv
<1>. SUFFICES ASSUME Init PROVE CoverInv
  OBVIOUS
<1>1. DOMAIN db = {} /\ returned = {}
  BY DEF Init
<1>. QED
  BY <1>1, TypesInit DEF CoverInv, BodiesClosed, SummariesCover

(* The parts of the invariant that do not change when db does not.         *)
LEMMA ClosedStays == CoverInv /\ UNCHANGED <<prog, db>> => BodiesClosed'
<1>. SUFFICES ASSUME CoverInv, UNCHANGED <<prog, db>> PROVE BodiesClosed'
  OBVIOUS
<1>1. \A f, m : Models(prog[f])' = Models(prog[f]) /\ Transition(prog[f], m)' = Transition(prog[f], m)
  BY DEF Models, Transition, Results, Behind, Taken, Argument
<1>2. Improved
  BY DEF Improved
<1>3. ASSUME NEW f \in DOMAIN db', NEW m \in Models(prog[f]), SummariesHold(prog[f], m, 1..prog[f].n)'
      PROVE  Transition(prog[f], m) \subseteq db'[f].trans
  <2>1. SummariesHold(prog[f], m, 1..prog[f].n)
    BY <1>2, <1>3, SummariesHoldBefore
  <2>. QED
    BY <2>1 DEF CoverInv, BodiesClosed
<1>. QED
  BY <1>1, <1>3 DEF BodiesClosed

LEMMA CoverStep == CoverInv /\ [AnyStep]_vars => CoverInv'
<1>. SUFFICES ASSUME CoverInv, [AnyStep]_vars PROVE CoverInv'
  OBVIOUS
<1>1. SummarizerTypeOK'
  BY TypesStep DEF CoverInv
<1>2. CASE \E T : PutSummary(T)
  <2>1. BodiesClosed'
    BY <1>2, PutKeepsClosed
  <2>2. returned' = {} /\ phase' = phase /\ phase = "summarize"
    BY <1>2 DEF PutSummary, programVars, CoverInv
  <2>. QED
    BY <1>1, <2>1, <2>2 DEF CoverInv, SummariesCover
<1>3. CASE Explore
  <2>1. UNCHANGED <<prog, db>> /\ phase' # "summarize"
    BY <1>3 DEF Explore
  <2>2. SummariesCover'
    <3>1. ASSUME NEW r \in returned', r[1] \in DOMAIN db
          PROVE  <<r[2], r[3]>> \in db[r[1]].trans
      <4>1. CASE r \in returned
        BY <4>1, <3>1 DEF CoverInv, SummariesCover
      <4>2. CASE r \in ReturnsFound(prog, returned)
        BY <4>2, <3>1, FoundCovered
      <4>. QED
        BY <1>3, <4>1, <4>2 DEF Explore
    <3>. QED
      BY <2>1, <3>1 DEF SummariesCover
  <2>. QED
    BY <1>1, <2>1, <2>2, ClosedStays DEF CoverInv
<1>4. CASE UNCHANGED <<programVars, db>> /\ (phase' = "summarize" => phase = "summarize")
  <2>1. UNCHANGED <<prog, db, returned>>
    BY <1>4 DEF programVars
  <2>2. SummariesCover'
    BY <2>1 DEF CoverInv, SummariesCover
  <2>. QED
    BY <1>1, <1>4, <2>1, <2>2, ClosedStays DEF CoverInv
<1>. QED
  BY <1>2, <1>3, <1>4
  DEF AnyStep, Summarize, MoveOn, GoDown, Finish, vars, programVars

(* A summary covers every execution of its function, for every program,    *)
(* with recursion or without, every template and every option.             *)
THEOREM SummariesCoverExecutions == SummarizerSpec => []SummariesCover
<1>1. CoverInv => SummariesCover
  BY DEF CoverInv
<1>. QED
  BY SummarizerTakesAnyStep, CoverInit, CoverStep, <1>1, PTL DEF SummarizerSpec

-----------------------------------------------------------------------------
(* Without context-sensitive, every precondition is true.                  *)

WholeContexts ==
    /\ SummarizerTypeOK
    /\ \A f \in DOMAIN db : db[f].pre = Value
    /\ \A i \in DOMAIN stack : stack[i].pre = Value

WholeInv == SummarizerTypeOK /\ (~ContextSensitive => WholeContexts)

LEMMA WholeInit == Init => WholeInv
<1>. SUFFICES ASSUME Init PROVE WholeInv
  OBVIOUS
<1>1. DOMAIN db = {} /\ stack = <<>>
  BY DEF Init
<1>. QED
  BY <1>1, TypesInit DEF WholeInv, WholeContexts

LEMMA OptionsStay == [AnyStep]_vars => cmdline' = cmdline /\ prog' = prog
BY DEF AnyStep, Summarize, MoveOn, GoDown, PutSummary, Finish, Explore, vars, programVars

LEMMA WholeStep ==
    ~ContextSensitive /\ WholeContexts /\ [AnyStep]_vars => WholeContexts'
<1>. SUFFICES ASSUME ~ContextSensitive, WholeContexts, [AnyStep]_vars PROVE WholeContexts'
  OBVIOUS
<1>1. SummarizerTypeOK' /\ stack \in Seq(Frame)
  BY TypesStep DEF WholeContexts, SummarizerTypeOK, Frame
<1>2. ASSUME stack # <<>>
      PROVE  /\ NextCall \in Seq(Frame) /\ Len(NextCall) = Len(stack)
             /\ \A i \in DOMAIN NextCall : NextCall[i].pre = Value
             /\ Top.pre = Value
  <2>1. NextCall \in Seq(Frame) /\ Len(NextCall) = Len(stack) /\ Top \in Frame
    BY <1>1, <1>2, NextCallTyped, TopTyped
  <2>2. DOMAIN NextCall = DOMAIN stack /\ Len(stack) \in DOMAIN stack
    BY <1>1, <1>2 DEF NextCall
  <2>3. \A i \in DOMAIN stack : stack[i] \in Frame
    BY <1>1
  <2>4. \A i \in DOMAIN stack : NextCall[i].pre = stack[i].pre
    BY <2>3 DEF NextCall, Frame
  <2>. QED
    BY <2>1, <2>2, <2>4 DEF WholeContexts, Top
<1>3. CASE MoveOn
  <2>1. stack # <<>> /\ stack' = NextCall /\ UNCHANGED db
    BY <1>3 DEF MoveOn, InlineSummaries
  <2>. QED
    BY <1>1, <1>2, <2>1 DEF WholeContexts
<1>4. CASE \E pre : GoDown(pre)
  <2>1. stack # <<>> /\ UNCHANGED db
    BY <1>4 DEF GoDown, InlineSummaries
  <2>2. stack' = Append(NextCall, [fun |-> Callee, pre |-> Value, site |-> 1])
    BY <1>4 DEF GoDown
  <2>3. \A i \in DOMAIN stack' : stack'[i].pre = Value
    <3>1. DOMAIN stack' = 1..(Len(stack) + 1)
      BY <1>2, <2>1, <2>2
    <3>2. ASSUME NEW i \in 1..Len(stack) PROVE stack'[i] = NextCall[i] /\ i \in DOMAIN NextCall
      BY <1>2, <2>1, <2>2
    <3>3. stack'[Len(stack) + 1] = [fun |-> Callee, pre |-> Value, site |-> 1]
      BY <1>2, <2>1, <2>2
    <3>4. Len(stack) \in Nat
      BY <1>1
    <3>. QED
      BY <1>2, <2>1, <3>1, <3>2, <3>3, <3>4
  <2>. QED
    BY <1>1, <2>1, <2>3 DEF WholeContexts
<1>5. CASE \E T : PutSummary(T)
  <2>1. PICK T : db' = Put(Top.fun, [pre |-> Top.pre, trans |-> Under(Top.pre, T)])
    BY <1>5 DEF PutSummary
  <2>2. stack # <<>> /\ stack' = SubSeq(stack, 1, Len(stack) - 1)
    BY <1>5 DEF PutSummary
  <2>3. \A i \in DOMAIN stack' : stack'[i].pre = Value
    <3>1. ASSUME NEW i \in DOMAIN stack' PROVE i \in DOMAIN stack /\ stack'[i] = stack[i]
      BY <1>1, <2>2
    <3>. QED
      BY <3>1 DEF WholeContexts
  <2>4. ASSUME NEW f \in DOMAIN db' PROVE db'[f].pre = Value
    <3>1. CASE f # Top.fun
      BY <2>1, <3>1 DEF Put, WholeContexts
    <3>2. CASE f = Top.fun
      <4>1. db'[f].pre = IF f \in DOMAIN db THEN db[f].pre \cup Top.pre ELSE Top.pre
        BY <2>1, <3>2 DEF Put, Join
      <4>. QED
        BY <4>1, <1>2, <2>2 DEF WholeContexts
    <3>. QED
      BY <3>1, <3>2
  <2>. QED
    BY <1>1, <2>3, <2>4 DEF WholeContexts
<1>6. CASE Summarize
  <2>1. UNCHANGED db /\ \A i \in DOMAIN stack' : stack'[i].pre = Value
    BY <1>6 DEF Summarize
  <2>. QED
    BY <1>1, <2>1 DEF WholeContexts
<1>7. CASE UNCHANGED <<db, stack>>
  BY <1>1, <1>7 DEF WholeContexts
<1>. QED
  BY <1>3, <1>4, <1>5, <1>6, <1>7 DEF AnyStep, Finish, Explore, vars

LEMMA PassesHold == WholeContexts /\ CoverInv => PassHoldsIfCallsReturn
<1>. SUFFICES ASSUME WholeContexts, CoverInv, NEW f \in Fun, Passes(f),
                     NEW m \in Returning(prog, returned, f)
              PROVE  ~Fails(prog[f], m)
  BY DEF PassHoldsIfCallsReturn
<1>1. SummariesHold(prog[f], m, 1..prog[f].n)
  BY ReturningHolds DEF CoverInv
<1>2. m \in Models(prog[f]) /\ m.arg \in Value
  BY ProgramBodies, ResultsAreValues DEF CoverInv, SummarizerTypeOK, Returning
<1>3. m \in Context(f, IF f \in DOMAIN db THEN db[f].pre ELSE Value)
  BY <1>1, <1>2 DEF Context, WholeContexts
<1>. QED
  BY <1>3 DEF Passes

LEMMA WholeInvStep == WholeInv /\ [AnyStep]_vars => WholeInv'
<1>. SUFFICES ASSUME WholeInv, [AnyStep]_vars PROVE WholeInv'
  OBVIOUS
<1>1. SummarizerTypeOK'
  BY TypesStep DEF WholeInv
<1>2. ~ContextSensitive' => ~ContextSensitive
  BY OptionsStay DEF ContextSensitive, Isset
<1>3. ~ContextSensitive' => WholeContexts'
  BY <1>2, WholeStep DEF WholeInv
<1>. QED
  BY <1>1, <1>3 DEF WholeInv

(* Without contexts, an assertion that passes under the summaries fails in *)
(* no execution of its function in which all of its calls return.          *)
THEOREM PassesAreSoundForReturningCalls ==
    SummarizerSpec => [](~ContextSensitive => PassHoldsIfCallsReturn)
<1>1. WholeInv /\ CoverInv => (~ContextSensitive => PassHoldsIfCallsReturn)
  BY PassesHold DEF WholeInv
<1>. QED
  BY SummarizerTakesAnyStep, WholeInit, WholeInvStep, CoverInit, CoverStep, <1>1, PTL DEF SummarizerSpec

-----------------------------------------------------------------------------
(* A model is built call by call: one that satisfies the transformers of   *)
(* its first k calls goes on through the others, unless a summary says     *)
(* false.                                                                  *)

CalleesOpen(b) ==
    \A i \in 1..b.n : b.site[i].callee \in DOMAIN db =>
        \A x \in Value : \E y \in Value : <<x, y>> \in db[b.site[i].callee].trans

Prefix(b, m, k) ==
    /\ m \in [arg : Value, ret : [1..b.n -> Value]]
    /\ \A i \in 1..k : Taken(b, m, i) \/ m.ret[i] = Argument(b, m, i)
    /\ SummariesHold(b, m, 1..k)

Agree(m, l, k) == m.arg = l.arg /\ \A i \in 1..k : m.ret[i] = l.ret[i]

LEMMA AgreeingCalls ==
    ASSUME NEW b, NEW m, NEW l, NEW k \in Nat, Agree(m, l, k), NEW i \in 1..(k + 1)
    PROVE  Argument(b, m, i) = Argument(b, l, i) /\ (Taken(b, m, i) <=> Taken(b, l, i))
<1>1. Behind(m, i - 1) = Behind(l, i - 1)
  <2>1. i - 1 = 0 \/ i - 1 \in 1..k
    OBVIOUS
  <2>. QED
    BY <2>1 DEF Behind, Agree
<1>. QED
  BY <1>1 DEF Argument, Taken

LEMMA ModelsArePrefixes ==
    ASSUME NEW b, IsBody(b), NEW m
    PROVE  /\ Prefix(b, m, b.n) <=> m \in Models(b) /\ SummariesHold(b, m, 1..b.n)
           /\ \A k \in 0..b.n :
                  m \in Models(b) /\ SummariesHold(b, m, 1..k) => Prefix(b, m, k)
BY DEF Prefix, Models, IsBody

LEMMA PrefixGrows ==
    ASSUME NEW b, IsBody(b), CalleesOpen(b), NEW k \in 0..b.n, k < b.n, NEW m, Prefix(b, m, k)
    PROVE  \E l : Prefix(b, l, k + 1) /\ Agree(m, l, k)
<1>0. b.n \in Nat /\ k \in Nat /\ k + 1 \in 1..b.n
  BY DEF IsBody
<1>. DEFINE a == Argument(b, m, k + 1)
            g == b.site[k + 1].callee
<1>1. a \in Value
  <2>1. Behind(m, k) \in Value
    BY <1>0 DEF Prefix, Behind
  <2>2. b.site[k + 1] \in Site
    BY <1>0 DEF IsBody
  <2>3. k + 1 - 1 = k
    BY <1>0
  <2>. QED
    BY <2>1, <2>2, <2>3 DEF Argument, Site
<1>2. PICK y \in Value :
          /\ ~Taken(b, m, k + 1) => y = a
          /\ Taken(b, m, k + 1) /\ g \in DOMAIN db => <<a, y>> \in db[g].trans
  <2>1. g \in DOMAIN db => \E y \in Value : <<a, y>> \in db[g].trans
    BY <1>0, <1>1 DEF CalleesOpen
  <2>. HIDE DEF a, g
  <2>. QED
    BY <1>1, <2>1
<1>. DEFINE l == [m EXCEPT !.ret[k + 1] = y]
<1>3. /\ l \in [arg : Value, ret : [1..b.n -> Value]]
      /\ Agree(m, l, k)
      /\ l.ret[k + 1] = y
      /\ \A i \in 1..k : l.ret[i] = m.ret[i]
  BY <1>0, <1>2 DEF Prefix, Agree
<1>. HIDE DEF l
<1>4. \A i \in 1..(k + 1) :
          Argument(b, m, i) = Argument(b, l, i) /\ (Taken(b, m, i) <=> Taken(b, l, i))
  BY <1>0, <1>3, AgreeingCalls
<1>5. ASSUME NEW i \in 1..(k + 1)
      PROVE  /\ Taken(b, l, i) \/ l.ret[i] = Argument(b, l, i)
             /\ Taken(b, l, i) /\ b.site[i].callee \in DOMAIN db =>
                    <<Argument(b, l, i), l.ret[i]>> \in db[b.site[i].callee].trans
  <2>1. CASE i = k + 1
    BY <1>2, <1>3, <1>4, <2>1
  <2>2. CASE i # k + 1
    <3>1. i \in 1..k
      BY <1>0, <2>2
    <3>. QED
      BY <1>3, <1>4, <3>1 DEF Prefix, SummariesHold
  <2>. QED
    BY <2>1, <2>2
<1>6. SummariesHold(b, l, 1..(k + 1))
  BY <1>5 DEF SummariesHold
<1>7. Prefix(b, l, k + 1)
  BY <1>3, <1>5, <1>6 DEF Prefix
<1>. QED
  BY <1>3, <1>7

LEMMA PrefixExtends ==
    ASSUME NEW b, IsBody(b), CalleesOpen(b), NEW k \in 0..b.n, NEW m, Prefix(b, m, k)
    PROVE  \E l \in Models(b) : SummariesHold(b, l, 1..b.n) /\ Agree(m, l, k)
<1>. DEFINE Reached == {j \in 0..b.n : k <= j /\ \E l : Prefix(b, l, j) /\ Agree(m, l, k)}
<1>0. b.n \in Nat /\ k \in Nat
  BY DEF IsBody
<1>1. k \in Reached
  BY <1>0 DEF Agree
<1>2. PICK j \in Reached : \A i \in Reached : i <= j
  <2>1. Reached \in SUBSET (0..b.n) /\ Reached # {}
    BY <1>1
  <2>. HIDE DEF Reached
  <2>. QED
    BY <1>0, <2>1, GreatestNumber
<1>3. j \in 0..b.n /\ k <= j
  OBVIOUS
<1>4. PICK l : Prefix(b, l, j) /\ Agree(m, l, k)
  OBVIOUS
<1>5. j = b.n
  <2>1. SUFFICES ASSUME j < b.n PROVE FALSE
    BY <1>0, <1>3
  <2>2. PICK l2 : Prefix(b, l2, j + 1) /\ Agree(l, l2, j)
    BY <1>3, <1>4, <2>1, PrefixGrows
  <2>3. Agree(m, l2, k)
    BY <1>0, <1>3, <1>4, <2>2 DEF Agree
  <2>4. j + 1 \in Reached
    BY <1>0, <1>3, <2>1, <2>2, <2>3
  <2>5. j + 1 <= j
    <3>. HIDE DEF Reached
    <3>. QED
      BY <1>2, <2>4
  <2>. QED
    BY <1>0, <1>3, <2>5
<1>. QED
  BY <1>4, <1>5, ModelsArePrefixes

-----------------------------------------------------------------------------
(* Outside of its precondition a summary says nothing.                     *)

OutsideOpen ==
    \A f \in DOMAIN db : \A x \in Value \ db[f].pre, y \in Value : <<x, y>> \in db[f].trans

LEMMA OutsideStep == OutsideOpen /\ [AnyStep]_vars => OutsideOpen'
<1>. SUFFICES ASSUME OutsideOpen, [AnyStep]_vars PROVE OutsideOpen'
  OBVIOUS
<1>1. CASE \E T : PutSummary(T)
  <2>1. PICK T : db' = Put(Top.fun, [pre |-> Top.pre, trans |-> Under(Top.pre, T)])
    BY <1>1 DEF PutSummary
  <2>2. ASSUME NEW f \in DOMAIN db', NEW x \in Value \ db'[f].pre, NEW y \in Value
        PROVE  <<x, y>> \in db'[f].trans
    <3>1. x \notin Top.pre => <<x, y>> \in Under(Top.pre, T)
      BY DEF Under, Anything
    <3>2. CASE f # Top.fun
      BY <2>1, <2>2, <3>2 DEF Put, OutsideOpen
    <3>3. CASE f = Top.fun
      BY <2>1, <2>2, <3>1, <3>3 DEF Put, Join, OutsideOpen
    <3>. QED
      BY <3>2, <3>3
  <2>. QED
    BY <2>2 DEF OutsideOpen
<1>2. CASE UNCHANGED db
  BY <1>2 DEF OutsideOpen
<1>. QED
  BY <1>1, <1>2 DEF AnyStep, Summarize, MoveOn, GoDown, Finish, Explore, vars

(* Where nothing is hidden, every call can go on.                          *)
LEMMA NothingHiddenOpens ==
    ASSUME OutsideOpen, NothingHidden, NEW b PROVE CalleesOpen(b)
<1>1. ASSUME NEW g \in DOMAIN db, NEW x \in Value
      PROVE  \E y \in Value : <<x, y>> \in db[g].trans
  BY DEF OutsideOpen, NothingHidden
<1>. QED
  BY <1>1 DEF CalleesOpen

LEMMA HiddenStays == Improved /\ NothingHidden' => NothingHidden
BY DEF Improved, NothingHidden

-----------------------------------------------------------------------------
(* The calls that are covered, by the summaries or by the frames that will *)
(* become summaries.                                                       *)

(* A function may call itself where contexts are not told apart; whether   *)
(* an assertion fails is known before the first call.                      *)
NoSelfCalls == \A f \in Fun : \A i \in 1..prog[f].n : prog[f].site[i].callee # f
AssertionsFirst == \A f \in Fun : prog[f].place = 0 \/ prog[f].bad = {}

OpenProgram ==
    /\ ContextSensitive => NoSelfCalls
    /\ Termination => AssertionsFirst

(* Call i of f, made from the arguments in pre, is one the summary of the  *)
(* callee stands for.                                                      *)
CoveredBy(f, pre, i, g) ==
    \A m \in Ways(f, pre, i) :
        \/ g \in DOMAIN db /\ Argument(prog[f], m, i) \in db[g].pre
        \/ ~ContextSensitive /\ g = f
Covered(f, pre, i) == prog[f].site[i].callee \in Fun => CoveredBy(f, pre, i, prog[f].site[i].callee)

(* The calls of frame F up to the one numbered last; the call that frame G *)
(* has been pushed for.                                                    *)
FrameCovered(F, last) ==
    \A i \in 1..prog[F.fun].n : i <= last => Covered(F.fun, F.pre, i)
FramePending(F, G) ==
    \A i \in 1..prog[F.fun].n : i = F.site - 1 =>
        /\ prog[F.fun].site[i].callee = G.fun
        /\ \A m \in Ways(F.fun, F.pre, i) : Argument(prog[F.fun], m, i) \in G.pre

EntriesCovered ==
    \A f \in DOMAIN db : \A pre : pre = db[f].pre =>
        \A i \in 1..prog[f].n : Covered(f, pre, i)

FramesCovered ==
    \A k \in 1..Len(stack) : \A F \in Frame : F = stack[k] =>
        /\ k = Len(stack) => FrameCovered(F, F.site - 1)
        /\ k < Len(stack) => FrameCovered(F, F.site - 2)
        /\ k < Len(stack) => \A G \in Frame : G = stack[k + 1] => FramePending(F, G)

(* What is covered stays covered, the summaries only improving.            *)
LEMMA WaysBefore ==
    ASSUME Improved, UNCHANGED <<cmdline, prog>>, NEW f, NEW pre, NEW i
    PROVE  Ways(f, pre, i)' \subseteq Ways(f, pre, i)
<1>1. ASSUME NEW m, SummariesHold(prog[f], m, 1..(i - 1))'
      PROVE  SummariesHold(prog[f], m, 1..(i - 1))
  BY <1>1 DEF Improved, SummariesHold, Taken, Argument, Behind
<1>2. \A m : Considered(f, m)' <=> Considered(f, m)
  BY DEF Considered, Termination, Isset, Fails, Behind
<1>3. \A m : Taken(prog[f], m, i)' <=> Taken(prog[f], m, i)
  BY DEF Taken, Argument, Behind
<1>4. Models(prog[f])' = Models(prog[f])
  BY DEF Models, Taken, Argument, Behind
<1>. QED
  BY <1>1, <1>2, <1>3, <1>4 DEF Ways

LEMMA CoveredStays ==
    ASSUME Improved, UNCHANGED <<cmdline, prog>>, NEW f, NEW pre, NEW i, Covered(f, pre, i)
    PROVE  Covered(f, pre, i)'
<1>. DEFINE g == prog[f].site[i].callee
<1>1. SUFFICES ASSUME g \in Fun, NEW m \in Ways(f, pre, i)'
               PROVE  \/ g \in DOMAIN db' /\ Argument(prog[f], m, i) \in db'[g].pre
                      \/ ~ContextSensitive /\ g = f
  <2>1. \A m : Argument(prog[f], m, i)' = Argument(prog[f], m, i)
    BY DEF Argument, Behind
  <2>2. ContextSensitive' <=> ContextSensitive
    BY DEF ContextSensitive, Isset
  <2>. QED
    BY <2>1, <2>2 DEF Covered, CoveredBy
<1>2. m \in Ways(f, pre, i)
  BY WaysBefore
<1>. QED
  BY <1>1, <1>2 DEF Covered, CoveredBy, Improved

LEMMA FrameStays ==
    ASSUME Improved, UNCHANGED <<cmdline, prog>>, NEW F
    PROVE  /\ \A last : FrameCovered(F, last) => FrameCovered(F, last)'
           /\ \A G : FramePending(F, G) => FramePending(F, G)'
<1>1. ASSUME NEW last, FrameCovered(F, last) PROVE FrameCovered(F, last)'
  BY <1>1, CoveredStays DEF FrameCovered
<1>2. ASSUME NEW G, FramePending(F, G) PROVE FramePending(F, G)'
  <2>1. \A i : Ways(F.fun, F.pre, i)' \subseteq Ways(F.fun, F.pre, i)
    BY WaysBefore
  <2>2. \A i, m : Argument(prog[F.fun], m, i)' = Argument(prog[F.fun], m, i)
    BY DEF Argument, Behind
  <2>. QED
    BY <1>2, <2>1, <2>2 DEF FramePending
<1>. QED
  BY <1>1, <1>2

LEMMA EntriesStay ==
    ASSUME UNCHANGED <<cmdline, prog, db>>, EntriesCovered
    PROVE  EntriesCovered'
<1>1. Improved
  BY DEF Improved
<1>. QED
  BY <1>1, CoveredStays DEF EntriesCovered

(* More contexts are covered if each of them is.                           *)
LEMMA CoveredJoins ==
    ASSUME NEW f, NEW i, NEW p, NEW q, Covered(f, p, i), Covered(f, q, i)
    PROVE  Covered(f, p \cup q, i)
<1>1. Ways(f, p \cup q, i) = Ways(f, p, i) \cup Ways(f, q, i)
  BY DEF Ways
<1>. QED
  BY <1>1 DEF Covered, CoveredBy

(* An execution that comes to a call goes on to the end, the summaries     *)
(* allowing it.                                                            *)
LEMMA WayContinues ==
    ASSUME OutsideOpen, NothingHidden, OpenProgram, NEW f \in Fun, IsBody(prog[f]),
           NEW pre, NEW i \in 1..prog[f].n, NEW m \in Ways(f, pre, i)
    PROVE  \E l \in Context(f, pre) :
               /\ Considered(f, l) /\ Taken(prog[f], l, i)
               /\ Argument(prog[f], l, i) = Argument(prog[f], m, i)
<1>. DEFINE b == prog[f]
<1>1. i - 1 \in 0..b.n /\ b.n \in Nat /\ i \in 1..(i - 1 + 1) /\ i - 1 \in Nat
  BY DEF IsBody
<1>2. m \in Models(b) /\ Prefix(b, m, i - 1) /\ Taken(b, m, i)
  BY <1>1, ModelsArePrefixes DEF Ways
<1>3. PICK l \in Models(b) : SummariesHold(b, l, 1..b.n) /\ Agree(m, l, i - 1)
  BY <1>1, <1>2, NothingHiddenOpens, PrefixExtends
<1>4. l \in Context(f, pre)
  BY <1>3 DEF Context, Ways, Agree
<1>5. Argument(b, l, i) = Argument(b, m, i) /\ Taken(b, l, i)
  BY <1>1, <1>2, <1>3, AgreeingCalls
<1>6. Considered(f, l)
  <2>1. Considered(f, m) /\ m.arg = l.arg
    BY <1>3 DEF Ways, Agree
  <2>2. Termination => prog[f].place = 0 \/ prog[f].bad = {}
    BY DEF OpenProgram, AssertionsFirst
  <2>. QED
    BY <2>1, <2>2 DEF Considered, Fails, Behind
<1>. QED
  BY <1>4, <1>5, <1>6

(* A call that is passed over is covered: when it was not reachable, the   *)
(* models that come to it would have gone on to the end.                   *)
LEMMA MoveOnCovers ==
    ASSUME SummarizerTypeOK, ~ContextSensitive => WholeContexts, OutsideOpen,
           OpenProgram, NothingHidden, MoveOn
    PROVE  Covered(Top.fun, Top.pre, Top.site)
<1>1. InlineSummaries /\ Top \in Frame /\ IsBody(Body) /\ Top.site \in 1..Body.n /\ Top.fun \in Fun
  BY TopInlines DEF MoveOn, Frame
<1>2. SUFFICES ASSUME Callee \in Fun, NEW m \in Ways(Top.fun, Top.pre, Top.site)
               PROVE  \/ Callee \in DOMAIN db /\ Argument(Body, m, Top.site) \in db[Callee].pre
                      \/ ~ContextSensitive /\ Callee = Top.fun
  BY DEF Covered, CoveredBy, Callee, Body
<1>3. PICK l \in Context(Top.fun, Top.pre) :
          /\ Considered(Top.fun, l) /\ Taken(Body, l, Top.site)
          /\ Argument(Body, l, Top.site) = Argument(Body, m, Top.site)
  BY <1>1, WayContinues DEF Body
<1>4. Argument(Body, m, Top.site) \in Value
  BY <1>1, ArgumentIsValue DEF Ways, Body
<1>5. CASE Callee \in DOMAIN db /\ ~ContextSensitive
  BY <1>4, <1>5 DEF WholeContexts
<1>6. CASE Callee = Top.fun
  BY <1>1, <1>6 DEF OpenProgram, NoSelfCalls, Callee, Body
<1>. QED
  BY <1>2, <1>3, <1>5, <1>6, ProgramAssumption DEF MoveOn

-----------------------------------------------------------------------------
(* The entry point has the summary of all contexts in the end.             *)

EntryInv ==
    /\ \/ Entry \in todo
       \/ Entry \in DOMAIN db /\ db[Entry].pre = Value
       \/ stack # <<>> /\ stack[1].fun = Entry /\ stack[1].pre = Value
    /\ ContextSensitive => todo \subseteq {Entry}
    /\ ContextSensitive /\ Entry \in todo => DOMAIN db = {} /\ stack = <<>>
    /\ phase # "summarize" => stack = <<>> /\ todo = {}

LEMMA EntryInit == Init => EntryInv
<1>. SUFFICES ASSUME Init PROVE EntryInv
  OBVIOUS
<1>1. DOMAIN db = {} /\ stack = <<>> /\ Entry \in todo /\ phase = "summarize"
  BY ProgramAssumption DEF Init
<1>2. ContextSensitive => todo = {Entry}
  BY DEF Init
<1>. QED
  BY <1>1, <1>2 DEF EntryInv

LEMMA EntryStep == WholeInv /\ EntryInv /\ [AnyStep]_vars => EntryInv'
<1>. SUFFICES ASSUME WholeInv, EntryInv, [AnyStep]_vars PROVE EntryInv'
  OBVIOUS
<1>0. SummarizerTypeOK /\ stack \in Seq(Frame) /\ (ContextSensitive' <=> ContextSensitive)
  BY OptionsStay DEF WholeInv, SummarizerTypeOK, Frame, ContextSensitive, Isset
<1>1. CASE Summarize
  <2>1. PICK f \in todo :
            /\ todo' = todo \ {f}
            /\ stack' = IF f \in DOMAIN db THEN <<>> ELSE <<[fun |-> f, pre |-> Value, site |-> 1]>>
    BY <1>1 DEF Summarize
  <2>2. phase = "summarize" /\ phase' = phase /\ db' = db /\ stack = <<>>
    BY <1>1 DEF Summarize
  <2>3. CASE f = Entry /\ f \in DOMAIN db
    <3>1. ~ContextSensitive
      BY <2>1, <2>3 DEF EntryInv
    <3>2. db[Entry].pre = Value
      BY <2>3, <3>1 DEF WholeInv, WholeContexts
    <3>. QED
      BY <1>0, <2>1, <2>2, <2>3, <3>1, <3>2 DEF EntryInv
  <2>4. CASE f = Entry /\ f \notin DOMAIN db
    <3>1. stack' # <<>> /\ stack'[1].fun = Entry /\ stack'[1].pre = Value
      BY <2>1, <2>4
    <3>. QED
      BY <1>0, <2>1, <2>2, <2>4, <3>1 DEF EntryInv
  <2>5. CASE f # Entry
    <3>1. /\ Entry \in todo' <=> Entry \in todo
          /\ Entry \in todo \/ (Entry \in DOMAIN db /\ db[Entry].pre = Value)
      BY <2>1, <2>2, <2>5 DEF EntryInv
    <3>2. ~ContextSensitive
      BY <2>1, <2>5 DEF EntryInv
    <3>. QED
      BY <1>0, <2>2, <3>1, <3>2 DEF EntryInv
  <2>. QED
    BY <2>3, <2>4, <2>5
<1>2. CASE MoveOn \/ (\E pre : GoDown(pre))
  <2>1. PICK tail \in Seq(Frame) : stack' = NextCall \o tail
    <3>1. NextCall \in Seq(Frame)
      BY <1>0, <1>2, NextCallTyped DEF MoveOn, GoDown, InlineSummaries
    <3>2. CASE MoveOn
      <4>1. stack' = NextCall \o <<>> /\ <<>> \in Seq(Frame)
        BY <3>1, <3>2 DEF MoveOn
      <4>. QED
        BY <4>1
    <3>3. CASE \E pre : GoDown(pre)
      <4>1. PICK pre : GoDown(pre)
        BY <3>3
      <4>. DEFINE F == [fun |-> Callee, pre |-> pre, site |-> 1]
      <4>2. F \in Frame /\ stack' = Append(NextCall, F)
        BY <4>1 DEF GoDown, Frame
      <4>. HIDE DEF F
      <4>3. stack' = NextCall \o <<F>> /\ <<F>> \in Seq(Frame)
        BY <3>1, <4>2
      <4>. QED
        BY <4>3
    <3>. QED
      BY <1>2, <3>2, <3>3
  <2>2. phase = "summarize" /\ UNCHANGED <<phase, db, todo>> /\ stack # <<>>
    BY <1>2 DEF MoveOn, GoDown, InlineSummaries
  <2>3. NextCall \in Seq(Frame) /\ Len(NextCall) = Len(stack) /\ Len(stack) \in Nat \ {0}
    BY <1>0, <2>2, NextCallTyped
  <2>4. stack' # <<>> /\ stack'[1] = NextCall[1]
    BY <2>1, <2>3
  <2>5. stack[1] \in Frame /\ 1 \in DOMAIN stack
    BY <1>0, <2>3
  <2>6. NextCall[1].fun = stack[1].fun /\ NextCall[1].pre = stack[1].pre
    BY <2>5 DEF NextCall, Frame
  <2>. QED
    BY <1>0, <2>2, <2>4, <2>6 DEF EntryInv
<1>3. CASE \E T : PutSummary(T)
  <2>1. PICK T : PutSummary(T)
    BY <1>3
  <2>2. /\ phase = "summarize" /\ UNCHANGED <<phase, todo>> /\ stack # <<>>
        /\ stack' = SubSeq(stack, 1, Len(stack) - 1)
        /\ db' = Put(Top.fun, [pre |-> Top.pre, trans |-> Under(Top.pre, T)])
    BY <2>1 DEF PutSummary
  <2>3. Len(stack) \in Nat \ {0} /\ DOMAIN db \subseteq DOMAIN db'
    BY <1>0, <2>2 DEF Put
  <2>4. ASSUME NEW f \in DOMAIN db, db[f].pre = Value PROVE db'[f].pre = Value
    <3>1. db'[f] \in Summary
      BY <2>3, <1>0, TypesStep DEF SummarizerTypeOK
    <3>2. db[f].pre \subseteq db'[f].pre
      BY <2>1, PutImproves DEF Improved
    <3>. QED
      BY <2>4, <3>1, <3>2 DEF Summary
  <2>5. CASE Entry \in todo
    BY <1>0, <2>2, <2>5 DEF EntryInv
  <2>6. CASE Entry \notin todo /\ Entry \in DOMAIN db /\ db[Entry].pre = Value
    BY <1>0, <2>2, <2>3, <2>4, <2>6 DEF EntryInv
  <2>7. CASE Entry \notin todo /\ stack[1].fun = Entry /\ stack[1].pre = Value
    <3>1. CASE Len(stack) = 1
      <4>1. Top.fun = Entry /\ Top.pre = Value
        BY <2>7, <3>1 DEF Top
      <4>2. Entry \in DOMAIN db' /\ Value \subseteq db'[Entry].pre
        BY <2>2, <4>1 DEF Put, Join
      <4>3. db'[Entry] \in Summary
        BY <4>2, <1>0, TypesStep DEF SummarizerTypeOK
      <4>. QED
        BY <2>2, <2>7, <4>2, <4>3 DEF EntryInv, Summary
    <3>2. CASE Len(stack) # 1
      <4>0. Len(stack) - 1 \in Nat \ {0} /\ Len(stack) - 1 <= Len(stack)
        BY <2>3, <3>2
      <4>1. stack' \in Seq(Frame) /\ Len(stack') = Len(stack) - 1
        BY <1>0, <2>2, StackPopped
      <4>2. 1 \in DOMAIN stack' /\ stack' # <<>>
        BY <4>0, <4>1
      <4>3. stack'[1] = stack[1]
        BY <1>0, <2>2, <4>0, <4>2
      <4>. QED
        BY <1>0, <2>2, <2>7, <4>2, <4>3 DEF EntryInv
    <3>. QED
      BY <3>1, <3>2
  <2>. QED
    BY <2>2, <2>5, <2>6, <2>7 DEF EntryInv
<1>4. CASE Finish
  BY <1>0, <1>4 DEF Finish, EntryInv
<1>5. CASE Explore
  BY <1>0, <1>5 DEF Explore, EntryInv
<1>6. CASE UNCHANGED vars
  BY <1>0, <1>6 DEF vars, EntryInv
<1>. QED
  BY <1>1, <1>2, <1>3, <1>4, <1>5, <1>6 DEF AnyStep

-----------------------------------------------------------------------------
(* The invariant of the contexts.                                          *)

ContextsInv ==
    /\ WholeInv /\ OutsideOpen
    /\ OpenProgram /\ NothingHidden => EntriesCovered /\ FramesCovered

(* The top frame behind its call, and a frame above it.                    *)
LEMMA TopMoved ==
    ASSUME stack \in Seq(Frame), stack # <<>>
    PROVE  /\ Len(stack) \in Nat \ {0} /\ NextCall \in Seq(Frame) /\ Len(NextCall) = Len(stack)
           /\ \A k \in 1..Len(stack) : k # Len(stack) => NextCall[k] = stack[k]
           /\ NextCall[Len(stack)] = [Top EXCEPT !.site = @ + 1]
           /\ NextCall[Len(stack)].fun = Top.fun
           /\ NextCall[Len(stack)].pre = Top.pre
           /\ NextCall[Len(stack)].site = Top.site + 1
<1>1. Len(stack) \in 1..Len(stack) /\ Len(stack) \in Nat \ {0} /\ DOMAIN stack = 1..Len(stack)
  OBVIOUS
<1>2. Top \in Frame
  BY TopTyped
<1>3. NextCall \in Seq(Frame) /\ Len(NextCall) = Len(stack)
  BY NextCallTyped
<1>4. \A k \in 1..Len(stack) : k # Len(stack) => NextCall[k] = stack[k]
  BY <1>1 DEF NextCall
<1>5. NextCall[Len(stack)] = [Top EXCEPT !.site = @ + 1]
  BY <1>1 DEF NextCall, Top
<1>. QED
  BY <1>1, <1>2, <1>3, <1>4, <1>5 DEF Frame

LEMMA MoveOnFrames ==
    ASSUME ContextsInv, OpenProgram, NothingHidden, MoveOn
    PROVE  FramesCovered'
<1>0. SummarizerTypeOK /\ stack \in Seq(Frame) /\ stack # <<>> /\ stack' = NextCall
  BY DEF ContextsInv, WholeInv, SummarizerTypeOK, Frame, MoveOn, InlineSummaries
<1>1. UNCHANGED <<cmdline, prog, db>> /\ Improved
  BY DEF MoveOn, programVars, Improved
<1>2. Covered(Top.fun, Top.pre, Top.site) /\ Top \in Frame
  BY <1>0, TopTyped, MoveOnCovers DEF ContextsInv, WholeInv
<1>3. SUFFICES ASSUME NEW k \in 1..Len(stack), NEW F \in Frame, F = NextCall[k]
               PROVE  /\ k = Len(stack) => FrameCovered(F, F.site - 1)'
                      /\ k < Len(stack) => FrameCovered(F, F.site - 2)'
                      /\ k < Len(stack) => \A G \in Frame : G = NextCall[k + 1] => FramePending(F, G)'
  BY <1>0, TopMoved DEF FramesCovered
<1>4. CASE k = Len(stack)
  <2>1. F.fun = Top.fun /\ F.pre = Top.pre /\ F.site = Top.site + 1 /\ Top.site \in Nat
    BY <1>0, <1>2, <1>3, <1>4, TopMoved DEF Frame
  <2>2. FrameCovered(Top, Top.site - 1)
    BY <1>0, <1>2, <1>4, TopMoved DEF ContextsInv, FramesCovered, Top
  <2>3. IsBody(prog[F.fun])
    BY <1>0, ProgramBodies DEF SummarizerTypeOK, Frame
  <2>4. FrameCovered(F, F.site - 1)
    BY <1>2, <2>1, <2>2, <2>3 DEF FrameCovered, IsBody
  <2>. QED
    BY <1>1, <1>4, <2>4, FrameStays
<1>5. CASE k # Len(stack)
  <2>1. F = stack[k] /\ k < Len(stack) /\ k + 1 \in 1..Len(stack)
    BY <1>0, <1>3, <1>5, TopMoved
  <2>2. FrameCovered(F, F.site - 2)
    BY <1>3, <2>1 DEF ContextsInv, FramesCovered
  <2>3. ASSUME NEW G \in Frame, G = NextCall[k + 1] PROVE FramePending(F, G)
    <3>1. stack[k + 1] \in Frame
      BY <1>0, <2>1
    <3>2. FramePending(F, stack[k + 1])
      BY <1>3, <2>1, <3>1 DEF ContextsInv, FramesCovered
    <3>3. G.fun = stack[k + 1].fun /\ G.pre = stack[k + 1].pre
      BY <1>0, <2>1, <2>3, TopMoved DEF Top
    <3>. QED
      BY <3>2, <3>3 DEF FramePending
  <2>. QED
    BY <1>1, <1>5, <2>2, <2>3, FrameStays
<1>. QED
  BY <1>4, <1>5

LEMMA GoDownFrames ==
    ASSUME ContextsInv, OpenProgram, NothingHidden, NEW pre, GoDown(pre)
    PROVE  FramesCovered'
<1>. DEFINE H == [fun |-> Callee, pre |-> pre, site |-> 1]
<1>0. /\ SummarizerTypeOK /\ stack \in Seq(Frame) /\ stack # <<>>
      /\ stack' = Append(NextCall, H) /\ H \in Frame
  BY DEF ContextsInv, WholeInv, SummarizerTypeOK, Frame, GoDown, InlineSummaries
<1>1. UNCHANGED <<cmdline, prog, db>> /\ Improved
  BY DEF GoDown, programVars, Improved
<1>2. H.fun = Callee /\ H.pre = pre /\ H.site = 1
  OBVIOUS
<1>3. \A m \in Ways(Top.fun, Top.pre, Top.site) : Argument(Body, m, Top.site) \in pre
  BY DEF GoDown
<1>. HIDE DEF H
<1>4. /\ Len(stack') = Len(stack) + 1 /\ Len(stack) \in Nat \ {0}
      /\ stack'[Len(stack) + 1] = H
      /\ \A k \in 1..Len(stack) : stack'[k] = NextCall[k]
  BY <1>0, TopMoved
<1>5. Top \in Frame
  BY <1>0, TopTyped
<1>6. SUFFICES ASSUME NEW k \in 1..(Len(stack) + 1), NEW F \in Frame, F = stack'[k]
               PROVE  /\ k = Len(stack) + 1 => FrameCovered(F, F.site - 1)'
                      /\ k < Len(stack) + 1 => FrameCovered(F, F.site - 2)'
                      /\ k < Len(stack) + 1 => \A G \in Frame : G = stack'[k + 1] => FramePending(F, G)'
  BY <1>4 DEF FramesCovered
<1>7. CASE k = Len(stack) + 1
  <2>1. F.site = 1 /\ IsBody(prog[F.fun])
    BY <1>0, <1>2, <1>4, <1>6, <1>7, ProgramBodies DEF SummarizerTypeOK, Frame
  <2>2. FrameCovered(F, F.site - 1)
    BY <2>1 DEF FrameCovered, IsBody
  <2>. QED
    BY <1>1, <1>4, <1>7, <2>2, FrameStays
<1>8. CASE k = Len(stack)
  <2>1. F.fun = Top.fun /\ F.pre = Top.pre /\ F.site = Top.site + 1 /\ Top.site \in Nat
    BY <1>0, <1>4, <1>5, <1>6, <1>8, TopMoved DEF Frame
  <2>2. FrameCovered(Top, Top.site - 1)
    BY <1>0, <1>4, <1>5 DEF ContextsInv, FramesCovered, Top
  <2>3. FrameCovered(F, F.site - 2)
    BY <2>1, <2>2 DEF FrameCovered
  <2>4. FramePending(F, H)
    BY <1>2, <1>3, <2>1 DEF FramePending, Callee, Body
  <2>. QED
    BY <1>1, <1>4, <1>8, <2>3, <2>4, FrameStays
<1>9. CASE k < Len(stack)
  <2>1. F = stack[k] /\ k \in 1..Len(stack) /\ k + 1 \in 1..Len(stack)
    BY <1>0, <1>4, <1>6, <1>9, TopMoved
  <2>2. FrameCovered(F, F.site - 2)
    BY <1>9, <2>1 DEF ContextsInv, FramesCovered
  <2>3. ASSUME NEW G \in Frame, G = stack'[k + 1] PROVE FramePending(F, G)
    <3>1. stack[k + 1] \in Frame
      BY <1>0, <2>1
    <3>2. FramePending(F, stack[k + 1])
      BY <1>9, <2>1, <3>1 DEF ContextsInv, FramesCovered
    <3>3. G.fun = stack[k + 1].fun /\ G.pre = stack[k + 1].pre
      BY <1>0, <1>4, <2>1, <2>3, TopMoved DEF Top
    <3>. QED
      BY <3>2, <3>3 DEF FramePending
  <2>. QED
    BY <1>1, <1>9, <2>2, <2>3, FrameStays
<1>. QED
  BY <1>4, <1>7, <1>8, <1>9

LEMMA PutSummaryEntries ==
    ASSUME ContextsInv, OpenProgram, NothingHidden, NEW T, PutSummary(T)
    PROVE  EntriesCovered'
<1>0. /\ SummarizerTypeOK /\ stack \in Seq(Frame) /\ stack # <<>>
      /\ Top \in Frame /\ IsBody(Body) /\ Top.site > Body.n
  BY TopTyped, ProgramBodies DEF ContextsInv, WholeInv, SummarizerTypeOK, Frame, PutSummary, Body
<1>1. UNCHANGED <<cmdline, prog>> /\ Improved
  BY PutImproves DEF PutSummary, programVars
<1>2. db' = Put(Top.fun, [pre |-> Top.pre, trans |-> Under(Top.pre, T)])
  BY DEF PutSummary
<1>3. ASSUME NEW i \in 1..Body.n PROVE Covered(Top.fun, Top.pre, i)
  <2>1. FrameCovered(Top, Top.site - 1)
    BY <1>0 DEF ContextsInv, FramesCovered, Top
  <2>2. i <= Top.site - 1
    BY <1>0 DEF IsBody, Frame
  <2>. QED
    BY <2>1, <2>2 DEF FrameCovered, Body
<1>4. SUFFICES ASSUME NEW f \in DOMAIN db', NEW i \in 1..prog[f].n, NEW pre, pre = db'[f].pre
               PROVE  Covered(f, pre, i)
  BY <1>1, CoveredStays DEF EntriesCovered
<1>5. f \in DOMAIN db => Covered(f, db[f].pre, i)
  BY DEF ContextsInv, EntriesCovered
<1>6. CASE f # Top.fun
  BY <1>2, <1>4, <1>5, <1>6 DEF Put
<1>7. CASE f = Top.fun /\ f \notin DOMAIN db
  BY <1>2, <1>3, <1>4, <1>7 DEF Put, Body
<1>8. CASE f = Top.fun /\ f \in DOMAIN db
  <2>1. pre = db[f].pre \cup Top.pre
    BY <1>2, <1>4, <1>8 DEF Put, Join
  <2>2. Covered(f, Top.pre, i)
    BY <1>3, <1>8 DEF Body
  <2>. QED
    BY <1>5, <1>8, <2>1, <2>2, CoveredJoins
<1>. QED
  BY <1>6, <1>7, <1>8

LEMMA PutSummaryFrames ==
    ASSUME ContextsInv, OpenProgram, NothingHidden, NEW T, PutSummary(T)
    PROVE  FramesCovered'
<1>0. /\ SummarizerTypeOK /\ stack \in Seq(Frame) /\ stack # <<>>
      /\ Top \in Frame
  BY TopTyped DEF ContextsInv, WholeInv, SummarizerTypeOK, Frame, PutSummary
<1>1. UNCHANGED <<cmdline, prog>> /\ Improved
  BY PutImproves DEF PutSummary, programVars
<1>2. Top.fun \in DOMAIN db' /\ Top.pre \subseteq db'[Top.fun].pre
  BY DEF PutSummary, Put, Join
<1>3. /\ Len(stack) \in Nat \ {0} /\ Len(stack') = Len(stack) - 1
      /\ \A k \in 1..(Len(stack) - 1) : stack'[k] = stack[k]
  BY <1>0, StackPopped, TopMoved DEF PutSummary
<1>4. SUFFICES ASSUME NEW k \in 1..(Len(stack) - 1), NEW F \in Frame, F = stack[k]
               PROVE  /\ k = Len(stack) - 1 => FrameCovered(F, F.site - 1)'
                      /\ k < Len(stack) - 1 => FrameCovered(F, F.site - 2)'
                      /\ k < Len(stack) - 1 => \A G \in Frame : G = stack[k + 1] => FramePending(F, G)'
  <2>1. \A k \in 1..Len(stack') : k < Len(stack') => stack'[k + 1] = stack[k + 1]
    BY <1>3
  <2>. QED
    BY <1>3, <1>4, <2>1 DEF FramesCovered
<1>5. k \in 1..Len(stack) /\ k < Len(stack)
  BY <1>3
<1>6. FrameCovered(F, F.site - 2)
  BY <1>4, <1>5 DEF ContextsInv, FramesCovered
<1>7. CASE k < Len(stack) - 1
  <2>1. \A G \in Frame : G = stack[k + 1] => FramePending(F, G)
    BY <1>4, <1>5 DEF ContextsInv, FramesCovered
  <2>. QED
    BY <1>1, <1>6, <1>7, <2>1, FrameStays
<1>8. CASE k = Len(stack) - 1
  <2>1. stack[k + 1] = Top
    BY <1>3, <1>8 DEF Top
  <2>2. FramePending(F, Top)
    BY <1>0, <1>4, <1>5, <2>1 DEF ContextsInv, FramesCovered
  <2>3. ASSUME NEW i \in 1..prog[F.fun].n, i = F.site - 1
        PROVE  Covered(F.fun, F.pre, i)'
    <3>1. prog'[F.fun].site[i].callee = Top.fun
      BY <1>1, <2>2, <2>3 DEF FramePending
    <3>2. Ways(F.fun, F.pre, i)' \subseteq Ways(F.fun, F.pre, i)
      BY <1>1, WaysBefore
    <3>3. ASSUME NEW m \in Ways(F.fun, F.pre, i)'
          PROVE  Argument(prog[F.fun], m, i)' \in db'[Top.fun].pre
      <4>1. Argument(prog[F.fun], m, i) \in Top.pre
        BY <2>2, <2>3, <3>2 DEF FramePending
      <4>2. Argument(prog[F.fun], m, i)' = Argument(prog[F.fun], m, i)
        BY <1>1 DEF Argument, Behind
      <4>. QED
        BY <1>2, <4>1, <4>2
    <3>. QED
      BY <1>2, <3>1, <3>3 DEF Covered, CoveredBy
  <2>4. FrameCovered(F, F.site - 2)'
    BY <1>1, <1>6, FrameStays
  <2>5. F.site \in Nat /\ IsBody(prog[F.fun])
    BY <1>0, ProgramBodies DEF SummarizerTypeOK, Frame
  <2>6. FrameCovered(F, F.site - 1)'
    BY <1>1, <2>3, <2>4, <2>5 DEF FrameCovered, IsBody
  <2>. QED
    BY <1>8, <2>6
<1>. QED
  BY <1>3, <1>7, <1>8

LEMMA ContextsInit == Init => ContextsInv
<1>. SUFFICES ASSUME Init PROVE ContextsInv
  OBVIOUS
<1>1. DOMAIN db = {} /\ Len(stack) = 0
  BY DEF Init
<1>. QED
  BY <1>1, WholeInit DEF ContextsInv, OutsideOpen, EntriesCovered, FramesCovered

LEMMA ContextsStep == ContextsInv /\ [AnyStep]_vars => ContextsInv'
<1>. SUFFICES ASSUME ContextsInv, [AnyStep]_vars PROVE ContextsInv'
  OBVIOUS
<1>1. WholeInv' /\ OutsideOpen' /\ Improved /\ UNCHANGED <<cmdline, prog>>
  BY WholeInvStep, OutsideStep, StepImproves, OptionsStay DEF ContextsInv
<1>2. SUFFICES ASSUME OpenProgram, NothingHidden PROVE EntriesCovered' /\ FramesCovered'
  <2>1. OpenProgram' => OpenProgram
    BY <1>1 DEF OpenProgram, ContextSensitive, Termination, Isset, NoSelfCalls, AssertionsFirst
  <2>2. NothingHidden' => NothingHidden
    BY <1>1, HiddenStays
  <2>. QED
    BY <1>1, <1>2, <2>1, <2>2 DEF ContextsInv
<1>3. EntriesCovered /\ FramesCovered
  BY <1>2 DEF ContextsInv
<1>4. CASE \E T : PutSummary(T)
  BY <1>2, <1>4, PutSummaryEntries, PutSummaryFrames
<1>5. CASE UNCHANGED db
  <2>1. EntriesCovered'
    BY <1>1, <1>3, <1>5, EntriesStay
  <2>2. CASE MoveOn
    BY <1>2, <2>1, <2>2, MoveOnFrames
  <2>3. CASE \E pre : GoDown(pre)
    BY <1>2, <2>1, <2>3, GoDownFrames
  <2>4. CASE Summarize
    <3>1. PICK f : stack' = IF f \in DOMAIN db THEN <<>> ELSE <<[fun |-> f, pre |-> Value, site |-> 1]>>
      BY <2>4 DEF Summarize
    <3>2. CASE stack' = <<>>
      BY <2>1, <3>2 DEF FramesCovered
    <3>3. CASE stack' = <<[fun |-> f, pre |-> Value, site |-> 1]>>
      <4>1. Len(stack') = 1 /\ stack'[1].site = 1
        BY <3>3
      <4>2. \A F : F.site = 1 => FrameCovered(F, F.site - 1)'
        <5>1. ASSUME NEW F, F.site = 1 PROVE FrameCovered(F, F.site - 1)'
          BY <5>1 DEF FrameCovered
        <5>. QED
          BY <5>1
      <4>. QED
        BY <2>1, <4>1, <4>2 DEF FramesCovered
    <3>. QED
      BY <3>1, <3>2, <3>3
  <2>5. CASE UNCHANGED stack
    <3>1. FramesCovered'
      BY <1>1, <1>3, <2>5, FrameStays DEF FramesCovered
    <3>. QED
      BY <2>1, <3>1
  <2>. QED
    BY <1>4, <1>5, <2>2, <2>3, <2>4, <2>5 DEF AnyStep, Finish, Explore, vars
<1>. QED
  BY <1>4, <1>5 DEF AnyStep, Summarize, MoveOn, GoDown, Finish, Explore, vars

-----------------------------------------------------------------------------
(* The calls of the executions are those the summaries stand for.          *)

(* With --termination the models that fail an assertion are left out.      *)
(* Without contexts a call need only be seen to be reachable; otherwise a  *)
(* failure must not come with a call, whose argument would be lost.        *)
AssertionsHideNoCall ==
    \A f \in Fun : IF ContextSensitive THEN FailsWithoutCalls(prog[f]) ELSE HidesNoCall(prog[f])

CallsShown == OpenProgram /\ (Termination => AssertionsHideNoCall)

CalledCovered == \A c \in called : c[1] \in Fun => c[1] \in DOMAIN db /\ c[2] \in db[c[1]].pre

CalledInv ==
    /\ ContextsInv /\ EntryInv /\ CoverInv
    /\ phase = "summarize" => called = {}
    /\ CallsShown /\ NothingHidden => CalledCovered

LEMMA FoundCallCovered ==
    ASSUME CalledInv, CallsShown, NothingHidden, phase = "explore",
           NEW c \in CallsFound(prog, called, returned), c[1] \in Fun
    PROVE  c[1] \in DOMAIN db /\ c[2] \in db[c[1]].pre
<1>1. SummarizerTypeOK /\ EntriesCovered /\ CalledCovered /\ (~ContextSensitive => WholeContexts)
  BY DEF CalledInv, ContextsInv, WholeInv, CallsShown
<1>2. CASE c \in {Entry} \X Value
  BY <1>2 DEF CalledInv, EntryInv
<1>3. CASE c \notin {Entry} \X Value
  <2>. DEFINE Made(f, m) == {<<prog[f].site[i].callee, Argument(prog[f], m, i)>> : i \in CallsMade(prog, returned, f, m)}
              MadeBy(f) == UNION {Made(f, m) : m \in {m \in Models(prog[f]) : <<f, m.arg>> \in called}}
  <2>0. CallsFound(prog, called, returned) = {Entry} \X Value \cup UNION {MadeBy(f) : f \in Fun}
    BY DEF CallsFound
  <2>. HIDE DEF MadeBy
  <2>1. PICK f \in Fun : c \in MadeBy(f)
    BY <1>3, <2>0
  <2>2. PICK m \in Models(prog[f]) : <<f, m.arg>> \in called /\ c \in Made(f, m)
    BY <2>1 DEF MadeBy
  <2>3. PICK i \in CallsMade(prog, returned, f, m) :
            c = <<prog[f].site[i].callee, Argument(prog[f], m, i)>>
    BY <2>2 DEF Made
  <2>4. /\ i \in 1..prog[f].n /\ Taken(prog[f], m, i)
        /\ Runs(returned, prog[f], m, i - 1)
    BY DEF CallsMade
  <2>5. f \in DOMAIN db /\ m.arg \in db[f].pre
    BY <1>1, <2>2 DEF CalledCovered
  <2>6. IsBody(prog[f])
    BY <1>1, ProgramBodies DEF SummarizerTypeOK
  <2>7. SummariesHold(prog[f], m, 1..(i - 1))
    <3>1. i - 1 \in 0..prog[f].n
      BY <2>4, <2>6 DEF IsBody
    <3>. QED
      BY <1>1, <2>4, <3>1, RunsHold DEF CalledInv, CoverInv
  <2>8. Covered(f, db[f].pre, i) /\ c[1] = prog[f].site[i].callee /\ c[2] \in Value
    BY <1>1, <2>3, <2>4, <2>5, <2>6, ArgumentIsValue DEF EntriesCovered
  <2>9. ASSUME NEW k \in Ways(f, db[f].pre, i), ~ContextSensitive
        PROVE  c[1] \in DOMAIN db /\ c[2] \in db[c[1]].pre
    <3>1. c[1] \in DOMAIN db
      BY <2>5, <2>8, <2>9 DEF Covered, CoveredBy
    <3>. QED
      BY <1>1, <2>8, <2>9, <3>1 DEF WholeContexts
  <2>10. CASE Considered(f, m)
    <3>1. m \in Ways(f, db[f].pre, i)
      BY <2>4, <2>5, <2>7, <2>10 DEF Ways
    <3>2. CASE ContextSensitive
      BY <2>3, <2>8, <3>1, <3>2 DEF Covered, CoveredBy
    <3>. QED
      BY <2>9, <3>1, <3>2
  <2>11. CASE ~Considered(f, m)
    <3>1. Termination /\ Fails(prog[f], m)
      BY <2>11 DEF Considered
    <3>2. ~ContextSensitive /\ HidesNoCall(prog[f])
      BY <2>4, <3>1 DEF CallsShown, AssertionsHideNoCall, FailsWithoutCalls
    <3>3. PICK k \in Models(prog[f]) :
              /\ ~Fails(prog[f], k) /\ Taken(prog[f], k, i)
              /\ SameCalls(prog[f], k, m, i - 1)
      BY <2>4, <3>1, <3>2 DEF HidesNoCall
    <3>4. SummariesHold(prog[f], k, 1..(i - 1))
      BY <2>7, <3>3 DEF SummariesHold, SameCalls, Taken
    <3>5. k.arg \in db[f].pre
      BY <1>1, <2>5, <3>2 DEF WholeContexts, Models
    <3>6. k \in Ways(f, db[f].pre, i)
      BY <3>3, <3>4, <3>5 DEF Ways, Considered
    <3>. QED
      BY <2>9, <3>2, <3>6
  <2>. QED
    BY <2>10, <2>11
<1>. QED
  BY <1>2, <1>3

LEMMA CalledInit == Init => CalledInv
<1>. SUFFICES ASSUME Init PROVE CalledInv
  OBVIOUS
<1>1. called = {} /\ ContextsInv /\ EntryInv /\ CoverInv
  BY ContextsInit, EntryInit, CoverInit DEF Init
<1>. QED
  BY <1>1 DEF CalledInv, CalledCovered

LEMMA CalledStep == CalledInv /\ [AnyStep]_vars => CalledInv'
<1>. SUFFICES ASSUME CalledInv, [AnyStep]_vars PROVE CalledInv'
  OBVIOUS
<1>1. ContextsInv' /\ EntryInv' /\ CoverInv' /\ Improved /\ UNCHANGED <<cmdline, prog>>
  BY ContextsStep, EntryStep, CoverStep, StepImproves, OptionsStay DEF CalledInv, ContextsInv
<1>2. /\ CallsShown' => CallsShown
      /\ NothingHidden' => NothingHidden
  <2>1. CallsShown' => CallsShown
    BY <1>1 DEF CallsShown, OpenProgram, ContextSensitive, Termination, Isset, NoSelfCalls,
                AssertionsFirst, AssertionsHideNoCall
  <2>. QED
    BY <1>1, <2>1, HiddenStays
<1>3. CASE Explore
  <2>1. /\ called' = called \cup CallsFound(prog, called, returned)
        /\ db' = db /\ phase = "explore" /\ phase' # "summarize"
    BY <1>3 DEF Explore
  <2>2. ASSUME CallsShown, NothingHidden PROVE CalledCovered'
    <3>1. ASSUME NEW c \in called', c[1] \in Fun
          PROVE  c[1] \in DOMAIN db /\ c[2] \in db[c[1]].pre
      <4>1. CASE c \in called
        BY <2>2, <3>1, <4>1 DEF CalledInv, CalledCovered
      <4>2. CASE c \in CallsFound(prog, called, returned)
        BY <2>1, <2>2, <3>1, <4>2, FoundCallCovered
      <4>. QED
        BY <2>1, <4>1, <4>2
    <3>. QED
      BY <2>1, <3>1 DEF CalledCovered
  <2>. QED
    BY <1>1, <1>2, <2>1, <2>2 DEF CalledInv
<1>4. CASE UNCHANGED called /\ (phase' = "summarize" => phase = "summarize")
  <2>1. CalledCovered => CalledCovered'
    BY <1>1, <1>4 DEF CalledCovered, Improved
  <2>. QED
    BY <1>1, <1>2, <1>4, <2>1 DEF CalledInv
<1>. QED
  BY <1>3, <1>4 DEF AnyStep, Summarize, MoveOn, GoDown, PutSummary, Finish, vars, programVars

LEMMA CalledContexts ==
    CalledInv => (CallsShown => ContextsCover)
BY DEF CalledInv, CalledCovered, ContextsCover

(* Unless a summary says false, the contexts of all calls are among those  *)
(* the summaries were computed in, whatever was skipped and in whatever    *)
(* order contexts were joined: no function that is called has been left    *)
(* out.  A function may call itself where contexts are not told apart.     *)
(* summarizer_fwt assumes no assertions, and they may stand and fail       *)
(* anywhere.                                                               *)
THEOREM ContextsAreCovered == SummarizerSpec => [](~Termination /\ OpenProgram => ContextsCover)
<1>1. CalledInv => (~Termination /\ OpenProgram => ContextsCover)
  BY CalledContexts DEF CallsShown
<1>. QED
  BY SummarizerTakesAnyStep, CalledInit, CalledStep, <1>1, PTL DEF SummarizerSpec

-----------------------------------------------------------------------------
(* The recursion of compute_summary_rec, in a program whose calls can be   *)
(* ranked: none leads back to a function that has not returned, except to  *)
(* itself where contexts are not told apart.                               *)

Descends(rank) ==
    \A f \in Fun : \A i \in 1..prog[f].n :
        prog[f].site[i].callee \in Fun =>
            \/ rank[prog[f].site[i].callee] < rank[f]
            \/ ~ContextSensitive /\ prog[f].site[i].callee = f

CallsDescend == \E rank \in [Fun -> Nat] : Descends(rank)

StackDescends(rank) ==
    \A j, k \in 1..Len(stack) : j < k => rank[stack[k].fun] < rank[stack[j].fun]

RankInv ==
    SummarizerTypeOK /\ \A rank \in [Fun -> Nat] : Descends(rank) => StackDescends(rank)

LEMMA RankInit == Init => RankInv
<1>1. Init => Len(stack) = 0
  BY DEF Init
<1>. QED
  BY <1>1, TypesInit DEF RankInv, StackDescends

LEMMA RankStep == RankInv /\ [AnyStep]_vars => RankInv'
<1>. SUFFICES ASSUME RankInv, [AnyStep]_vars PROVE RankInv'
  OBVIOUS
<1>0. SummarizerTypeOK /\ SummarizerTypeOK' /\ stack \in Seq(Frame) /\ UNCHANGED <<cmdline, prog>>
  BY TypesStep, OptionsStay DEF RankInv, SummarizerTypeOK, Frame
<1>1. SUFFICES ASSUME NEW rank \in [Fun -> Nat], Descends(rank), StackDescends(rank)
               PROVE  \A j, k \in 1..Len(stack') : j < k => rank[stack'[k].fun] < rank[stack'[j].fun]
  <2>1. \A rank : Descends(rank)' => Descends(rank)
    BY <1>0 DEF Descends, ContextSensitive, Isset
  <2>. QED
    BY <1>0, <1>1, <2>1 DEF RankInv, StackDescends
<1>2. ASSUME stack # <<>>
      PROVE  /\ Len(stack) \in Nat \ {0} /\ Len(NextCall) = Len(stack)
             /\ \A k \in 1..Len(stack) : NextCall[k].fun = stack[k].fun
  BY <1>0, <1>2, TopMoved DEF Top
<1>3. CASE Summarize
  <2>1. PICK f : stack' = IF f \in DOMAIN db THEN <<>> ELSE <<[fun |-> f, pre |-> Value, site |-> 1]>>
    BY <1>3 DEF Summarize
  <2>2. Len(stack') \in {0, 1}
    BY <2>1
  <2>. QED
    BY <2>2
<1>4. CASE MoveOn
  <2>1. stack # <<>> /\ stack' = NextCall
    BY <1>4 DEF MoveOn, InlineSummaries
  <2>. QED
    BY <1>1, <1>2, <2>1 DEF StackDescends
<1>5. CASE \E pre : GoDown(pre)
  <2>1. PICK pre : GoDown(pre)
    BY <1>5
  <2>. DEFINE H == [fun |-> Callee, pre |-> pre, site |-> 1]
  <2>2. stack # <<>> /\ stack' = Append(NextCall, H) /\ H \in Frame /\ H.fun = Callee
    BY <2>1 DEF GoDown, InlineSummaries, Frame
  <2>. HIDE DEF H
  <2>3. NextCall \in Seq(Frame)
    BY <1>0, <2>2, TopMoved
  <2>4. /\ Len(stack') = Len(stack) + 1 /\ Len(stack) \in Nat \ {0}
        /\ stack'[Len(stack) + 1].fun = Callee
        /\ \A k \in 1..Len(stack) : stack'[k].fun = stack[k].fun
    BY <1>2, <2>2, <2>3
  <2>5. rank[Callee] < rank[Top.fun]
    <3>1. Top.site \in 1..Body.n /\ Top.fun \in Fun
      BY <1>0, <2>1, TopInlines DEF GoDown, Frame
    <3>. QED
      BY <1>1, <2>1, <3>1 DEF GoDown, Descends, Callee, Body
  <2>6. \A k \in 1..Len(stack) : stack[k].fun \in Fun /\ rank[stack[k].fun] \in Nat
    <3>1. \A k \in 1..Len(stack) : stack[k] \in Frame
      BY <1>0
    <3>. QED
      BY <1>1, <3>1 DEF Frame
  <2>7. rank[Callee] \in Nat
    BY <1>1, <2>1 DEF GoDown
  <2>8. ASSUME NEW j \in 1..Len(stack) PROVE rank[Callee] < rank[stack[j].fun]
    <3>1. CASE j = Len(stack)
      BY <2>5, <3>1 DEF Top
    <3>2. CASE j < Len(stack)
      <4>1. Len(stack) \in 1..Len(stack)
        BY <2>4
      <4>2. rank[Top.fun] < rank[stack[j].fun]
        BY <1>1, <3>2, <4>1 DEF StackDescends, Top
      <4>. QED
        BY <2>5, <2>6, <2>7, <4>1, <4>2 DEF Top
    <3>. QED
      BY <2>4, <3>1, <3>2
  <2>. QED
    BY <1>1, <2>4, <2>8 DEF StackDescends
<1>6. CASE \E T : PutSummary(T)
  <2>1. stack # <<>> /\ stack' = SubSeq(stack, 1, Len(stack) - 1)
    BY <1>6 DEF PutSummary
  <2>. QED
    BY <1>0, <1>1, <1>2, <2>1, StackPopped DEF StackDescends
<1>7. CASE UNCHANGED stack
  BY <1>1, <1>7 DEF StackDescends
<1>. QED
  BY <1>3, <1>4, <1>5, <1>6, <1>7 DEF AnyStep, Finish, Explore, vars

LEMMA RankedFrames == RankInv => (CallsDescend => NoFrameTwice)
<1>. SUFFICES ASSUME RankInv, CallsDescend, NEW j \in DOMAIN stack, NEW k \in DOMAIN stack, j < k
              PROVE  stack[j].fun # stack[k].fun
  BY DEF NoFrameTwice
<1>1. PICK rank \in [Fun -> Nat] : Descends(rank)
  BY DEF CallsDescend
<1>2. stack \in Seq(Frame) /\ StackDescends(rank)
  BY <1>1 DEF RankInv, SummarizerTypeOK, Frame
<1>3. j \in 1..Len(stack) /\ k \in 1..Len(stack) /\ stack[j].fun \in Fun
  <2>1. j \in 1..Len(stack) /\ k \in 1..Len(stack) /\ stack[j] \in Frame
    BY <1>2
  <2>. QED
    BY <2>1 DEF Frame
<1>4. rank[stack[k].fun] < rank[stack[j].fun] /\ rank[stack[j].fun] \in Nat
  BY <1>1, <1>2, <1>3 DEF StackDescends
<1>. QED
  BY <1>4

(* No function waits for itself: in a program without recursion, or where  *)
(* functions call only themselves and contexts are not told apart, the     *)
(* functions being summarized are all different.                           *)
THEOREM FramesDiffer == SummarizerSpec => [](CallsDescend => NoFrameTwice)
BY SummarizerTakesAnyStep, RankInit, RankStep, RankedFrames, PTL DEF SummarizerSpec
=============================================================================
