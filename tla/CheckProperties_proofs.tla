------------------------ MODULE CheckProperties_proofs ------------------------
(***************************************************************************)
(* Proofs about check_properties and cover_goals_extt, for every program,  *)
(* every formula and every choice the solver makes among the models.       *)
(***************************************************************************)
EXTENDS CheckProperties, TLAPS

LEMMA OneFunction ==
    ASSUME NEW fn \in Function, NEW p \in AssertsOf[fn]
    PROVE  p \in Property /\ FunctionOf(p) = fn
<1>1. p \in Property
    BY CheckAssumption
<1>2. \A g \in Function : p \in AssertsOf[g] => g = fn
    BY CheckAssumption
<1> QED BY <1>1, <1>2 DEF FunctionOf

LEMMA ContextIsOfFormula ==
    ASSUME NEW fn \in Function
    PROVE  /\ ContextModels(fn) \subseteq formula[fn].models
           /\ Concrete(ContextModels(fn)) = Concrete(formula[fn].models)
           /\ ~formula[fn].continues => Concrete(ContextModels(fn)) = ContextModels(fn)
BY DEF ContextModels, FormulaModels, Concrete

LEMMA FailingAreGoals ==
    ASSUME NEW m, NEW F \in Failing(m)
    PROVE  F \subseteq {p \in goals \cap m.viol : status[p] = "unknown"}
BY DEF Failing

(* What a step never changes; the solver's failure is not forgotten.       *)
LEMMA Stays == [CheckStep]_checkVars => UNCHANGED <<cmdline, formula>>
BY DEF CheckStep, BeginFunction, PrepareGoals, CoverSat, CoverUnsat, CoverError,
       AcceptModel, RetryConcrete, Settle, Throw, Return, checkVars

LEMMA FailureStays == [CheckStep]_checkVars /\ ~solverFailed' => ~solverFailed
BY DEF CheckStep, BeginFunction, PrepareGoals, CoverSat, CoverUnsat, CoverError,
       AcceptModel, RetryConcrete, Settle, Throw, Return, checkVars

LEMMA OptionsStay ==
    [CheckStep]_checkVars => SpuriousCheck' = SpuriousCheck /\ AllProperties' = AllProperties
BY Stays DEF SpuriousCheck, AllProperties, Isset

-----------------------------------------------------------------------------
(* Type correctness.                                                       *)

LEMMA MarkedStatus ==
    ASSUME NEW m, MarkFailed(m), status \in [Property -> Status]
    PROVE  status' \in [Property -> Status]
BY DEF MarkFailed, Status

LEMMA TypeInit == CheckInit => TypeOK
BY CheckAssumption, CommandLineAssumption DEF CheckInit, TypeOK, Status, Answer

LEMMA TypeStep == TypeOK /\ [CheckStep]_checkVars => TypeOK'
<1> SUFFICES ASSUME TypeOK, [CheckStep]_checkVars PROVE TypeOK'
    OBVIOUS
<1> USE DEF TypeOK
<1>1. CASE BeginFunction
    BY <1>1 DEF BeginFunction, goalVars
<1>2. CASE PrepareGoals
    <2>1. status' \in [Property -> Status]
        BY <1>2 DEF PrepareGoals, Status
    <2>2. goals' \subseteq Property
        BY <1>2, CheckAssumption DEF PrepareGoals, NewGoalMap, GoalsOf
    <2>3. suspect' \in BOOLEAN
        BY <1>2 DEF PrepareGoals
    <2> QED BY <1>2, <2>1, <2>2, <2>3 DEF PrepareGoals, NewGoalMap
<1>3. CASE CoverSat
    <2>1. PICK fn \in cur : \E m \in Violating(ContextModels(fn), Uncovered) :
                                model' = {m} /\ covered' = Mark(m)
        BY <1>3 DEF CoverSat
    <2>2. fn \in Function /\ formula[fn].models \subseteq Model
        BY DEF Formula
    <2>3. \A m \in Violating(ContextModels(fn), Uncovered) : m \in Model
        BY <2>2, ContextIsOfFormula DEF Violating
    <2>4. model' \in {{}} \cup {{m} : m \in Model} /\ covered' \subseteq goals
        BY <2>1, <2>3 DEF Mark
    <2>5. asked' \subseteq goals
        BY <1>3 DEF CoverSat, Uncovered
    <2> QED BY <1>3, <2>4, <2>5 DEF CoverSat
<1>4. CASE CoverUnsat
    BY <1>4 DEF CoverUnsat, Uncovered
<1>5. CASE CoverError
    BY <1>5 DEF CoverError, Uncovered
<1>6. CASE AcceptModel
    <2>1. status' \in [Property -> Status]
        BY <1>6, MarkedStatus DEF AcceptModel
    <2> QED BY <1>6, <2>1 DEF AcceptModel, AfterAssignment, goalVars
<1>7. CASE RetryConcrete
    <2>1. status' \in [Property -> Status]
        BY <1>7, MarkedStatus DEF RetryConcrete
    <2> QED BY <1>7, <2>1 DEF RetryConcrete, AfterAssignment, goalVars
<1>8. CASE Settle
    BY <1>8 DEF Settle, Status, goalVars
<1>9. CASE Throw
    BY <1>9 DEF Throw, goalVars
<1>10. CASE Return
    <2>1. Verdict(status) \in Answer
        BY DEF Verdict, Answer
    <2> QED BY <1>10, <2>1 DEF Return, goalVars
<1>11. CASE UNCHANGED checkVars
    BY <1>11 DEF checkVars
<1> QED BY <1>1, <1>2, <1>3, <1>4, <1>5, <1>6, <1>7, <1>8, <1>9, <1>10, <1>11 DEF CheckStep

(* The types of the variables.                                             *)
THEOREM Types == CheckSpec => []TypeOK
BY TypeInit, TypeStep, PTL DEF CheckSpec

-----------------------------------------------------------------------------
(* What holds while a function is checked.                                 *)

Searching == pc \in {"solve", "assignment", "settle"}

(* The goals are undecided or failed assertions of the function; its other *)
(* assertions are decided.                                                 *)
GoalInv ==
    \A fn \in cur : Searching =>
        /\ goals \subseteq AssertsOf[fn] \ Trivial
        /\ \A p \in goals : status[p] # "pass"
        /\ \A p \in AssertsOf[fn] \ Trivial : p \in goals \/ status[p] # "unknown"
        /\ suspect = (formula[fn].continues /\ SpuriousCheck)

(* The model in hand is one of the context and violates a goal asked for.  *)
ModelInv ==
    \A fn \in cur : pc = "assignment" =>
        \E m \in Violating(ContextModels(fn), asked) :
            model = {m} /\ m.viol \cap goals \subseteq covered

(* What was not asked for had been covered before.                         *)
AskedInv == pc = "assignment" => goals \ asked \subseteq covered

(* The models of a function violate assertions of its own.                 *)
OwnViolations ==
    \A fn \in Function : \A m \in formula[fn].models : m.viol \subseteq AssertsOf[fn] \ Trivial

CursorInv ==
    /\ OwnViolations
    /\ cur = {} <=> pc \notin {"unwound", "solve", "assignment", "settle", "aborted"}
    /\ cur \cap todo = {}

SearchInv == TypeOK /\ CursorInv /\ GoalInv /\ ModelInv /\ AskedInv

LEMMA SearchInvInit == CheckInit => SearchInv
<1> SUFFICES ASSUME CheckInit PROVE SearchInv
    OBVIOUS
<1>1. OwnViolations
    BY CheckAssumption DEF CheckInit, OwnViolations
<1> QED BY <1>1, TypeInit DEF CheckInit, SearchInv, CursorInv, GoalInv, ModelInv, AskedInv,
                       Searching

LEMMA SearchInvStep == SearchInv /\ [CheckStep]_checkVars => SearchInv'
<1> SUFFICES ASSUME SearchInv, [CheckStep]_checkVars PROVE SearchInv'
    OBVIOUS
<1>0. SpuriousCheck' = SpuriousCheck
    BY OptionsStay
<1>1. TypeOK /\ TypeOK' /\ OwnViolations'
    <2>1. OwnViolations'
        BY Stays DEF SearchInv, CursorInv, OwnViolations
    <2> QED BY <2>1, TypeStep DEF SearchInv
<1> USE DEF SearchInv, CursorInv, Searching
<1>2. CASE BeginFunction
    BY <1>1, <1>2 DEF BeginFunction, goalVars, GoalInv, ModelInv, AskedInv
<1>3. CASE PrepareGoals
    <2>1. PICK fn \in cur :
            /\ goals' = GoalsOf(fn)
            /\ suspect' = (formula[fn].continues /\ SpuriousCheck)
            /\ status' = [p \in Property |->
                            IF p \in AssertsOf[fn] \cap Trivial THEN "pass" ELSE status[p]]
        BY <1>3 DEF PrepareGoals, NewGoalMap
    <2>2. cur' = {fn} /\ fn \in Function /\ pc' = "solve" /\ UNCHANGED <<formula, todo, cur>>
        BY <1>1, <1>3, <2>1 DEF PrepareGoals, TypeOK
    <2>3. AssertsOf[fn] \subseteq Property
        BY <2>2, CheckAssumption
    <2>4. \A p \in AssertsOf[fn] \ Trivial : status'[p] = status[p]
        BY <2>1, <2>3
    <2>5. GoalInv'
        BY <1>0, <2>1, <2>2, <2>4 DEF GoalInv, GoalsOf
    <2> QED BY <1>1, <1>3, <2>2, <2>5 DEF ModelInv, AskedInv
<1>4. CASE CoverSat
    <2>0. PICK fn \in cur : \E m \in Violating(ContextModels(fn), Uncovered) :
            model' = {m} /\ covered' = Mark(m)
        BY <1>4 DEF CoverSat
    <2>1. PICK m \in Violating(ContextModels(fn), Uncovered) :
            model' = {m} /\ covered' = Mark(m)
        BY <2>0
    <2>2. /\ asked' = Uncovered /\ pc = "solve" /\ pc' = "assignment"
          /\ UNCHANGED <<formula, status, todo, cur, goals, suspect, result>>
        BY <1>4 DEF CoverSat
    <2>3. cur = {fn}
        BY <1>1 DEF TypeOK
    <2>4. GoalInv'
        BY <1>0, <2>2 DEF GoalInv
    <2>5. ModelInv'
        BY <2>1, <2>2, <2>3 DEF ModelInv, Mark, Violating, ContextModels
    <2>6. AskedInv'
        BY <2>1, <2>2 DEF AskedInv, Mark, Uncovered
    <2> QED BY <1>1, <2>2, <2>4, <2>5, <2>6
<1>5. CASE CoverUnsat
    BY <1>0, <1>1, <1>5 DEF CoverUnsat, GoalInv, ModelInv, AskedInv
<1>6. CASE CoverError
    BY <1>0, <1>1, <1>6 DEF CoverError, GoalInv, ModelInv, AskedInv
<1>7. ASSUME AcceptModel \/ RetryConcrete PROVE SearchInv'
    <2>1. /\ pc = "assignment" /\ pc' \in {"solve", "settle"}
          /\ UNCHANGED <<formula, todo, cur, goalVars, result>>
        BY <1>7 DEF AcceptModel, RetryConcrete, AfterAssignment
    <2>2. (\E m : MarkFailed(m)) \/ UNCHANGED status
        BY <1>7 DEF AcceptModel, RetryConcrete
    <2>3. \A p \in Property : status'[p] = status[p] \/ status'[p] = "fail"
        BY <2>2 DEF MarkFailed
    <2>4. \A p \in Property : status[p] # "unknown" => status'[p] # "unknown"
        BY <2>3
    <2>5. \A fn \in cur : AssertsOf[fn] \subseteq Property
        BY <1>1, CheckAssumption DEF TypeOK
    <2>6. GoalInv'
        <3> SUFFICES ASSUME NEW fn \in cur
                     PROVE  /\ goals \subseteq AssertsOf[fn] \ Trivial
                            /\ \A p \in goals : status'[p] # "pass"
                            /\ \A p \in AssertsOf[fn] \ Trivial :
                                    p \in goals \/ status'[p] # "unknown"
                            /\ suspect = (formula[fn].continues /\ SpuriousCheck)
            BY <1>0, <2>1 DEF GoalInv, goalVars
        <3> QED BY <2>1, <2>3, <2>4, <2>5 DEF GoalInv
    <2> QED BY <1>1, <2>1, <2>6 DEF ModelInv, AskedInv, goalVars
<1>8. CASE Settle
    BY <1>1, <1>8 DEF Settle, GoalInv, ModelInv, AskedInv, goalVars
<1>9. CASE Throw
    BY <1>1, <1>9 DEF Throw, GoalInv, ModelInv, AskedInv, goalVars
<1>10. CASE Return
    BY <1>1, <1>10 DEF Return, GoalInv, ModelInv, AskedInv, goalVars
<1>11. CASE UNCHANGED checkVars
    BY <1>0, <1>1, <1>11 DEF checkVars, GoalInv, ModelInv, AskedInv, ContextModels, Violating
<1> QED BY <1>2, <1>3, <1>4, <1>5, <1>6, <1>7, <1>8, <1>9, <1>10, <1>11 DEF CheckStep

-----------------------------------------------------------------------------
(* The spuriousness check.                                                 *)

(* What assignment() turns into failures is violated by a model through no *)
(* invariant: an accepted model is unsuspicious, a suspicious one has been *)
(* replaced by a model with all the loop selects negated.                  *)
LEMMA FailuresAreConcrete ==
    ASSUME SearchInv, SpuriousCheck, AcceptModel \/ RetryConcrete, NEW p \in Property,
           status'[p] # status[p]
    PROVE  \E m \in Concrete(ContextModels(FunctionOf(p))) : p \in m.viol
<1>1. pc = "assignment" /\ cur # {}
    BY DEF AcceptModel, RetryConcrete, SearchInv, CursorInv
<1>2. PICK fn \in Function : cur = {fn}
    BY <1>1 DEF SearchInv, TypeOK
<1>3. PICK m \in Concrete(ContextModels(fn)) : MarkFailed(m)
    <2>1. CASE AcceptModel
        <3>1. PICK m \in model : ~Suspicious(m) /\ MarkFailed(m)
            BY <2>1 DEF AcceptModel
        <3>2. m \in ContextModels(fn)
            BY <1>1, <1>2 DEF SearchInv, ModelInv, Violating
        <3>3. ~formula[fn].continues \/ ~m.inv
            BY <1>1, <1>2, <3>1 DEF Suspicious, SearchInv, GoalInv, Searching
        <3>4. m \in Concrete(ContextModels(fn))
            BY <3>2, <3>3, ContextIsOfFormula DEF Concrete
        <3> QED BY <3>1, <3>4
    <2>2. CASE RetryConcrete
        <3>1. Retried(fn) # {}
            BY <1>2, <2>2 DEF RetryConcrete
        <3>2. PICK m \in Retried(fn) : MarkFailed(m)
            BY <1>2, <2>2, <3>1 DEF RetryConcrete
        <3> QED BY <3>2 DEF Retried, Violating
    <2> QED BY <2>1, <2>2
<1>4. p \in goals \cap m.viol
    <2>1. PICK F \in Failing(m) :
            status' = [q \in Property |-> IF q \in F THEN "fail" ELSE status[q]]
        BY <1>3 DEF MarkFailed
    <2>2. p \in F
        BY <2>1
    <2> QED BY <2>2, FailingAreGoals
<1>5. FunctionOf(p) = fn
    BY <1>1, <1>2, <1>4, OneFunction DEF SearchInv, GoalInv, Searching
<1> QED BY <1>3, <1>4, <1>5

LEMMA FailRealStep == SearchInv /\ FailIsReal /\ [CheckStep]_checkVars => FailIsReal'
<1> SUFFICES ASSUME SearchInv, FailIsReal, [CheckStep]_checkVars,
                    SpuriousCheck, NEW p \in Property, status'[p] = "fail"
             PROVE  \E m \in Concrete(ContextModels(FunctionOf(p)))' : p \in m.viol
    BY OptionsStay DEF FailIsReal
<1>1. formula' = formula
    BY Stays
<1>2. (AcceptModel \/ RetryConcrete) \/ status'[p] = status[p]
    BY DEF CheckStep, BeginFunction, PrepareGoals, CoverSat, CoverUnsat, CoverError,
           Settle, Throw, Return, checkVars
<1>3. \E m \in Concrete(ContextModels(FunctionOf(p))) : p \in m.viol
    BY <1>2, FailuresAreConcrete DEF FailIsReal
<1> QED BY <1>1, <1>3 DEF Concrete, ContextModels

(* With the spuriousness check, an assertion fails only if a concrete      *)
(* execution violates it, even when the solver errs.                       *)
THEOREM FailuresAreReal == CheckSpec => []FailIsReal
<1>1. CheckInit => FailIsReal
    BY DEF CheckInit, FailIsReal
<1> QED BY <1>1, FailRealStep, SearchInvInit, SearchInvStep, PTL DEF CheckSpec

-----------------------------------------------------------------------------
(* Exhaustion of the search, when the solver does not err.                 *)

NoViolation(fn, P) == \A m \in ContextModels(fn) : m.viol \cap P = {}

(* What Settle lets pass is violated by no model.                          *)
SettledInv ==
    \A fn \in cur : pc = "settle" => NoViolation(fn, Settled)

(* In the stop-on-fail mode one model is enough: it has covered a goal.    *)
LEMMA ModelCovers ==
    ASSUME SearchInv, pc = "assignment" PROVE covered # {}
<1>1. PICK fn \in Function : cur = {fn}
    BY DEF SearchInv, CursorInv, TypeOK
<1>2. PICK m \in Violating(ContextModels(fn), asked) : m.viol \cap goals \subseteq covered
    BY <1>1 DEF SearchInv, ModelInv
<1> QED BY <1>2 DEF Violating, SearchInv, TypeOK

LEMMA SettledStep ==
    ASSUME ~solverFailed', SearchInv, SettledInv, [CheckStep]_checkVars
    PROVE  SettledInv'
<1>0. AllProperties' = AllProperties
    BY OptionsStay
<1>1. CASE CoverUnsat
    <2>1. \A fn \in cur : NoViolation(fn, Uncovered)
        BY <1>1 DEF CoverUnsat, Violating, NoViolation
    <2>2. Settled \subseteq Uncovered
        BY DEF Settled
    <2>3. \A fn \in cur : NoViolation(fn, Settled)
        BY <2>1, <2>2 DEF NoViolation
    <2> QED BY <1>0, <1>1, <2>3 DEF CoverUnsat, SettledInv, NoViolation, Settled, Uncovered,
                              ContextModels
<1>2. ASSUME AcceptModel \/ RetryConcrete PROVE SettledInv'
    <2>1. UNCHANGED <<cur, formula, goals, covered>> /\ pc = "assignment" /\ pc' = AfterAssignment
        BY <1>2 DEF AcceptModel, RetryConcrete, goalVars
    <2>2. ASSUME pc' = "settle" PROVE Settled = {}
        BY <2>1, <2>2, ModelCovers DEF AfterAssignment, Settled, Uncovered
    <2> QED BY <1>0, <2>1, <2>2 DEF SettledInv, NoViolation, Settled, Uncovered, ContextModels
<1>3. CASE CoverError
    BY <1>3 DEF CoverError
<1>4. CASE UNCHANGED checkVars
    BY <1>0, <1>4 DEF checkVars, SettledInv, NoViolation, Settled, Uncovered, ContextModels
<1>5. CASE pc' # "settle"
    BY <1>5 DEF SettledInv
<1> QED BY <1>1, <1>2, <1>3, <1>4, <1>5 DEF CheckStep, BeginFunction, PrepareGoals,
           CoverSat, Settle, Throw, Return

(* A driver checks again what an earlier call left undecided: the passes   *)
(* in Old are of earlier calls, and not about the formula at hand.         *)
PassedNow(Old) == \A p \in Property \ Old : status[p] = "pass" => NoModelViolates(p)

ProvedInv(Old) == SearchInv /\ SettledInv /\ PassedNow(Old)

LEMMA ProvedInit == CheckInit => ProvedInv({})
BY SearchInvInit DEF CheckInit, ProvedInv, SettledInv, PassedNow

LEMMA TrivialHolds ==
    ASSUME SearchInv, NEW fn \in Function, NEW p \in AssertsOf[fn] \cap Trivial,
           NEW m \in ContextModels(fn)
    PROVE  p \notin m.viol
<1>1. m \in formula[fn].models
    BY ContextIsOfFormula
<1>2. m.viol \subseteq AssertsOf[fn] \ Trivial
    BY <1>1 DEF SearchInv, CursorInv, OwnViolations
<1> QED BY <1>2

LEMMA ProvedStep ==
    ASSUME NEW Old, ~solverFailed', ProvedInv(Old), [CheckStep]_checkVars
    PROVE  ProvedInv(Old)'
<1>1. SearchInv' /\ SettledInv'
    BY SearchInvStep, SettledStep DEF ProvedInv
<1>2. formula' = formula
    BY Stays
<1>3. ASSUME NEW p \in Property \ Old, status'[p] = "pass"
      PROVE  \A m \in ContextModels(FunctionOf(p)) : p \notin m.viol
    <2>1. CASE status[p] = "pass"
        BY <2>1 DEF ProvedInv, PassedNow, NoModelViolates
    <2>2. CASE status[p] # "pass"
        <3>1. ASSUME PrepareGoals
              PROVE  \A m \in ContextModels(FunctionOf(p)) : p \notin m.viol
            <4>1. PICK fn \in cur : p \in AssertsOf[fn] \cap Trivial
                BY <1>3, <2>2, <3>1 DEF PrepareGoals
            <4>2. fn \in Function
                BY DEF ProvedInv, SearchInv, TypeOK
            <4> QED BY <4>1, <4>2, OneFunction, TrivialHolds DEF ProvedInv
        <3>2. ASSUME Settle
              PROVE  \A m \in ContextModels(FunctionOf(p)) : p \notin m.viol
            <4>1. p \in Settled /\ pc = "settle"
                BY <1>3, <2>2, <3>2 DEF Settle
            <4>2. PICK fn \in Function : cur = {fn}
                BY <4>1 DEF ProvedInv, SearchInv, CursorInv, TypeOK
            <4>3. p \in AssertsOf[fn]
                BY <4>1, <4>2 DEF ProvedInv, SearchInv, GoalInv, Searching, Settled, Uncovered
            <4>4. NoViolation(fn, Settled)
                BY <4>1, <4>2 DEF ProvedInv, SettledInv
            <4> QED BY <4>1, <4>3, <4>4, OneFunction DEF NoViolation
        <3>3. (PrepareGoals \/ Settle)
            <4>1. ASSUME AcceptModel \/ RetryConcrete PROVE FALSE
                <5>1. (\E m : MarkFailed(m)) \/ UNCHANGED status
                    BY <4>1 DEF AcceptModel, RetryConcrete
                <5> QED BY <1>3, <2>2, <5>1 DEF MarkFailed
            <4> QED BY <1>3, <2>2, <4>1 DEF CheckStep, BeginFunction, CoverSat, CoverUnsat,
                       CoverError, Throw, Return, checkVars
        <3> QED BY <3>1, <3>2, <3>3
    <2> QED BY <2>1, <2>2
<1> QED BY <1>1, <1>2, <1>3 DEF ProvedInv, PassedNow, NoModelViolates, ContextModels

LEMMA ProvedUnlessFailed ==
    (~solverFailed => ProvedInv({})) /\ [CheckStep]_checkVars => (~solverFailed' => ProvedInv({})')
BY ProvedStep, FailureStays

(* Unless the solver has erred, an assertion passes only if no model of    *)
(* its function's context violates it.                                     *)
THEOREM PassesAreProved == CheckSpec => []PassIsProved
<1>1. CheckInit => (~solverFailed => ProvedInv({}))
    BY ProvedInit
<1>2. (~solverFailed => ProvedInv({})) => PassIsProved
    BY DEF ProvedInv, PassIsProved, PassedNow
<1> QED BY <1>1, <1>2, ProvedUnlessFailed, PTL DEF CheckSpec

-----------------------------------------------------------------------------
(* No decision is revised.                                                 *)

(* An assertion has failed only if some model of the context violates it.  *)
FailSeen ==
    \A p \in Property : status[p] = "fail" =>
        \E m \in ContextModels(FunctionOf(p)) : p \in m.viol

LEMMA FailuresAreSeen ==
    ASSUME SearchInv, AcceptModel \/ RetryConcrete, NEW p \in Property,
           status'[p] # status[p]
    PROVE  /\ status[p] = "unknown" /\ status'[p] = "fail"
           /\ \E m \in ContextModels(FunctionOf(p)) : p \in m.viol
<1>1. pc = "assignment" /\ cur # {}
    BY DEF AcceptModel, RetryConcrete, SearchInv, CursorInv
<1>2. PICK fn \in Function : cur = {fn}
    BY <1>1 DEF SearchInv, TypeOK
<1>3. PICK m \in ContextModels(fn) : MarkFailed(m)
    <2>1. CASE AcceptModel
        BY <1>1, <1>2, <2>1 DEF AcceptModel, SearchInv, ModelInv, Violating
    <2>2. CASE RetryConcrete
        <3>1. Retried(fn) # {}
            BY <1>2, <2>2 DEF RetryConcrete
        <3>2. PICK m \in Retried(fn) : MarkFailed(m)
            BY <1>2, <2>2, <3>1 DEF RetryConcrete
        <3> QED BY <3>2 DEF Retried, Violating, Concrete
    <2> QED BY <2>1, <2>2
<1>4. PICK F \in Failing(m) : status' = [q \in Property |-> IF q \in F THEN "fail" ELSE status[q]]
    BY <1>3 DEF MarkFailed
<1>5. p \in F
    BY <1>4
<1>6. p \in goals \cap m.viol /\ status[p] = "unknown" /\ status'[p] = "fail"
    BY <1>4, <1>5, FailingAreGoals
<1>7. FunctionOf(p) = fn
    BY <1>1, <1>2, <1>6, OneFunction DEF SearchInv, GoalInv, Searching
<1> QED BY <1>3, <1>6, <1>7

DecidedInv(Old) == ProvedInv(Old) /\ FailSeen

(* Only what is undecided is decided: a trivial assertion never fails, and *)
(* a goal that failed without being covered is still asked for.            *)
LEMMA DecisionStays ==
    ASSUME NEW Old, DecidedInv(Old), [CheckStep]_checkVars, NEW p \in Property, status[p] # "unknown"
    PROVE  status'[p] = status[p]
<1>1. CASE AcceptModel \/ RetryConcrete
    BY <1>1, FailuresAreSeen DEF DecidedInv, ProvedInv
<1>2. CASE PrepareGoals
    <2>1. PICK fn \in cur : status' = [q \in Property |->
                            IF q \in AssertsOf[fn] \cap Trivial THEN "pass" ELSE status[q]]
        BY <1>2 DEF PrepareGoals
    <2>2. fn \in Function
        BY DEF DecidedInv, ProvedInv, SearchInv, TypeOK
    <2>3. CASE p \in AssertsOf[fn] \cap Trivial
        <3>1. status[p] # "fail"
            BY <2>2, <2>3, OneFunction, TrivialHolds DEF DecidedInv, FailSeen, ProvedInv
        <3>2. status[p] = "pass"
            BY <3>1 DEF DecidedInv, ProvedInv, SearchInv, TypeOK, Status
        <3> QED BY <2>1, <2>3, <3>2
    <2>4. CASE p \notin AssertsOf[fn] \cap Trivial
        BY <2>1, <2>4
    <2> QED BY <2>3, <2>4
<1>3. CASE Settle
    <2>1. CASE p \in Settled
        <3>1. pc = "settle"
            BY <1>3 DEF Settle
        <3>2. PICK fn \in Function : cur = {fn}
            BY <3>1 DEF DecidedInv, ProvedInv, SearchInv, CursorInv, TypeOK
        <3>3. p \in AssertsOf[fn] /\ status[p] # "pass"
            BY <2>1, <3>1, <3>2 DEF DecidedInv, ProvedInv, SearchInv, GoalInv, Searching,
                                    Settled, Uncovered
        <3>4. status[p] = "fail"
            BY <3>3 DEF DecidedInv, ProvedInv, SearchInv, TypeOK, Status
        <3>5. FunctionOf(p) = fn
            BY <3>3, OneFunction
        <3> QED BY <2>1, <3>1, <3>2, <3>4, <3>5
                DEF DecidedInv, FailSeen, ProvedInv, SettledInv, NoViolation
    <2>2. CASE p \notin Settled
        BY <1>3, <2>2 DEF Settle
    <2> QED BY <2>1, <2>2
<1>4. CASE UNCHANGED status
    BY <1>4
<1> QED BY <1>1, <1>2, <1>3, <1>4 DEF CheckStep, BeginFunction, CoverSat, CoverUnsat,
           CoverError, Throw, Return, checkVars

LEMMA DecidedStep ==
    ASSUME NEW Old, ~solverFailed', DecidedInv(Old), [CheckStep]_checkVars
    PROVE  DecidedInv(Old)'
<1>1. ProvedInv(Old)'
    BY ProvedStep DEF DecidedInv
<1>2. ASSUME NEW p \in Property, status'[p] = "fail"
      PROVE  \E m \in ContextModels(FunctionOf(p)) : p \in m.viol
    <2>1. CASE status[p] = "fail"
        BY <2>1 DEF DecidedInv, FailSeen
    <2>2. CASE status[p] # "fail"
        <3>1. AcceptModel \/ RetryConcrete
            BY <1>2, <2>2 DEF CheckStep, BeginFunction, PrepareGoals, CoverSat, CoverUnsat,
               CoverError, Settle, Throw, Return, checkVars
        <3> QED BY <1>2, <2>2, <3>1, FailuresAreSeen DEF DecidedInv, ProvedInv
    <2> QED BY <2>1, <2>2
<1> QED BY <1>1, <1>2, Stays DEF DecidedInv, FailSeen, ContextModels

LEMMA DecidedInit == CheckInit => DecidedInv({})
BY ProvedInit DEF CheckInit, DecidedInv, FailSeen

LEMMA DecidedUnlessFailed ==
    (~solverFailed => DecidedInv({})) /\ [CheckStep]_checkVars => (~solverFailed' => DecidedInv({})')
BY DecidedStep, FailureStays

(* Unless the solver has erred, no step revises a decision.                *)
THEOREM DecisionsStay == CheckSpec => DecidedStays
<1>1. CheckInit => (~solverFailed => DecidedInv({}))
    BY DecidedInit
<1>2. /\ ~solverFailed => DecidedInv({})
      /\ [CheckStep]_checkVars
      => [~solverFailed =>
            \A p \in Property : status[p] # "unknown" => status'[p] = status[p]]_checkVars
    BY DecisionStays
<1> QED BY <1>1, <1>2, DecidedUnlessFailed, PTL DEF CheckSpec, DecidedStays

-----------------------------------------------------------------------------
(* No counterexample is lost.                                              *)

SomeFailed == \E p \in Property : status[p] = "fail"

(* No concrete execution of the function violates an assertion of P.       *)
Safe(fn, P) == \A m \in Concrete(ContextModels(fn)) : m.viol \cap P = {}

(* Until a failure is found, what the search has put behind it is safe:    *)
(* the functions checked; the goals covered before the last question,      *)
(* although a spurious model covered them; all goals, at the end.          *)
NothingLost(Old) ==
    /\ \A fn \in Function \ (todo \cup cur) : Refutable(fn) \subseteq Old
    /\ \A fn \in cur :
        /\ pc = "solve" => Safe(fn, covered)
        /\ pc = "assignment" => Safe(fn, goals \ asked)
        /\ pc = "settle" => Safe(fn, goals)

DoneInv == pc = "done" => todo = {} /\ cur = {} /\ result = Verdict(status)

FoundInv(Old) == DecidedInv(Old) /\ DoneInv /\ (SomeFailed \/ NothingLost(Old))

LEMMA RefutableIsViolated ==
    ASSUME NEW Old, ProvedInv(Old), ~SomeFailed, NEW fn \in cur, pc = "settle", Safe(fn, goals)
    PROVE  Refutable(fn) \subseteq Old
<1> SUFFICES ASSUME NEW p \in AssertsOf[fn] \ Old, NEW m \in Concrete(ContextModels(fn)),
                    p \in m.viol
             PROVE  FALSE
    BY DEF Refutable
<1>1. fn \in Function /\ p \in Property /\ FunctionOf(p) = fn
    BY OneFunction DEF ProvedInv, SearchInv, TypeOK
<1>2. m \in ContextModels(fn)
    BY DEF Concrete
<1>3. p \notin Trivial
    BY <1>1, <1>2, TrivialHolds DEF ProvedInv
<1>4. p \notin goals
    BY DEF Safe
<1>5. status[p] = "pass"
    BY <1>1, <1>3, <1>4 DEF ProvedInv, SearchInv, GoalInv, Searching, TypeOK, Status, SomeFailed
<1> QED BY <1>1, <1>2, <1>5 DEF ProvedInv, PassedNow, NoModelViolates

(* A model that violates a goal asked for makes a goal fail.               *)
LEMMA ModelFails ==
    ASSUME SearchInv, ~SomeFailed, NEW fn \in cur, pc = "assignment", NEW m,
           m.viol \cap asked # {}, MarkFailed(m)
    PROVE  SomeFailed'
<1>1. PICK p \in asked : p \in m.viol
    OBVIOUS
<1>2. p \in goals /\ p \in Property
    BY DEF SearchInv, TypeOK
<1>3. status[p] = "unknown"
    BY <1>2 DEF SearchInv, GoalInv, Searching, TypeOK, Status, SomeFailed
<1>4. \A F \in Failing(m) : F # {} /\ F \subseteq Property
    BY <1>1, <1>2, <1>3 DEF Failing, SearchInv, TypeOK
<1> QED BY <1>4 DEF MarkFailed, SomeFailed

LEMMA NothingLostStep ==
    ASSUME NEW Old, ~solverFailed', DecidedInv(Old), NothingLost(Old), ~SomeFailed,
           [CheckStep]_checkVars
    PROVE  SomeFailed' \/ NothingLost(Old)'
<1>1. formula' = formula
    BY Stays
<1>2. \A fn : ContextModels(fn)' = ContextModels(fn) /\ Refutable(fn)' = Refutable(fn)
    BY <1>1 DEF ContextModels, Refutable
<1>3. \A fn \in cur : cur = {fn}
    BY DEF DecidedInv, ProvedInv, SearchInv, TypeOK
<1> USE DEF NothingLost
<1>4. CASE BeginFunction
    <2>1. cur = {}
        BY <1>4 DEF BeginFunction, DecidedInv, ProvedInv, SearchInv, CursorInv
    <2> QED BY <1>2, <1>4, <2>1 DEF BeginFunction
<1>5. CASE PrepareGoals
    BY <1>2, <1>5 DEF PrepareGoals, NewGoalMap, Safe
<1>6. CASE CoverSat
    BY <1>2, <1>6 DEF CoverSat, Safe, Uncovered
<1>7. CASE CoverUnsat
    <2>1. \A fn \in cur : Safe(fn, covered) /\ Safe(fn, Uncovered)
        BY <1>7 DEF CoverUnsat, Violating, Safe, Concrete
    <2>2. \A fn \in cur : Safe(fn, goals)
        BY <2>1 DEF Safe, Uncovered
    <2> QED BY <1>2, <1>7, <2>2 DEF CoverUnsat, Safe
<1>8. CASE CoverError
    BY <1>8 DEF CoverError
<1>9. CASE AcceptModel
    <2>1. PICK m \in model : MarkFailed(m)
        BY <1>9 DEF AcceptModel
    <2>2. PICK fn \in cur : TRUE
        BY <1>9 DEF AcceptModel, DecidedInv, ProvedInv, SearchInv, CursorInv
    <2>3. m.viol \cap asked # {}
        BY <1>9, <2>1, <2>2 DEF AcceptModel, DecidedInv, ProvedInv, SearchInv, ModelInv, Violating
    <2> QED BY <1>9, <2>1, <2>2, <2>3, ModelFails DEF AcceptModel, DecidedInv, ProvedInv
<1>10. CASE RetryConcrete
    <2>1. PICK fn \in cur :
            IF Retried(fn) # {} THEN \E m \in Retried(fn) : MarkFailed(m) ELSE UNCHANGED status
        BY <1>10 DEF RetryConcrete
    <2>2. CASE Retried(fn) # {}
        <3>1. PICK m \in Retried(fn) : MarkFailed(m)
            BY <2>1, <2>2
        <3>2. m.viol \cap asked # {}
            BY DEF Retried, Violating
        <3> QED BY <1>10, <3>1, <3>2, ModelFails DEF RetryConcrete, DecidedInv, ProvedInv
    <2>3. CASE Retried(fn) = {}
        <3>1. Safe(fn, asked) /\ Safe(fn, goals \ asked)
            BY <1>10, <2>3 DEF RetryConcrete, Retried, Violating, Safe
        <3>2. Safe(fn, goals) /\ covered \subseteq goals
            BY <3>1 DEF Safe, DecidedInv, ProvedInv, SearchInv, TypeOK
        <3>3. Safe(fn, covered)
            BY <3>2 DEF Safe
        <3> QED BY <1>2, <1>3, <1>10, <3>2, <3>3 DEF RetryConcrete, AfterAssignment, Safe, goalVars
    <2> QED BY <2>2, <2>3
<1>11. CASE Settle
    <2>1. \A fn \in cur : Refutable(fn) \subseteq Old
        BY <1>11, RefutableIsViolated DEF Settle, DecidedInv
    <2> QED BY <1>2, <1>11, <2>1 DEF Settle
<1>12. CASE Throw
    BY <1>12 DEF Throw
<1>13. CASE Return
    BY <1>2, <1>13 DEF Return
<1>14. CASE UNCHANGED checkVars
    BY <1>2, <1>14 DEF checkVars, Safe
<1> QED BY <1>4, <1>5, <1>6, <1>7, <1>8, <1>9, <1>10, <1>11, <1>12, <1>13, <1>14 DEF CheckStep

LEMMA FoundStep ==
    ASSUME NEW Old, ~solverFailed', FoundInv(Old), [CheckStep]_checkVars
    PROVE  FoundInv(Old)'
<1>1. DecidedInv(Old)'
    BY DecidedStep DEF FoundInv
<1>2. DoneInv'
    <2>1. CASE Return
        BY <2>1 DEF Return, FoundInv, DecidedInv, ProvedInv, SearchInv, CursorInv, DoneInv
    <2>2. CASE UNCHANGED checkVars
        BY <2>2 DEF checkVars, FoundInv, DoneInv
    <2>3. CASE pc' # "done"
        BY <2>3 DEF DoneInv
    <2> QED BY <2>1, <2>2, <2>3 DEF CheckStep, BeginFunction, PrepareGoals, CoverSat,
               CoverUnsat, CoverError, AcceptModel, RetryConcrete, AfterAssignment,
               Settle, Throw
<1>3. CASE SomeFailed
    <2>1. SomeFailed'
        BY <1>3, DecisionStays DEF SomeFailed, FoundInv
    <2> QED BY <1>1, <1>2, <2>1 DEF FoundInv
<1>4. CASE ~SomeFailed
    BY <1>1, <1>2, <1>4, NothingLostStep DEF FoundInv
<1> QED BY <1>3, <1>4

LEMMA FoundUnlessFailed ==
    (~solverFailed => FoundInv({})) /\ [CheckStep]_checkVars => (~solverFailed' => FoundInv({})')
BY FoundStep, FailureStays

(* Unless the solver has erred, the check of a program in which a concrete *)
(* execution violates an assertion ends with FAIL.                         *)
THEOREM CounterexamplesAreFound == CheckSpec => []CounterexampleFound
<1>1. CheckInit => (~solverFailed => FoundInv({}))
    BY DecidedInit DEF CheckInit, FoundInv, DoneInv, NothingLost
<1>2. (~solverFailed => FoundInv({})) => CounterexampleFound
    BY DEF FoundInv, DoneInv, NothingLost, SomeFailed, CounterexampleFound, Verdict
<1> QED BY <1>1, <1>2, FoundUnlessFailed, PTL DEF CheckSpec

-----------------------------------------------------------------------------
(* A function all of whose executions are within the unwinding is decided. *)

AllDecided(fn) == \A p \in AssertsOf[fn] \ Trivial : status[p] # "unknown"

(* Until a failure is found, a goal is covered only while its model is     *)
(* looked at: without loop selects to negate no model is suspicious.       *)
DecidesInv ==
    \/ SomeFailed
    \/ /\ \A fn \in Function \ (todo \cup cur) : ~formula[fn].continues => AllDecided(fn)
       /\ \A fn \in cur : ~formula[fn].continues /\ pc \in {"solve", "settle"} => covered = {}

LEMMA DecidesStep ==
    ASSUME NEW Old, ~solverFailed', DecidedInv(Old), DecidesInv, [CheckStep]_checkVars
    PROVE  DecidesInv'
<1>1. SearchInv /\ formula' = formula
    BY Stays DEF DecidedInv, ProvedInv
<1>2. CASE SomeFailed
    BY <1>2, DecisionStays DEF SomeFailed, DecidesInv
<1> SUFFICES ASSUME ~SomeFailed PROVE DecidesInv'
    BY <1>2
<1>3. \A fn \in Function : AllDecided(fn) => AllDecided(fn)'
    BY DecisionStays, CheckAssumption DEF AllDecided
<1>4. \A fn \in cur : cur = {fn} /\ fn \in Function
    BY <1>1 DEF SearchInv, TypeOK
<1>5. CASE BeginFunction
    <2>1. cur = {}
        BY <1>1, <1>5 DEF BeginFunction, SearchInv, CursorInv
    <2> QED BY <1>1, <1>3, <1>5, <2>1 DEF BeginFunction, DecidesInv
<1>6. CASE PrepareGoals
    BY <1>1, <1>3, <1>6 DEF PrepareGoals, NewGoalMap, DecidesInv
<1>7. CASE CoverSat
    BY <1>1, <1>3, <1>7 DEF CoverSat, DecidesInv
<1>8. CASE CoverUnsat
    BY <1>1, <1>3, <1>8 DEF CoverUnsat, DecidesInv
<1>9. CASE AcceptModel
    <2>1. PICK m \in model : MarkFailed(m)
        BY <1>9 DEF AcceptModel
    <2>2. PICK fn \in cur : TRUE
        BY <1>1, <1>9 DEF AcceptModel, SearchInv, CursorInv
    <2>3. m.viol \cap asked # {}
        BY <1>1, <1>9, <2>1, <2>2 DEF AcceptModel, SearchInv, ModelInv, Violating
    <2> QED BY <1>1, <1>9, <2>1, <2>2, <2>3, ModelFails DEF AcceptModel, DecidesInv
<1>10. CASE RetryConcrete
    <2>1. \A fn \in cur : formula[fn].continues
        BY <1>1, <1>10 DEF RetryConcrete, Suspicious, SearchInv, GoalInv, Searching
    <2> QED BY <1>1, <1>3, <1>10, <2>1 DEF RetryConcrete, DecidesInv, goalVars
<1>11. CASE Settle
    <2>1. PICK fn \in Function : cur = {fn}
        BY <1>1, <1>11 DEF Settle, SearchInv, CursorInv, TypeOK
    <2>2. ASSUME ~formula[fn].continues PROVE AllDecided(fn)'
        <3>1. covered = {} /\ Settled = goals
            BY <1>11, <2>1, <2>2 DEF Settle, DecidesInv, Settled, Uncovered
        <3>2. AssertsOf[fn] \subseteq Property
            BY CheckAssumption
        <3>3. \A p \in AssertsOf[fn] \ Trivial : p \in goals \/ status[p] # "unknown"
            BY <1>1, <1>11, <2>1 DEF Settle, SearchInv, GoalInv, Searching
        <3>4. \A p \in Property : status'[p] = IF p \in goals THEN "pass" ELSE status[p]
            BY <1>11, <3>1 DEF Settle
        <3> QED BY <3>2, <3>3, <3>4 DEF AllDecided
    <2> QED BY <1>1, <1>3, <1>11, <2>1, <2>2 DEF Settle, DecidesInv
<1>12. CASE CoverError \/ Throw
    BY <1>12 DEF CoverError, Throw
<1>13. CASE Return
    BY <1>1, <1>3, <1>13 DEF Return, DecidesInv
<1>14. CASE UNCHANGED checkVars
    BY <1>14 DEF checkVars, DecidesInv, AllDecided, SomeFailed
<1> QED BY <1>5, <1>6, <1>7, <1>8, <1>9, <1>10, <1>11, <1>12, <1>13, <1>14 DEF CheckStep

=============================================================================
