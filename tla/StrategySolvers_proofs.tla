------------------------ MODULE StrategySolvers_proofs ------------------------
(***************************************************************************)
(* Proofs about the strategy solvers: what the iteration promises, and     *)
(* that enumeration and binary search implement it, for every template,    *)
(* every formula and every choice of models and of search points.          *)
(***************************************************************************)
EXTENDS TemplateSolvers, WellFoundedInduction, TLAPS

(* An inductive value bounds every row in every execution: the pairs it    *)
(* allows are closed under the models of the formula.                      *)
LEMMA InductiveCovers ==
    ASSUME IterationTypeOK, Inductive(inv), \A r \in InRow : inv[r] = Inf
    PROVE  \A rv \in Taken : rv[2] <= inv[rv[1]]
<1> DEFINE P == {rv \in PostValues(ssa) : rv[2] <= inv[rv[1]]}
<1>1. P \in SUBSET PostValues(ssa)
    OBVIOUS
<1>2. ClosedUnderSSA(ssa, P)
    <2> SUFFICES ASSUME NEW m \in ssa,
                        \A r \in m.on : r \in InRow \/ <<r, m.at[r]>> \in P,
                        NEW s \in m.off
                 PROVE  <<s, m.to[s]>> \in P
        BY DEF ClosedUnderSSA
    <2>1. m \in SSAModel
        BY DEF IterationTypeOK
    <2>2. \A r \in m.on : m.at[r] <= inv[r]
        <3> SUFFICES ASSUME NEW r \in m.on PROVE m.at[r] <= inv[r]
            OBVIOUS
        <3>1. CASE r \in InRow
            <4>1. m.at[r] \in Value
                BY <2>1 DEF SSAModel
            <4>2. inv[r] = Inf
                BY <3>1
            <4> QED BY <4>1, <4>2, TemplateAssumption DEF Value, Inf
        <3>2. CASE <<r, m.at[r]>> \in P
            BY <3>2
        <3> QED BY <3>1, <3>2
    <2>3. NotPost(inv, m) = {}
        BY <2>2 DEF Inductive, Improving, Pre
    <2>4. ~(m.to[s] > inv[s])
        BY <2>3 DEF NotPost
    <2>5. s \in Row /\ m.to[s] \in Value
        BY <2>1 DEF SSAModel
    <2>6. m.to[s] <= inv[s]
        BY <2>4, <2>5, TemplateAssumption DEF Value, RowValue, NegInf, Inf, IterationTypeOK
    <2>7. <<s, m.to[s]>> \in PostValues(ssa)
        BY <2>5 DEF PostValues
    <2> QED BY <2>6, <2>7
<1> QED BY <1>1, <1>2 DEF Taken, TakenIn

-----------------------------------------------------------------------------
(* The iteration.                                                          *)

SystemOK == \A m \in ssa : m \in SSAModel /\ m.off \cap InRow = {}
InputsFree == \A r \in InRow : inv[r] = Inf

IterationInv ==
    /\ IterationTypeOK
    /\ SystemOK
    /\ InputsFree
    /\ done => Inductive(inv)

LEMMA IterationInvInit == Init => IterationInv
<1> SUFFICES ASSUME Init PROVE IterationInv
    OBVIOUS
<1>1. NegInf \in RowValue /\ Inf \in RowValue
    BY TemplateAssumption DEF NegInf, Inf, RowValue
<1>2. IterationTypeOK
    BY <1>1, TemplateAssumption DEF Init, IterationTypeOK, InitialValue
<1>3. SystemOK
    BY TemplateAssumption DEF Init, SystemOK
<1>4. InputsFree
    BY TemplateAssumption DEF Init, InputsFree, InitialValue
<1> QED BY <1>2, <1>3, <1>4 DEF IterationInv, Init

LEMMA IterationInvStep == IterationInv /\ [Next]_iterationVars => IterationInv'
<1> SUFFICES ASSUME IterationInv, [Next]_iterationVars PROVE IterationInv'
    OBVIOUS
<1>1. CASE Improve
    <2>1. IterationTypeOK' /\ SystemOK'
        BY <1>1 DEF Improve, IterationInv, IterationTypeOK, SystemOK
    <2>2. InputsFree'
        <3> SUFFICES ASSUME NEW r \in InRow PROVE inv'[r] = Inf
            BY DEF InputsFree
        <3>1. PICK m \in Improving(inv) : Raised(inv, inv') \subseteq NotPost(inv, m)
            BY <1>1 DEF Improve
        <3>2. r \notin m.off
            BY DEF IterationInv, SystemOK, Improving
        <3>3. r \notin Raised(inv, inv')
            BY <3>1, <3>2 DEF NotPost
        <3>4. inv'[r] = inv[r]
            BY <3>3, TemplateAssumption DEF Raised
        <3> QED BY <3>4 DEF IterationInv, InputsFree
    <2>3. ~done'
        BY <1>1 DEF Improve
    <2> QED BY <2>1, <2>2, <2>3 DEF IterationInv
<1>2. CASE Finish
    BY <1>2 DEF Finish, IterationInv, IterationTypeOK, SystemOK, InputsFree, Inductive,
                Improving
<1>3. CASE UNCHANGED iterationVars
    BY <1>3 DEF iterationVars, IterationInv, IterationTypeOK, SystemOK, InputsFree,
                Inductive, Improving
<1> QED BY <1>1, <1>2, <1>3 DEF Next

(* The value the iteration ends with bounds every row in every execution.  *)
THEOREM IterationCovers == Spec => []CoversExecutions
<1>1. IterationInv => CoversExecutions
    BY InductiveCovers DEF IterationInv, InputsFree, CoversExecutions
<1> QED BY <1>1, IterationInvInit, IterationInvStep, PTL DEF Spec

-----------------------------------------------------------------------------
(* Enumeration.                                                            *)

(* One step of enumeration is one of the iteration: the rows edited are    *)
(* the violated ones, and their values in the model are greater.           *)
LEMMA IterateSatImproves == IterationTypeOK /\ IterateSat => Improve
<1> SUFFICES ASSUME IterationTypeOK, IterateSat PROVE Improve
    OBVIOUS
<1>1. PICK m \in Improving(inv) :
        inv' = [r \in Row |-> IF r \in EditedRows(m) THEN EditedValue(m, r) ELSE inv[r]]
    BY DEF IterateSat
<1>2. m \in SSAModel /\ NotPost(inv, m) # {} /\ NotPost(inv, m) \subseteq Row
    BY DEF Improving, NotPost, IterationTypeOK, SSAModel
<1>3. \A r \in Row : m.to[r] \in Value
    BY <1>2 DEF SSAModel
<1>4. Value \subseteq RowValue
    BY TemplateAssumption DEF Value, RowValue, NegInf, Inf
<1>5. inv' \in [Row -> RowValue]
    BY <1>1, <1>3, <1>4 DEF EditedValue, IterationTypeOK
<1>6. \A r \in NotPost(inv, m) : inv[r] < inv'[r]
    <2> SUFFICES ASSUME NEW r \in NotPost(inv, m) PROVE inv[r] < inv'[r]
        OBVIOUS
    <2>1. inv'[r] = m.to[r] /\ m.to[r] > inv[r]
        BY <1>1, <1>2 DEF EditedRows, EditedValue, NotPost
    <2>2. inv[r] \in Int /\ m.to[r] \in Int
        BY <1>2, <1>3, TemplateAssumption DEF IterationTypeOK, RowValue, Value, NegInf, Inf
    <2> QED BY <2>1, <2>2
<1>7. Raised(inv, inv') \subseteq NotPost(inv, m)
    BY <1>1 DEF Raised, EditedRows
<1>8. inv' # inv
    <2>1. PICK r \in NotPost(inv, m) : TRUE
        BY <1>2
    <2>2. inv[r] \in Int /\ inv[r] < inv'[r]
        BY <1>2, <1>6, <2>1, TemplateAssumption DEF IterationTypeOK, RowValue, NegInf, Inf
    <2> QED BY <2>2
<1> QED BY <1>5, <1>6, <1>7, <1>8 DEF Improve, IterateSat

LEMMA SimpleStep == IterationTypeOK /\ [SimpleNext]_iterationVars => [Next]_iterationVars
BY IterateSatImproves DEF SimpleNext, IterateUnsat, Next, Finish, Inductive

WithInputs(u) == [r \in Row |-> IF r \in InRow THEN Inf ELSE u[r]]

(* Enumeration never rises above an inductive value: a model that the      *)
(* current value admits is admitted by every inductive value above it,     *)
(* which therefore bounds the rows of the model as well.                   *)
LEMMA InitIsBelow == Init => BelowEveryInductive
<1> SUFFICES ASSUME Init, NEW u \in [Row \ InRow -> RowValue], NEW r \in Row
             PROVE  inv[r] <= WithInputs(u)[r]
    BY DEF BelowEveryInductive, WithInputs
<1> QED BY TemplateAssumption DEF Init, InitialValue, WithInputs, RowValue, NegInf, Inf

LEMMA SimpleStepStaysBelow ==
    IterationInv /\ BelowEveryInductive /\ [SimpleNext]_iterationVars => BelowEveryInductive'
<1> SUFFICES ASSUME IterationInv, BelowEveryInductive, [SimpleNext]_iterationVars
             PROVE  BelowEveryInductive'
    OBVIOUS
<1>1. CASE IterateSat
    <2>1. ssa' = ssa
        BY <1>1 DEF IterateSat
    <2>2. PICK m \in Improving(inv) :
            inv' = [r \in Row |-> IF r \in EditedRows(m) THEN EditedValue(m, r) ELSE inv[r]]
        BY <1>1 DEF IterateSat
    <2>3. m \in ssa /\ m \in SSAModel /\ Pre(inv, m)
        BY DEF Improving, IterationInv, IterationTypeOK
    <2>4. ASSUME NEW u \in [Row \ InRow -> RowValue],
                 Inductive(WithInputs(u)), NEW r \in Row
          PROVE  inv'[r] <= WithInputs(u)[r]
        <3>1. \A s \in Row : inv[s] <= WithInputs(u)[s]
            BY <2>4 DEF BelowEveryInductive, WithInputs
        <3>2. \A s \in Row : inv[s] \in Int /\ WithInputs(u)[s] \in Int
            BY TemplateAssumption DEF IterationInv, IterationTypeOK, WithInputs,
                                      RowValue, NegInf, Inf
        <3>3. \A s \in Row : m.at[s] \in Int /\ m.to[s] \in Int
            BY <2>3, TemplateAssumption DEF SSAModel, Value
        <3>4. m.on \subseteq Row
            BY <2>3 DEF SSAModel
        <3>5. Pre(WithInputs(u), m)
            BY <2>3, <3>1, <3>2, <3>3, <3>4 DEF Pre
        <3>6. NotPost(WithInputs(u), m) = {}
            BY <2>3, <2>4, <3>5 DEF Inductive, Improving
        <3>7. CASE r \in EditedRows(m)
            <4>1. inv'[r] = m.to[r] /\ r \in m.off
                BY <2>2, <3>7 DEF EditedRows, EditedValue, NotPost
            <4>2. ~(m.to[r] > WithInputs(u)[r])
                BY <3>6, <4>1 DEF NotPost
            <4> QED BY <3>2, <3>3, <4>1, <4>2
        <3>8. CASE r \notin EditedRows(m)
            BY <2>2, <3>1, <3>8
        <3> QED BY <3>7, <3>8
    <2> QED BY <2>1, <2>4 DEF BelowEveryInductive, WithInputs, Inductive, Improving
<1>2. CASE UNCHANGED <<ssa, inv>>
    BY <1>2 DEF BelowEveryInductive, Inductive, Improving
<1> QED BY <1>1, <1>2 DEF SimpleNext, IterateUnsat, iterationVars

-----------------------------------------------------------------------------
(* Binary search.                                                          *)

(* While a row is searched, some model of the current value violates it    *)
(* and its candidate is above its bound.                                   *)
SearchInv ==
    /\ IterationInv
    /\ SearchTypeOK
    /\ SearchImproves
    /\ phase = "search" =>
        ~done /\ \E m \in Improving(inv) : row \in NotPost(inv, m)

(* The first violated row exists: the order of the rows is well-founded.   *)
LEMMA FirstRow == ASSUME NEW S \in SUBSET Row, S # {}
                  PROVE  \E r \in S : \A s \in S : r <= s
<1> DEFINE Less == OpToRel(<, Nat)
<1>1. S \subseteq Nat
    BY TemplateAssumption DEF Row
<1>2. IsWellFoundedOn(Less, Nat)
    BY NatLessThanWellFounded
<1>3. \E r \in S : \A s \in S : ~(<<s, r>> \in Less)
    <2> HIDE DEF Less
    <2> QED BY <1>1, <1>2, WFMin, Zenon
<1>4. \A r, s \in S : ~(<<s, r>> \in Less) => r <= s
    BY <1>1 DEF OpToRel
<1> QED BY <1>3, <1>4

LEMMA FirstViolatedIsViolated ==
    ASSUME IterationTypeOK, NEW m \in ssa, NotPost(inv, m) # {}
    PROVE  FirstViolated(m) \in NotPost(inv, m)
<1>1. NotPost(inv, m) \in SUBSET Row
    BY DEF NotPost, IterationTypeOK, SSAModel
<1> HIDE DEF NotPost
<1> QED BY <1>1, FirstRow DEF FirstViolated

(* The middle that is tried lies in the row's type, above the candidate.   *)
LEMMA MiddleAboveLower ==
    ASSUME SearchTypeOK, lower < upper, NEW middle \in Middles
    PROVE  middle \in Int /\ lower < middle /\ middle >= Min
<1>1. lower \in Int /\ upper \in Int /\ Min <= lower
    BY TemplateAssumption DEF SearchTypeOK, Value
<1>2. PICK v \in Between(lower, upper) : middle = (IF lower < v THEN v ELSE upper)
    BY DEF Middles
<1>3. Mean(lower, upper) \in Int
    BY <1>1 DEF Mean
<1>4. v \in Int
    BY <1>1, <1>3, ProbesAssumption, TemplateAssumption DEF Between, Value
<1> QED BY <1>1, <1>2, <1>4, TemplateAssumption

LEMMA SearchInvInit == SearchInit => SearchInv
<1> SUFFICES ASSUME SearchInit PROVE SearchInv
    OBVIOUS
<1>1. IterationInv
    BY IterationInvInit DEF SearchInit
<1>2. SearchTypeOK
    BY <1>1, TemplateAssumption DEF SearchInit, SearchTypeOK, IterationInv, Value
<1> QED BY <1>1, <1>2 DEF SearchInv, SearchInit, SearchImproves

(* A step of the search is one of the iteration or leaves its variables.   *)
LEMMA SearchStep == SearchInv /\ [SearchNext]_searchVars => [Next]_iterationVars
<1> SUFFICES ASSUME SearchInv, [SearchNext]_searchVars PROVE [Next]_iterationVars
    OBVIOUS
<1>1. CASE UpdateRow
    <2>1. PICK m \in Improving(inv) : row \in NotPost(inv, m)
        BY <1>1 DEF UpdateRow, SearchInv
    <2>2. row \in Row /\ lower \in Value /\ inv \in [Row -> RowValue] /\ inv[row] < lower
        BY <1>1 DEF UpdateRow, SearchInv, SearchTypeOK, IterationTypeOK, SearchImproves
    <2>3. Value \subseteq RowValue
        BY TemplateAssumption DEF Value, RowValue, NegInf, Inf
    <2>4. inv' = [inv EXCEPT ![row] = lower]
        BY <1>1 DEF UpdateRow
    <2>5. inv' \in [Row -> RowValue] /\ inv'[row] = lower
        BY <2>2, <2>3, <2>4
    <2>6. Raised(inv, inv') \subseteq {row}
        BY <2>2, <2>4 DEF Raised
    <2>7. inv' # inv
        BY <2>2, <2>5, TemplateAssumption DEF RowValue, Value, NegInf, Inf
    <2>8. \A r \in Raised(inv, inv') : inv[r] < inv'[r]
        BY <2>2, <2>5, <2>6
    <2> QED BY <1>1, <2>1, <2>5, <2>6, <2>7, <2>8 DEF Improve, UpdateRow, SearchInv, Next
<1>2. CASE NoImprovement
    BY <1>2 DEF NoImprovement, Next, Finish
<1>3. CASE ImprovementFound
    BY <1>3 DEF ImprovementFound, iterationVars
<1>4. CASE SearchSat
    BY <1>4 DEF SearchSat
<1>5. CASE SearchUnsat
    BY <1>5 DEF SearchUnsat
<1>6. CASE UNCHANGED searchVars
    BY <1>6 DEF searchVars
<1> QED BY <1>1, <1>2, <1>3, <1>4, <1>5, <1>6 DEF SearchNext

LEMMA SearchInvStep == SearchInv /\ [SearchNext]_searchVars => SearchInv'
<1> SUFFICES ASSUME SearchInv, [SearchNext]_searchVars PROVE SearchInv'
    OBVIOUS
<1>1. IterationInv'
    BY SearchStep, IterationInvStep DEF SearchInv
<1>2. IterationTypeOK'
    BY <1>1 DEF IterationInv
<1>3. CASE ImprovementFound
    <2>1. PICK m \in Improving(inv) : row' = FirstViolated(m) /\ lower' = m.to[row']
        BY <1>3 DEF ImprovementFound
    <2>2. m \in ssa /\ m \in SSAModel /\ NotPost(inv, m) # {}
        BY DEF Improving, SearchInv, IterationInv, IterationTypeOK
    <2>3. row' \in NotPost(inv, m)
        BY <2>1, <2>2, FirstViolatedIsViolated DEF SearchInv, IterationInv
    <2>4. row' \in Row /\ lower' \in Value /\ lower' > inv[row']
        BY <2>1, <2>2, <2>3 DEF NotPost, SSAModel
    <2>5. upper' \in Value
        BY <1>3, TemplateAssumption DEF ImprovementFound, MaxRowValue, Value
    <2>6. row' \in 0..Rows
        BY <2>4 DEF Row
    <2>7. UNCHANGED <<ssa, inv, done>> /\ ~done /\ phase' = "search"
        BY <1>3 DEF ImprovementFound
    <2>8. SearchImproves'
        BY <2>4, <2>7, TemplateAssumption DEF SearchImproves, SearchInv, IterationInv,
               IterationTypeOK, RowValue, Value, NegInf, Inf
    <2>9. \E w \in Improving(inv)' : row' \in NotPost(inv', w)
        BY <2>1, <2>3, <2>7 DEF Improving, Pre, NotPost
    <2> QED BY <1>1, <1>2, <2>4, <2>5, <2>6, <2>7, <2>8, <2>9 DEF SearchInv, SearchTypeOK
<1>4. CASE NoImprovement
    BY <1>1, <1>2, <1>4 DEF NoImprovement, SearchInv, SearchTypeOK, SearchImproves
<1>5. CASE SearchSat
    <2>1. PICK middle \in Middles, m \in ssa, symb \in Value : symb >= middle /\ lower' = symb
        BY <1>5 DEF SearchSat
    <2>2. middle \in Int /\ lower < middle
        BY <1>5, MiddleAboveLower DEF SearchSat, SearchInv
    <2>3. lower' \in Value /\ lower \in Int /\ lower' \in Int /\ lower < lower'
        BY <2>1, <2>2, TemplateAssumption DEF Value, SearchInv, SearchTypeOK
    <2>4. UNCHANGED <<ssa, inv, done, row, upper, phase>> /\ phase = "search"
        BY <1>5 DEF SearchSat, iterationVars
    <2>5. SearchTypeOK'
        BY <1>2, <2>3, <2>4 DEF SearchInv, SearchTypeOK
    <2>6. inv[row] \in Int
        BY <2>4, TemplateAssumption DEF SearchInv, SearchTypeOK, IterationTypeOK, RowValue,
                                        NegInf, Inf
    <2>7. SearchImproves'
        BY <2>3, <2>4, <2>6 DEF SearchInv, SearchImproves
    <2> QED BY <1>1, <2>4, <2>5, <2>7 DEF SearchInv, Improving, NotPost, Pre
<1>6. CASE SearchUnsat
    <2>1. PICK middle \in Middles : upper' = IF middle < upper THEN middle ELSE lower
        BY <1>6 DEF SearchUnsat
    <2>2. middle \in Int /\ Min <= middle
        BY <1>6, MiddleAboveLower DEF SearchUnsat, SearchInv
    <2>3. upper' \in Value
        BY <2>1, <2>2, TemplateAssumption DEF Value, SearchInv, SearchTypeOK
    <2>4. UNCHANGED <<ssa, inv, done, row, lower, phase>>
        BY <1>6 DEF SearchUnsat, iterationVars
    <2>5. SearchTypeOK'
        BY <1>2, <2>3, <2>4 DEF SearchInv, SearchTypeOK
    <2> QED BY <1>1, <2>4, <2>5 DEF SearchInv, SearchImproves, Improving, NotPost, Pre
<1>7. CASE UpdateRow
    BY <1>1, <1>2, <1>7 DEF UpdateRow, SearchInv, SearchTypeOK, SearchImproves
<1>8. CASE UNCHANGED searchVars
    BY <1>1, <1>2, <1>8 DEF searchVars, iterationVars, SearchInv, SearchTypeOK,
                            SearchImproves, Improving, NotPost, Pre
<1> QED BY <1>3, <1>4, <1>5, <1>6, <1>7, <1>8 DEF SearchNext

-----------------------------------------------------------------------------
(* The solver the command line names.                                      *)

(* Enumeration leaves the variables of the search as they were.            *)
SolverInv ==
    /\ SearchInv
    /\ cmdline \in CommandLines
    /\ Strategy = "ENUMERATION" => phase = "check" /\ BelowEveryInductive

LEMMA SolverInvInit == SolverInit => SolverInv
BY SearchInvInit, InitIsBelow DEF SolverInit, SolverInv, SearchInit

LEMMA SolverStep == SolverInv /\ [SolverNext]_solverVars => [Next]_iterationVars
<1>1. SolverInv => IterationTypeOK
    BY DEF SolverInv, SearchInv, IterationInv
<1> QED BY <1>1, SimpleStep, SearchStep
        DEF SolverInv, SolverNext, Enumerate, SearchBinary, solverVars, searchVars

LEMMA SolverInvStep == SolverInv /\ [SolverNext]_solverVars => SolverInv'
<1> SUFFICES ASSUME SolverInv, [SolverNext]_solverVars PROVE SolverInv'
    OBVIOUS
<1>1. CASE Enumerate
    <2>1. SimpleNext /\ UNCHANGED <<row, lower, upper, phase, cmdline>> /\ phase = "check"
        BY <1>1 DEF Enumerate, SolverInv
    <2>2. IterationInv /\ BelowEveryInductive
        BY <1>1 DEF Enumerate, SolverInv, SearchInv
    <2>3. IterationInv'
        BY <2>1, <2>2, SimpleStep, IterationInvStep DEF IterationInv
    <2>4. BelowEveryInductive'
        BY <2>1, <2>2, SimpleStepStaysBelow
    <2>5. SearchTypeOK'
        BY <2>1, <2>3 DEF SolverInv, SearchInv, SearchTypeOK, IterationInv
    <2> QED BY <2>1, <2>3, <2>4, <2>5
            DEF SolverInv, SearchInv, SearchImproves, Strategy, Isset
<1>2. CASE SearchBinary
    <2>1. SearchInv'
        BY <1>2, SearchInvStep DEF SearchBinary, SolverInv
    <2>2. cmdline' = cmdline /\ Strategy # "ENUMERATION"
        BY <1>2 DEF SearchBinary
    <2> QED BY <2>1, <2>2 DEF SolverInv, Strategy, Isset
<1>3. CASE UNCHANGED solverVars
    <2>1. SearchInv'
        BY <1>3, SearchInvStep DEF solverVars, SolverInv
    <2>2. UNCHANGED <<ssa, inv, phase, cmdline>>
        BY <1>3 DEF solverVars, searchVars, iterationVars
    <2> QED BY <2>1, <2>2 DEF SolverInv, Strategy, Isset, BelowEveryInductive, Inductive,
                              Improving
<1> QED BY <1>1, <1>2, <1>3 DEF SolverNext

(* The types of the variables: what the search leaves in them is a row and *)
(* two values of its type, whatever the heuristics name.                   *)
THEOREM SolverTypes == SolverSpec => []SolverTypeOK
<1>1. SolverInv => SolverTypeOK
    BY DEF SolverInv, SearchInv, SolverTypeOK
<1> QED BY <1>1, SolverInvInit, SolverInvStep, PTL DEF SolverSpec

(* The candidate of a search is above the bound it will replace, whatever  *)
(* middles the heuristics of between() choose.                             *)
THEOREM SearchAlwaysImproves == SolverSpec => []SearchImproves
<1>1. SolverInv => SearchImproves
    BY DEF SolverInv, SearchInv
<1> QED BY <1>1, SolverInvInit, SolverInvStep, PTL DEF SolverSpec

(* Enumeration ends with the strongest invariant of the template.          *)
THEOREM EnumerationFindsStrongest == SolverSpec => []EnumerationIsExact
<1>1. SolverInv => EnumerationIsExact
    BY DEF SolverInv, EnumerationIsExact
<1> QED BY <1>1, SolverInvInit, SolverInvStep, PTL DEF SolverSpec

(* Both solvers implement the iteration.                                   *)
THEOREM SolversImplementIteration == SolverSpec => SolversRefine
<1>1. SolverInit => Init
    BY DEF SolverInit, SearchInit
<1> QED BY <1>1, SolverInvInit, SolverInvStep, SolverStep, PTL
        DEF SolverSpec, SolversRefine, Spec

(* What either solver ends with bounds every row in every execution.       *)
THEOREM SolversCover == SolverSpec => []CoversExecutions
BY SolversImplementIteration, IterationCovers, PTL DEF SolversRefine
=============================================================================
