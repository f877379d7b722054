-------------------------- MODULE StrategyIteration --------------------------
(***************************************************************************)
(* What a strategy solver promises: ssa_analyzert::operator() starts from  *)
(* the least value of a template domain and has the solver improve it      *)
(* until the value is inductive.                                           *)
(*                                                                         *)
(* A template has rows.  The value of a row bounds its expression from     *)
(* above; -oo and +oo are the integers below and above the row's type.     *)
(* The SSA of a function is abstracted to its models, and a model m to     *)
(* what the template sees of it:                                           *)
(*   m.on       the rows whose pre_guard holds, and                        *)
(*   m.at[r]    the value of the row's expression over the pre variables;  *)
(*   m.off      the rows whose post_guard (and aux_expr) holds, and        *)
(*   m.to[r]    the value of the expression over the post variables.       *)
(* IN rows are never in m.off, OUT rows never in m.on; the pre and post    *)
(* variables of an OUT row are the same.                                   *)
(***************************************************************************)
EXTENDS Integers

CONSTANTS
    Rows,       \* the number of rows of the template
    Min, Max,   \* the least and the greatest value of a row's type
    InRow,      \* the rows over the inputs of the function (guardst::IN)
    Systems     \* the formulas to analyse

Row == 1..Rows
Value == Min..Max
NegInf == Min - 1
Inf == Max + 1
RowValue == NegInf..Inf

SSAModel == [on : SUBSET Row, at : [Row -> Value], off : SUBSET Row, to : [Row -> Value]]

ASSUME TemplateAssumption ==
    /\ Rows \in Nat
    /\ Min \in Int /\ Max \in Int /\ Min <= Max
    /\ InRow \subseteq Row
    /\ \A S \in Systems : S \subseteq SSAModel /\ \A m \in S : m.off \cap InRow = {}

VARIABLES
    ssa,    \* the formula being analysed (does not change)
    inv,    \* the value of the domain: row -> bound
    done    \* has iterate() returned false

iterationVars == <<ssa, inv, done>>

-----------------------------------------------------------------------------
(* initialize_value: +oo for inputs, -oo for everything else.              *)
InitialValue == [r \in Row |-> IF r \in InRow THEN Inf ELSE NegInf]

(* to_pre_constraints: pre_guard implies expression <= bound, on all rows. *)
PreUnguarded(v, m) == \A r \in Row : m.at[r] <= v[r]
Pre(v, m) == \A r \in m.on : m.at[r] <= v[r]

(* make_not_post_constraints: the rows whose post constraint m violates.   *)
NotPost(v, m) == {r \in m.off : m.to[r] > v[r]}

(* The models of pre and the disjunction of the negated post constraints.  *)
Improving(v) == {m \in ssa : Pre(v, m) /\ NotPost(v, m) # {}}

Inductive(v) == Improving(v) = {}

-----------------------------------------------------------------------------
Init ==
    /\ ssa \in Systems
    /\ inv = InitialValue
    /\ done = FALSE

Raised(v, w) == {r \in Row : w[r] # v[r]}

(* Some rows that a model violates are raised.                             *)
Improve ==
    /\ ~done
    /\ inv' \in [Row -> RowValue]
    /\ inv' # inv
    /\ \E m \in Improving(inv) : Raised(inv, inv') \subseteq NotPost(inv, m)
    /\ \A r \in Raised(inv, inv') : inv[r] < inv'[r]
    /\ UNCHANGED <<ssa, done>>

Finish ==
    /\ ~done
    /\ Inductive(inv)
    /\ done' = TRUE
    /\ UNCHANGED <<ssa, inv>>

Next == Improve \/ Finish

Spec == Init /\ [][Next]_iterationVars

-----------------------------------------------------------------------------
(* The types of the variables.                                             *)
IterationTypeOK ==
    /\ ssa \subseteq SSAModel
    /\ inv \in [Row -> RowValue]
    /\ done \in BOOLEAN

PostValues(S) == {rv \in Row \X Value : \E m \in S : rv[1] \in m.off /\ rv[2] = m.to[rv[1]]}

(* The values the rows take in executions: a model whose pre values are    *)
(* all taken (or inputs) contributes its post values.                      *)
ClosedUnderSSA(S, P) ==
    \A m \in S :
        (\A r \in m.on : r \in InRow \/ <<r, m.at[r]>> \in P)
            => \A r \in m.off : <<r, m.to[r]>> \in P

TakenIn(S) ==
    {rv \in PostValues(S) : \A P \in SUBSET PostValues(S) : ClosedUnderSSA(S, P) => rv \in P}

Taken == TakenIn(ssa)

(* The value the analysis ends with bounds every row in every execution:   *)
(* the invariant that is put into the summary is one.                      *)
CoversExecutions == done => \A rv \in Taken : rv[2] <= inv[rv[1]]
=============================================================================
