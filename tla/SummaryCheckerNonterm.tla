----------------------- MODULE SummaryCheckerNonterm ------------------------
(***************************************************************************)
(* summary_checker_nontermt: does the function have an execution that does *)
(* not end?  In place of the assertions, every loop is a property: that no *)
(* execution comes back, in the last copy of the loop, to the values it    *)
(* had at the head of an earlier copy.  Each round unwinds the loops once  *)
(* more.                                                                   *)
(***************************************************************************)
EXTENDS SSAExecution

(* property_map: a loop is a property, and has the status FAIL in a round  *)
(* when an execution covers its goal; all statuses else stay UNKNOWN.      *)
HeadValue(e, v, o) == Renamed(Name(v, "phi", HeadOf(e)), HeadOf(e), o)

(* loop_check_operands: the copies %1, ..., %k against %0.                 *)
ComparedFromZero == 0..current
ComparedBelow == 1..(current - 1)
Compared == 1..current

(* The head is reached, and the objects with a phi node there agree.       *)
RecursWithinAnyObject(e, p, i) ==
    /\ LiteralHolds(val, Is(Renamed(Guard(HeadOf(e)), HeadOf(e), Append(p, 0))))
    /\ Modified(e) # {} => \E v \in Modified(e) :
        val[HeadValue(e, v, Append(p, 0))] = val[HeadValue(e, v, Append(p, i))]
Recurs(e, p, i) ==
    /\ LiteralHolds(val, Is(Renamed(Guard(HeadOf(e)), HeadOf(e), Append(p, 0))))
    /\ \A v \in Modified(e) :
        val[HeadValue(e, v, Append(p, 0))] = val[HeadValue(e, v, Append(p, i))]

GoalCoveredInFirst(e) ==
    \E i \in Compared : Recurs(e, [d \in 1..(Depth(e) - 1) |-> current], i)

(* The goal of a loop: the disjunction over all its instances.             *)
GoalCovered(e) ==
    \E p \in Odometers(Depth(e) - 1, current) : \E i \in Compared : Recurs(e, p, i)

(* What operator() answers in this round: FAIL when a goal is covered, and *)
(* PASS when there is no property at all.                                  *)
Checked == function.nontermination /\ Over /\ current >= 1
NonterminationProved == Checked /\ \E e \in Loops : GoalCovered(e)
TerminationProved == function.nontermination /\ Over /\ Loops = {}

-----------------------------------------------------------------------------
(* The executions that do not end, with the assertions as assumptions.     *)

SourceStates(P) == (DOMAIN P) \X [Var -> Value]

SourceSteps(P, s) ==
    LET i == P[s[1]]
        values == IF i.rhs = Nondet \/ i.op = "decl" THEN Drawn
                  ELSE IF i.rhs \in Var THEN {s[2][i.rhs]} ELSE {i.rhs}
    IN  {<<IF IsGoto(i) /\ Holds(i, v) THEN Pos(P, i.to) ELSE s[1] + 1,
           IF i.op \in {"assign", "decl"} THEN [s[2] EXCEPT ![i.lhs] = v] ELSE s[2]>> :
            v \in {v \in values : i.op # "end" /\ (i.op \in {"assume", "assert"} => Holds(i, v))}}

RECURSIVE Endless(_, _)
Endless(P, S) ==
    LET T == {s \in S : SourceSteps(P, s) \cap S # {}}
    IN  IF T = S THEN S ELSE Endless(P, T)

EndlessFrom(P) == Endless(P, SourceStates(P))

EndlessSources ==
    {P \in {f.source : f \in {f \in Functions : f.nontermination}} :
        {<<1, x>> : x \in Inputs} \cap EndlessFrom(P) # {}}

Deterministic(P) == \A l \in DOMAIN P : P[l].op # "decl" /\ P[l].rhs # Nondet

(* A function that is reported never to end does have an endless execution *)
(* of its own, and one that is reported to end has none: the unwound SSA,  *)
(* its renamed heads and phi nodes do not pretend a recurrence.            *)
NonterminationIsReal ==
    /\ NonterminationProved => function.source \in EndlessSources
    /\ TerminationProved => function.source \notin EndlessSources

(* Where nothing is chosen, an endless execution of finitely many values   *)
(* recurs, and is reported once there are enough copies (here unwind):  *)
(* no loop, inner or outer, first or later, is left out of the goals.      *)
NonterminationIsFound ==
    Checked /\ current = function.unwind /\ Deterministic(function.source) =>
        (function.source \in EndlessSources => NonterminationProved)
=============================================================================
