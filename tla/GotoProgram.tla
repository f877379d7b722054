----------------------------- MODULE GotoProgram -----------------------------
(***************************************************************************)
(* A function as a GOTO program, and what 2ls does to it before the SSA is *)
(* built (process_goto_program).                                           *)
(*                                                                         *)
(* A program is the sequence of its instructions.  An instruction has an   *)
(* identity that it keeps when others are inserted, as the list iterators  *)
(* of goto_programt do; the target of a goto is an identity.  The operand  *)
(* of an assignment or a condition is a variable, a value or Nondet; a     *)
(* condition holds when its operand has a value in holds, and is constant  *)
(* when that is every value or none.                                       *)
(***************************************************************************)
EXTENDS Integers, SequencesExt

CONSTANTS
    Var,        \* the variables (SSA objects)
    Value,      \* their values
    Drawn       \* those a nondeterministic choice can give

Nondet == "nondet"

ASSUME GotoProgramAssumption ==
    /\ Drawn \subseteq Value
    /\ Var \cap Value = {} /\ Nondet \notin Var \cup Value
    /\ Var \cap {"", "$guard", "$cond", "$nondet"} = {}

Instruction == [id : Nat, op : STRING, lhs : Var \cup {""}, rhs : Var \cup Value \cup {Nondet, ""},
                holds : SUBSET Value, to : Nat]

Always(i) == i.holds = Value
Never(i) == i.holds = {}
Holds(i, v) == Always(i) \/ v \in i.holds
IsGoto(i) == i.op = "goto"

(* The position of an instruction.                                         *)
Pos(P, id) == CHOOSE l \in DOMAIN P : P[l].id = id

IsBackwardsGoto(P, l) == IsGoto(P[l]) /\ Pos(P, P[l].to) <= l

Successors(P, l) ==
    (IF IsGoto(P[l]) THEN {Pos(P, P[l].to)} ELSE {})
    \cup (IF P[l].op = "end" \/ (IsGoto(P[l]) /\ Always(P[l])) THEN {} ELSE {l + 1})

IncomingEdges(P, l) == {j \in DOMAIN P : l \in Successors(P, j)}

-----------------------------------------------------------------------------
(* The passes.  Each goes over the instructions it finds at the beginning; *)
(* those it inserts need none of its attention.                            *)

NewSkip(P) ==
    [id |-> Len(P) + 1, op |-> "skip", lhs |-> "", rhs |-> "", holds |-> Value, to |-> 0]

Before(P, id, i) == InsertAt(P, Pos(P, id), i)
After(P, id, i) == InsertAt(P, Pos(P, id) + 1, i)

(* The gotos at the positions in S that go to id now go to new.            *)
Redirect(P, S, id, new) ==
    [l \in DOMAIN P |-> IF l \in S /\ IsGoto(P[l]) /\ P[l].to = id
                        THEN [P[l] EXCEPT !.to = new] ELSE P[l]]

ForEach(P, Pass(_, _)) == FoldLeft(Pass, P, [l \in DOMAIN P |-> P[l].id])

(* split_loopheads: a conditional backward goto gets a skip to go to, any  *)
(* backward goto if it went to an assertion; the gotos that went to the    *)
(* old head follow (a head that was itself inserted has none on record).   *)
SplitLoopheads(P) ==
    LET Split(Q, id) ==
            LET g == Q[Pos(Q, id)]
            IN  IF IsBackwardsGoto(Q, Pos(Q, id))
                    /\ (~Always(g) \/ Q[Pos(Q, g.to)].op = "assert")
                THEN Before(Redirect(Q, IF g.to > Len(P) THEN {} ELSE DOMAIN Q, g.to, Len(Q) + 1),
                            g.to, NewSkip(Q))
                ELSE Q
    IN  ForEach(P, Split)

(* nondet_locals: a declared variable is assigned at once.                 *)
NondetLocals(P) ==
    LET Initialise(Q, id) ==
            LET l == Pos(Q, id)
            IN  IF Q[l].op = "decl" /\ ~(Q[l + 1].op = "assign" /\ Q[l + 1].lhs = Q[l].lhs)
                THEN After(Q, id, [NewSkip(Q) EXCEPT !.op = "assign", !.lhs = Q[l].lhs, !.rhs = Nondet])
                ELSE Q
    IN  ForEach(P, Initialise)

(* remove_loops_in_entry.                                                  *)
RemoveLoopsInEntry(P) ==
    IF \E l \in DOMAIN P : IsGoto(P[l]) /\ P[l].to = P[1].id
    THEN Before(P, P[1].id, NewSkip(P)) ELSE P

(* add_assumptions_after_assertions.                                       *)
AddAssumptionsAfterAssertions(P) ==
    LET Assume(Q, id) ==
            LET a == Q[Pos(Q, id)]
            IN  IF a.op = "assert" /\ ~Always(a)
                THEN After(Q, id, [a EXCEPT !.op = "assume", !.id = Len(Q) + 1]) ELSE Q
    IN  ForEach(P, Assume)

(* remove_dead_goto.                                                       *)
RemoveConstantGoto(P) ==
    [l \in DOMAIN P |-> IF IsBackwardsGoto(P, l) /\ (Never(P[l]) \/ Always(P[l]))
                        THEN [NewSkip(P) EXCEPT !.id = P[l].id] ELSE P[l]]
RemoveDeadGoto(P) ==
    [l \in DOMAIN P |-> IF IsBackwardsGoto(P, l) /\ Never(P[l])
                        THEN [NewSkip(P) EXCEPT !.id = P[l].id] ELSE P[l]]

(* fix_goto_targets: a skip that is reached both from above and by         *)
(* backward gotos is split in two, and the backward gotos go to the second.*)
FixGotoTargets(P) ==
    LET Fix(Q, id) ==
            LET l == Pos(Q, id) IN
            IF Q[l].op = "skip" /\ \E j, m \in IncomingEdges(Q, l) : j < l /\ m > l
            THEN After(Redirect(Q, {j \in IncomingEdges(Q, l) : j > l}, id, Len(Q) + 1),
                       id, NewSkip(Q))
            ELSE Q
    IN  ForEach(P, Fix)

(* process_goto_program, the passes that touch the control flow.           *)
Processed(P, independent) ==
    LET Q == RemoveLoopsInEntry(NondetLocals(SplitLoopheads(P)))
    IN  FixGotoTargets(RemoveDeadGoto(IF independent THEN Q ELSE AddAssumptionsAfterAssertions(Q)))

TurnIntoAssume(P) ==
    [l \in DOMAIN P |-> IF P[l].op = "assert" THEN [P[l] EXCEPT !.op = "assume"] ELSE P[l]]

(* Location numbers: the targets become positions.                         *)
Numbered(P) ==
    [l \in DOMAIN P |-> IF IsGoto(P[l]) THEN [P[l] EXCEPT !.to = Pos(P, P[l].to)] ELSE P[l]]
=============================================================================
