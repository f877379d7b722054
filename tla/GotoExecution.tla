---------------------------- MODULE GotoExecution ----------------------------
(***************************************************************************)
(* The executions of a GOTO program, as the C program means them: what the *)
(* SSA form of the function promises to describe.  Nothing is assumed      *)
(* after an assertion, and a local variable starts with any value.         *)
(***************************************************************************)
EXTENDS GotoProgram

VARIABLES
    source,     \* the program (does not change)
    pc,         \* the identity of the next instruction
    env         \* the values of the variables

CONSTANTS
    Sources,    \* the programs
    Inputs      \* the values of the variables on entry

Values(i) ==
    CASE i.rhs = Nondet \/ i.op = "decl" -> Drawn
      [] i.rhs \in Var -> {env[i.rhs]}
      [] OTHER -> {i.rhs}

SourceInit ==
    /\ source \in Sources
    /\ pc = source[1].id
    /\ env \in Inputs

Here == Pos(source, pc)

Perform ==
    LET i == source[Here] IN
    /\ i.op # "end"
    /\ \E v \in Values(i) :
        /\ i.op = "assume" => Holds(i, v)
        /\ pc' = IF IsGoto(i) /\ Holds(i, v) THEN i.to ELSE source[Here + 1].id
        /\ env' = IF i.op \in {"assign", "decl"} THEN [env EXCEPT ![i.lhs] = v] ELSE env
    /\ UNCHANGED source

SourceSpec == SourceInit /\ [][Perform]_<<source, pc, env>>
=============================================================================
