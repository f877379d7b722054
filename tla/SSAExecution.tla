---------------------------- MODULE SSAExecution ----------------------------
(***************************************************************************)
(* The SSA held against the executions of the function.  The passes, the   *)
(* analysis, the construction and the unwinding run one after the other;   *)
(* after any round an execution of the processed program may be walked.    *)
(* The walk keeps the odometer of the loop copies it runs in and the value *)
(* it gives to every name; where it leaves a loop, the merged names get    *)
(* what the exit merges say.  At its end the formula is compared with it.  *)
(***************************************************************************)
EXTENDS SSAUnwinder

CONSTANTS
    Functions,  \* the functions: [source, mode, independent, nontermination, unwind]
    Modes,      \* unwinder_modet
    Inputs      \* the values of the variables on entry

ASSUME ExecutionAssumption ==
    /\ Inputs \subseteq [Var -> Value]
    /\ \A f \in Functions : f.mode \in Modes /\ f.source \in Seq(Instruction)
    /\ MaxUnwind \in Nat

VARIABLES
    function,   \* the function (does not change)
    at, odo,    \* where the execution is, and in which copies of its loops
    env,        \* the values of the variables
    val,        \* the values of the SSA names
    checked     \* the assertions it has come to: [loc, odo, value]

walkVars == <<at, odo, env, val, checked>>
vars == <<unwinderVars, function, walkVars>>

(* doit(): --nontermination turns the assertions into assumptions.         *)
AsAnalysed(P) == IF function.nontermination THEN TurnIntoAssume(P) ELSE P

Init ==
    /\ function \in Functions
    /\ mode = function.mode
    /\ goto = Numbered(AsAnalysed(Processed(function.source, function.independent)))
    /\ AnalysisInit
    /\ current = -1
    /\ at = 1 /\ odo = <<>> /\ val = Empty /\ checked = {}
    /\ env \in Inputs

Analyse == Visit /\ UNCHANGED <<mode, current, function, walkVars>>
BuildSSA == Build /\ UNCHANGED <<mode, current, function, walkVars>>
InitUnwinder == UnwinderInit /\ UNCHANGED <<function, walkVars>>
UnwindAll == current < function.unwind /\ Unwind /\ UNCHANGED <<function, walkVars>>

-----------------------------------------------------------------------------
(* What the formula gives to a literal, an operand, an equation, when the  *)
(* names have the values f.  A guard without a value is false.             *)

Truth(b) == IF b THEN True ELSE False

LiteralHolds(f, lit) ==
    IF lit[1] \in DOMAIN f THEN (f[lit[1]] = True) = lit[2]
    ELSE lit[1].obj = "$guard" /\ ~lit[2]
AllHold(f, L) == \A lit \in L : LiteralHolds(f, lit)

Unknown == "unknown"

ValueOf(f, x) ==
    LET v == IF x.name.obj = "" THEN x.val
             ELSE IF x.name \in DOMAIN f THEN f[x.name]
             ELSE IF x.name.obj = "$guard" THEN False
             ELSE Unknown
    IN  v
TestOf(f, x) == LET v == ValueOf(f, x) IN IF v = Unknown THEN v ELSE Truth(v \in x.in)

RightSide(f, e) ==
    LET x == e.alts[Max({i \in DOMAIN e.alts : AllHold(f, e.alts[i].when)})].is
    IN  IF e.lhs.obj = "$cond" /\ x.name.obj # "" /\ x.name.obj # "$cond"
        THEN TestOf(f, x) ELSE ValueOf(f, x)

-----------------------------------------------------------------------------
(* The walk.                                                               *)

(* In a function without loops the rounds are all the same.                *)
StartWalk ==
    /\ stage = "unwound" /\ (current = 0 \/ Loops # {})
    /\ stage' = "walk"
    /\ val' = [n \in {Name(v, "in", 0) : v \in Var} |-> env[n.obj]]
    /\ UNCHANGED <<goto, defs, phis, work, nodes, mode, current, function, at, odo, env, checked>>

(* The odometer on the way from l to t; entering a loop starts with %k.    *)
Moved(l, t) ==
    [d \in 1..Level(t) |->
        LET e == LoopAt(t, d) IN
        IF e \notin Around(l) THEN current
        ELSE IF l = e /\ t = HeadOf(e) THEN odo[d] - 1
        ELSE odo[d]]

(* There is no further copy for the back edge.                             *)
RunsOut(l, t) == \E d \in DOMAIN Moved(l, t) : Moved(l, t)[d] < 0

(* The names the formula merges when copy o of loop e is left.             *)
Merges(e, o) == UNION {n.equations : n \in ExitMerges(e, Parent(o), current)}
WithMerges(f, e, o) ==
    Updated(f, [n \in {q.lhs : q \in {q \in Merges(e, o) : RightSide(f, q) # Unknown}} |->
                    RightSide(f, CHOOSE q \in Merges(e, o) : q.lhs = n)])
(* The loops around l that t is not in are left one after the other, the   *)
(* innermost first.                                                        *)
WithAllMerges(f, l, t) ==
    LET Left[d \in 0..Level(l)] ==
            IF d = Level(l) THEN f
            ELSE WithMerges(Left[d + 1], LoopAt(l, d + 1), Prefix(odo, d + 1))
    IN  Left[Cardinality(Around(l) \cap Around(t))]

(* The names defined at l, when the operand there has the value v.         *)
Named(n) == [n EXCEPT !.odo = odo]
PhisAt(l) == {Named(Name(x, "phi", l)) : x \in DOMAIN phis[l]}
GuardAt(l) == IF HasGuard(l) THEN {Named(Guard(l))} ELSE {}
CondAt(l) == IF goto[l].op \in {"goto", "assume", "call"} THEN {Named(Cond(l))} ELSE {}
OutAt(l) ==
    (IF goto[l].op \in {"assign", "decl"} THEN {Named(Name(goto[l].lhs, "out", l))} ELSE {})
    \cup (IF goto[l].rhs = Nondet THEN {Named(Name("$nondet", "out", l))} ELSE {})
Defined(l, v) ==
    [n \in PhisAt(l) \cup GuardAt(l) \cup CondAt(l) \cup OutAt(l) |->
        CASE n \in PhisAt(l) -> env[n.obj]
          [] n \in GuardAt(l) -> True
          [] n \in CondAt(l) -> Truth(Holds(goto[l], v))
          [] n \in OutAt(l) -> v]

Operands(l) ==
    CASE goto[l].op = "decl" -> {env[goto[l].lhs]}
      [] goto[l].rhs = Nondet -> Drawn
      [] goto[l].rhs \in Var -> {env[goto[l].rhs]}
      [] OTHER -> {goto[l].rhs}

Target(l, v) == IF IsGoto(goto[l]) /\ Holds(goto[l], v) THEN goto[l].to ELSE l + 1

Step ==
    /\ stage = "walk" /\ goto[at].op # "end"
    /\ \E v \in Operands(at) :
        LET f == Updated(val, Defined(at, v))
            t == Target(at, v)
            blocked == goto[at].op = "assume" /\ ~Holds(goto[at], v)
            stuck == blocked \/ RunsOut(at, t)
        IN  /\ env' = IF goto[at].op = "assign" THEN [env EXCEPT ![goto[at].lhs] = v] ELSE env
            /\ checked' = IF goto[at].op # "assert" THEN checked
                          ELSE checked \cup {[loc |-> at, odo |-> odo, value |-> v]}
            /\ at' = IF stuck THEN at ELSE t
            /\ odo' = IF stuck THEN odo ELSE Moved(at, t)
            /\ val' = IF stuck THEN f ELSE WithAllMerges(f, at, t)
            /\ stage' = IF blocked THEN "blocked" ELSE IF stuck THEN "unfinished" ELSE stage
    /\ UNCHANGED <<goto, defs, phis, work, nodes, mode, current, function>>

Return ==
    /\ stage = "walk" /\ goto[at].op = "end"
    /\ val' = Updated(val, Defined(at, True))
    /\ stage' = "returned"
    /\ UNCHANGED <<goto, defs, phis, work, nodes, mode, current, function, at, odo, env, checked>>

ExecutionNext ==
    \/ Analyse \/ BuildSSA \/ InitUnwinder \/ UnwindAll
    \/ StartWalk \/ Step \/ Return

ExecutionSpec == Init /\ [][ExecutionNext]_vars /\ WF_vars(Analyse \/ BuildSSA)

-----------------------------------------------------------------------------
Over == stage \in {"blocked", "unfinished", "returned"}

(* What the passes make of the function: control stays in it and does not  *)
(* come back to its first instruction; loops nest, each with a head of its *)
(* own; and the names needed behind a loop are names of the loop.          *)
LoopsNest == \A e, f \in Loops : e < f => HeadOf(f) < HeadOf(e) \/ e < HeadOf(f)
ProgramOK ==
    /\ goto \in Seq(Instruction) /\ goto # <<>>
    /\ \A l \in Loc :
        /\ goto[l].op \in {"assign", "decl"} => goto[l].lhs \in Var
        /\ goto[l].op = "assign" => goto[l].rhs # ""
        /\ IsGoto(goto[l]) => goto[l].to # 1
        /\ Next(l) \subseteq Loc
    /\ LoopsNest
NamesOfLoop ==
    \A e \in Loops : \A l \in Exits(e) : \A v \in Modified(e) : Read(v, l).loc \in Span(e)
Structured == ProgramOK /\ (stage # "analyse" => NamesOfLoop)

(* A jump enters a loop at its head and leaves one loop at a time: an exit *)
(* is recorded for the innermost loop it leaves only.  The function ends   *)
(* at its last instruction, and nothing depends on a call but what follows.*)
JumpsOK ==
    \A l \in Loc :
        /\ \A t \in Next(l) : /\ \A e \in Around(t) \ Around(l) : t = HeadOf(e)
                             /\ \A e, f \in Around(l) \ Around(t) : e = f
        /\ goto[l].op = "end" => l + 1 \notin Loc
        /\ goto[l].op = "call" => Always(goto[l])

(* The types of the variables.                                             *)
ExecutionTypeOK ==
    /\ Structured /\ JumpsOK
    /\ function \in Functions /\ mode \in Modes
    /\ current \in -1..MaxUnwind
    /\ at \in Loc /\ odo \in Seq(0..MaxUnwind) /\ Len(odo) = (IF stage = "walk" THEN Level(at) ELSE Len(odo))
    /\ env \in [Var -> Value]
    /\ \A l \in Loc : DOMAIN defs[l] \subseteq Var /\ DOMAIN phis[l] \subseteq Var
    /\ work \subseteq Loc

(* The equation is about what the execution did: it defines a guard, or a  *)
(* name that got its value at a location the execution came to.            *)
(* A name merged behind a loop is left to the equations that use it.       *)
Relevant(e) ==
    /\ e.lhs.loc # 0 => Len(e.lhs.odo) = Level(e.lhs.loc)
    /\ e.lhs.obj = "$guard" \/ e.lhs \in DOMAIN val

Agrees(e) == RightSide(val, e) = (IF e.lhs \in DOMAIN val THEN val[e.lhs] ELSE False)

(* A guard is true exactly if the execution comes to its location, in that *)
(* copy, whichever branches and loops it went through (guard_mapt,         *)
(* add_loop_connector, add_exit_merges).                                   *)
GuardsAgree ==
    Over => \A e \in {e \in Equations : Relevant(e) /\ e.lhs.obj = "$guard"} : Agrees(e)

(* Every execution satisfies the equations of the unwound SSA, however it  *)
(* goes through its branches and loops: each name has the value the        *)
(* variable has at that point, and a guard is true exactly if the          *)
(* execution comes to its location (local_SSAt, ssa_local_unwindert).      *)
SSAAgrees == Over => \A e \in {e \in Equations : Relevant(e)} : Agrees(e)

(* No name has two definitions, whatever rounds the copies were added in   *)
(* and whatever was enabled before.                                        *)
SingleAssignment ==
    stage = "unwound" => \A e, f \in Equations : e.lhs = f.lhs => e = f

(* loop_continuation_conditions: one of them holds exactly in the          *)
(* executions that run out of copies, so is_fully_unwound is right.        *)
ContinuationExact ==
    Over => ((stage = "unfinished") <=> \E c \in ContinuationConditions : AllHold(val, c))

(* Whether claim a is about the assertion as the execution came to it.     *)
About(a, c) ==
    /\ AllHold(val, a.if) \/ \E lit \in a.if : lit[1].kind = "ls"
    /\ ValueOf(val, a.then) = c.value
    /\ \E lit \in a.if : lit[1].obj = "$guard" /\ lit[1].odo = Prefix(c.odo, Len(lit[1].odo))
                         /\ lit[1].loc = GuardSource(c.loc)
    /\ a.then.name.odo = Prefix(c.odo, Len(a.then.name.odo))

AssertedAt(c) == \E n \in Enabled : n.loc = c.loc /\ \E a \in n.assertions : About(a, c)
AssumedAt(c) == \E n \in Enabled : n.loc = c.loc /\ \E a \in n.constraints : About(a, c)

(* Every assertion an execution comes to, in whatever copy, is asserted or *)
(* assumed there, on the value it tests.                                   *)
AssertionsKept == Over => \A c \in checked : AssertedAt(c) \/ AssumedAt(c)

FailsAt(c) == ~Holds(goto[c.loc], c.value)

(* The assumptions of the formula leave the execution in.                  *)
Selects == [n \in LoopheadSelects |-> False]
ConstraintHolds(a) ==
    AllHold(Updated(val, Selects), a.if) => ValueOf(val, a.then) \in a.then.in
Admitted == \A n \in Enabled : \A a \in n.constraints : ConstraintHolds(a)

(* The execution needs this round: it comes to the last copy of a loop.    *)
NeedsRound == current = 0 \/ \E n \in DOMAIN val : \E d \in DOMAIN n.odo : n.odo[d] = 0

(* An execution that fails an assertion is a counterexample in the first   *)
(* round that has the copies for it: the assertion is asserted there, and  *)
(* no assumption of that round excludes the execution.                     *)
FailureReported ==
    Over /\ NeedsRound =>
        \A c \in checked : FailsAt(c) => AssertedAt(c) /\ Admitted

(* The fixpoint iteration ends.                                            *)
AnalysisEnds == <>(stage # "analyse")

-----------------------------------------------------------------------------
(* The executions of the processed program are executions of the function  *)
(* as it was: the next instruction of the function is the first one at or  *)
(* behind at that a pass has not inserted; but between a declaration and   *)
(* the assignment inserted behind it the declaration, and at the second    *)
(* half of a split skip that skip.                                         *)
Original(l) == goto[l].id <= Len(function.source)
SplitTarget(l) ==
    goto[l].op = "skip" /\ \E g \in DOMAIN function.source :
        IsGoto(function.source[g]) /\ Always(function.source[g]) /\ g > goto[l].id
        /\ function.source[g].to = goto[l].id
NextOriginal ==
    IF ~Original(at) /\ (goto[at].op = "assign" \/ (at > 1 /\ Original(at - 1) /\ SplitTarget(at - 1)))
    THEN goto[at - 1].id
    ELSE goto[Min({l \in Loc : l >= at /\ Original(l)})].id

Source == INSTANCE GotoExecution
            WITH source <- function.source, pc <- NextOriginal,
                 Sources <- {f.source : f \in Functions}

RefinesSource == Source!SourceSpec
=============================================================================
