--------------------------- MODULE MCGotoPrograms ---------------------------
(* Functions over two variables: one of every loop shape, and all small     *)
(* forward control-flow graphs.                                             *)
EXTENDS SummaryCheckerNonterm

MCVar == {"x", "y"}
MCValue == {"0", "1", "2", "3"}
MCInputs == {[x |-> "0", y |-> "3"]}

I(op, lhs, rhs, holds, to) ==
    [id |-> 0, op |-> op, lhs |-> lhs, rhs |-> rhs, holds |-> holds, to |-> to]
Skip == I("skip", "", "", MCValue, 0)
Assign(v, o) == I("assign", v, o, MCValue, 0)
Decl(v) == I("decl", v, "", MCValue, 0)
Dead(v) == I("dead", v, "", MCValue, 0)
Call == I("call", "", "", MCValue, 0)
Goto(t) == I("goto", "", "", MCValue, t)
If(t) == I("goto", "", Nondet, {"1"}, t)
IfIs(v, a, t) == I("goto", "", v, {a}, t)
Assume(v, a) == I("assume", "", v, {a}, 0)
Check(v, a) == I("assert", "", v, MCValue \ {a}, 0)
End == I("end", "", "", MCValue, 0)

Simple == {Assign("x", "1"), Assign("x", "2"), Assign("y", "x")}

Program(s) == [l \in DOMAIN s |-> [s[l] EXCEPT !.id = l]]

(* while(?) { x = ?; assert(x != 2); y = x; } assert(y != 1);               *)
While == Program(<<
    If(6), Assign("x", Nondet), Check("x", "0"), Assign("y", "x"), Goto(1),
    Check("y", "1"), End>>)

(* y = 2; do { int x; y = x; assert(y != 1); } while(?); assert(x != 0);    *)
DoWhile == Program(<<
    Assign("y", "2"), Decl("x"), Assign("y", "x"), Check("y", "1"), If(2),
    Check("x", "0"), Dead("x"), End>>)

(* while(1) { x = 2; if(?) break; if(?) continue; y = x; f(); } x = y;      *)
BreakContinue == Program(<<
    Assign("y", Nondet), Assign("x", "2"), If(8), If(7), Assign("y", "x"), Call, Goto(2),
    Assign("x", "y"), Check("x", "2"), End>>)

(* while(?) { x = 1; while(?) { y = x; x = 2; } } assert(y != 2);           *)
NestedWhile == Program(<<
    Skip, If(9), Assign("x", "1"), If(8), Assign("y", "x"), Assign("x", "2"), Goto(4),
    Goto(2), Check("y", "2"), End>>)

(* while(?) { do { y = x; x = 1; } while(?); assert(y != 1); } y = x;       *)
DoWhileInWhile == Program(<<
    Skip, If(8), Assign("y", "x"), Assign("x", "1"), If(3), Check("y", "1"), Goto(2),
    Assign("y", "x"), End>>)

(* while(?) x = 1; while(?) { y = x; x = 2; } assert(y != 1);               *)
TwoLoops == Program(<<
    Skip, If(5), Assign("x", "1"), Goto(2),
    If(9), Assign("y", "x"), Assign("x", "2"), Goto(5), Check("y", "1"), End>>)

(* if(?) x = 1; for(;;) { if(?) break; x = 2; } assume(x == 2);             *)
SkipTarget == Program(<<
    If(3), Assign("x", "1"), Skip, If(7), Assign("x", "2"), Goto(3),
    Assume("x", "2"), Check("x", "1"), End>>)

(* do { while(?) x = 1; } while(?); while(?) y = x;                         *)
LoopAfterInnerLoop == Program(<<
    Skip, If(5), Assign("x", "1"), Goto(2), If(1),
    If(9), Assign("y", "x"), Goto(6), End>>)

(* x = 1; assert(x != 2);                                                   *)
Straight == Program(<<Assign("x", "1"), Check("x", "2"), End>>)

LoopShapes == {While, DoWhile, BreakContinue, NestedWhile, DoWhileInWhile, TwoLoops, SkipTarget}
OneLoop == {While, DoWhile, BreakContinue, SkipTarget}

(* y = 1; while(y != 3) y = (y == 1) ? 2 : 3; while(?) assert(y != 3);      *)
SecondLoopFails == Program(<<
    Assign("y", "1"), IfIs("y", "3", 8), IfIs("y", "1", 6), Assign("y", "3"), Goto(7),
    Assign("y", "2"), Goto(2), If(11), Check("y", "3"), Goto(8), End>>)

(* The forward control-flow graphs of four instructions.                    *)
Flows ==
    {Program(s \o <<End>>) : s \in
        {<<a, b, c, d>> : a \in Simple \cup {If(t) : t \in 3..5}, b \in Simple \cup {If(4), If(5)},
                          c \in Simple \cup {If(5)}, d \in Simple}}

(* A while and a do-while loop around two instructions, which may break     *)
(* (go to 6) or continue (go to 5).                                         *)
LoopFlows ==
    {Program(<<h, Skip, a, b, e, Assign("y", "x"), End>>) :
        h \in {Assign("x", "2")}, a \in Simple \cup {If(5), If(6)}, b \in Simple \cup {If(6)}, e \in {Goto(2), If(2)}}

(* x = 1; while(v != a) { s t }, and the same as a do-while loop.           *)
Counting ==
    UNION {{Program(<<Assign("x", "1"), IfIs(v, a, 6), s, t, Goto(2), End>>),
            Program(<<Assign("x", "1"), s, t, IfIs(v, a, 2), End>>)} :
        v \in MCVar, a \in {"1", "2"}, s \in Simple, t \in Simple \cup {Assign("x", "y")}}

(* y = 1; while(y != 3) { x = 1; while(x != y) x = 2; assert(x != a); y = 2; } *)
NestedCounting ==
    {Program(<<
        Assign("y", "1"), IfIs("y", "3", 10), Assign("x", "1"), IfIs("x", b, 7), Assign("x", "2"),
        Goto(4), Check("x", a), Assign("y", c), Goto(2), End>>) :
            a \in {"1", "3"}, b \in {"1", "2", "3"}, c \in {"2", "3"}}

(* The first of two loops, the second.                                      *)
OneAfterTheOther ==
    {Program(<<
        Assign("y", "1"), IfIs("y", a, 6), Assign("x", "2"), Assign("y", "x"), Goto(2),
        IfIs("x", b, 9), Assign("x", "1"), Goto(6), End>>) : a, b \in {"1", "2", "3"}}

(* y = 1; while(y != 0) y = y == 1 ? 2 : y == 2 ? 3 : 1;                    *)
Rotating == Program(<<
    Assign("y", "1"), IfIs("y", "0", 11), IfIs("y", "1", 7), IfIs("y", "2", 9),
    Assign("y", "1"), Goto(10), Assign("y", "2"), Goto(10), Assign("y", "3"), Goto(2), End>>)

(* y = 1; for(;;) { x = y; while(y != 1) x = 3; y = 2; }                    *)
StuckInside == Program(<<
    Assign("y", "1"), Assign("x", "y"), IfIs("y", "1", 6), Assign("x", "3"), Goto(3),
    Assign("y", "2"), Goto(2), End>>)

ToEnd(sources) ==
    [source : sources, mode : {"BMC"}, independent : {FALSE}, nontermination : {TRUE},
     unwind : {3}]

MCFunctions ==
    [source : LoopShapes, mode : {"NORMAL"}, independent : BOOLEAN, nontermination : {FALSE}, unwind : {2}]
    \cup [source : OneLoop, mode : {"BMC", "K_INDUCTION"}, independent : {FALSE}, nontermination : {FALSE}, unwind : {2}]
    \cup [source : Flows \cup LoopFlows, mode : {"NORMAL"}, independent : {TRUE}, nontermination : {FALSE}, unwind : {2}]
    \cup ToEnd(LoopShapes \cup Counting \cup NestedCounting \cup OneAfterTheOther
               \cup {Rotating, StuckInside, Straight})

MCSecondLoopFails == [source : {SecondLoopFails}, mode : {"BMC"}, independent : {FALSE}, nontermination : {FALSE}, unwind : {2}]
MCLoopAfterInnerLoop == [source : {LoopAfterInnerLoop}, mode : {"NORMAL"}, independent : {FALSE}, nontermination : {FALSE}, unwind : {2}]
=============================================================================
