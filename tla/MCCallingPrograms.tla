--------------------------- MODULE MCCallingPrograms ---------------------------
(* Programs of three functions over the values 0..Largest: main makes two   *)
(* calls, f one, g none.                                                    *)
EXTENDS Integers, TLC

CONSTANTS Largest, main, f, g, ext

Values == 0..Largest

Intervals == {{}} \cup {lo..hi : lo \in Values, hi \in Values}

ResultIntervals == {Values \X I : I \in Intervals}

(* Relational templates bound the difference of result and argument, too.   *)
Zones == {{t \in Values \X I : t[2] - t[1] \in D} :
            I \in Intervals, D \in {lo..hi : lo \in -Largest..Largest, hi \in -Largest..Largest}}

Same == [x \in Values |-> x]
Zero == [x \in Values |-> 0]
Plus == [x \in Values |-> IF x < Largest THEN x + 1 ELSE x]

Return(fun) == [x \in Values |-> {fun[x]}]
Never == [x \in Values |-> {}]
NeverFromZero == [x \in Values |-> IF x = 0 THEN {} ELSE {x}]

CallOf(callees, prepares, whens) ==
    [prepare : prepares, when : whens, callee : callees]

BodiesOf(n, sites, places, bads, ends) ==
    [n : {n}, site : [1..n -> sites], place : places, bad : bads, ends : ends]

Always == {Values}
Sometimes == {Values, {0}}

ProgramsOf(mains, fs, gs) ==
    {main :> m @@ f :> b @@ g :> c : m \in mains, b \in fs, c \in gs}

(* Every function returns, and none calls itself.                           *)
ReturningPrograms ==
    ProgramsOf(
        BodiesOf(2, CallOf({f, g}, {Zero, Plus}, Sometimes), {2}, {{Largest}}, {Return(Same)}),
        BodiesOf(1, CallOf({g, ext}, {Same, Plus}, Sometimes), {1}, {{1}}, {Return(Same)}),
        BodiesOf(0, {}, {0}, {{1}, {2}}, {Return(Same), Return(Plus)}))

(* Some calls never return.                                                 *)
HangingPrograms ==
    ProgramsOf(
        BodiesOf(2, CallOf({f, g}, {Zero, Plus}, Always), {0}, {{1}}, {Return(Same)}),
        BodiesOf(1, CallOf({g, ext}, {Same}, Sometimes), {0}, {{1}}, {Return(Same), NeverFromZero}),
        BodiesOf(0, {}, {0}, {{2}}, {Return(Plus), Never, NeverFromZero}))

(* In g the assertion always fails.                                         *)
FailingPrograms == {[P EXCEPT ![g].bad = Values] : P \in HangingPrograms}

FirstCallsWithZero(P) == P[main].site[1].prepare = Zero
SecondCallsWithZero(P) == P[main].site[2].prepare = Zero

(* Only g, which makes no call, has an assertion.                           *)
LeafAssertionOnly(P) ==
    [x \in DOMAIN P |-> IF P[x].n = 0 THEN P[x] ELSE [P[x] EXCEPT !.bad = {}]]

(* The assertion of main stands behind its calls, and fails.                *)
AssertionBehindCalls(P) == [P EXCEPT ![main].place = 2, ![main].bad = Values]

(* f calls itself or g; main calls f twice.                                 *)
CallingItself(gs) ==
    ProgramsOf(
        BodiesOf(2, CallOf({f}, {Zero, Same}, Sometimes), {2}, {{1}}, {Return(Same)}),
        BodiesOf(1, CallOf({f, g}, {Plus, Same}, {Values, {0}, {1}}), {1}, {{1}, {2}}, {Return(Same)}),
        gs)

SelfRecursivePrograms ==
    CallingItself(BodiesOf(0, {}, {0}, {{1}}, {Return(Plus)}))
=============================================================================
