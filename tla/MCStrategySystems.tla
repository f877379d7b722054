-------------------------- MODULE MCStrategySystems --------------------------
(* The formulas of loops over one variable x in 0..Top, for a template with *)
(* the rows x and -x of the loop, x behind the loop (OUT), and an input.    *)
EXTENDS Integers, TLC

CONSTANT Top

Values == 0..Top

MCMin == -Top
MCInRow == {4}

RowsAt(x, out) == 1 :> x @@ 2 :> -x @@ 3 :> out @@ 4 :> 0

(* One iteration from s, entered or through the loop-back value u.          *)
BackEdge(on, u, t) ==
    [on |-> on, at |-> RowsAt(u, 0), off |-> {1, 2}, to |-> RowsAt(t, 0)]

Exit(on, u, s) ==
    [on |-> on, at |-> RowsAt(u, s), off |-> {3}, to |-> RowsAt(s, s)]

IterationFrom(next, on, u, s) ==
    IF next[s] = {} THEN {Exit(on, u, s)} ELSE {BackEdge(on, u, t) : t \in next[s]}

SystemOf(next, init) ==
    UNION {IterationFrom(next, {4}, u, init) : u \in Values}
    \cup UNION {IterationFrom(next, {1, 2, 4}, s, s) : s \in Values}

(* Entered with 1, the only value from which a loop may have a choice.      *)
EntrySystems ==
    {SystemOf(next, 1) :
        next \in {n \in [Values -> SUBSET Values] :
                    \A v \in Values \ {1}, t, u \in Values : {t, u} \subseteq n[v] => t = u}}
=============================================================================
