------------------------ MODULE MCTerminationArguments ------------------------
(* Termination arguments for the formulas of MCStrategySystems (one loop    *)
(* over x), for loops over two variables, and for two loops in a row.       *)
EXTENDS TerminationArgument, MCStrategySystems

(* The heuristics name 0, 1, 2, and values beside the ends of the type.     *)
MCProbes == {-Max, 0, 1, 2, Max - 1, Max} \cap (Min..Max)

MCCommandLines ==
    {[flags |-> {}, unwind |-> 0], [flags |-> {"enum-solver"}, unwind |-> 0]}

MCCoeffBound == [n \in 0..2 |-> IF n < 2 THEN 1 ELSE 2]

-----------------------------------------------------------------------------
(* A loop over x and y, entered with the first value of the first step; the *)
(* rows 1 and 2 are x and y.                                                *)
Both(p) == 1 :> p[1] @@ 2 :> p[2] @@ 3 :> 0 @@ 4 :> 0

Going(on, p, q) == [on |-> on, at |-> Both(p), off |-> {1, 2}, to |-> Both(q)]

Steps(T) == {<<T[i], T[i + 1]>> : i \in {i \in DOMAIN T : i + 1 \in DOMAIN T}}
PairSystem(T) ==
    UNION {{Going({1, 2, 4}, t[1], t[2])} \cup (IF t[1] = T[1] THEN {Going({4}, <<0, 0>>, t[2])} ELSE {}) :
        t \in Steps(T)}

(* Paths of values: y counts down, x and y in turns, x counts down and y is *)
(* set anew, the same with a step back, and one that only 2x + y ranks.     *)
PairPaths ==
    {<< <<1, 2>>, <<1, 1>>, <<1, 0>> >>, << <<1, 1>>, <<0, 1>>, <<0, 0>> >>,
     << <<1, 0>>, <<0, 2>>, <<0, 1>>, <<0, 0>> >>, << <<1, 1>>, <<0, 2>>, <<0, 1>>, <<0, 0>> >>,
     << <<1, 0>>, <<0, 2>>, <<1, 0>> >>, << <<2, 1>>, <<1, 1>>, <<1, 0>>, <<0, 1>> >>}

-----------------------------------------------------------------------------
(* A loop over x, then one over y, both from 1; x is row 1 and y row 2.     *)
Rows2(x, y) == 1 :> x @@ 2 :> y @@ 3 :> 0 @@ 4 :> 0
Model2(on, x, y, off, t) ==
    [on |-> on, at |-> Rows2(x, y), off |-> off, to |-> Rows2(t, t)]

LoopSystem(next, line) ==
    {Model2({4}, 0, 0, {line}, t) : t \in next[1]}
    \cup UNION {{Model2({line, 4}, v, v, {line}, t) : t \in next[v]} : v \in Values}

(* The second loop is reached when the first one is left.                   *)
TwoLoops(first, second) ==
    IF \A v \in Values : first[v] # {} THEN LoopSystem(first, 1)
    ELSE LoopSystem(first, 1) \cup LoopSystem(second, 2)

Down == [v \in Values |-> IF v = 0 THEN {} ELSE {v - 1}]
Loop == {Down, [v \in Values |-> IF v = Top THEN {} ELSE {v + 1}],
         [v \in Values |-> {v}], [v \in Values |-> IF v = 1 THEN {0, 2} ELSE {}],
         [v \in Values |-> IF v = Top THEN {Top} ELSE {}]}

(* while(x) x--; while(?);                                                  *)
IdleLoop == LoopSystem(Down, 1) \cup {[Model2({4}, 0, 0, {}, 0) EXCEPT !.at = Rows2(v, v)] : v \in {0}}

-----------------------------------------------------------------------------
PairSystems == {PairSystem(T) : T \in PairPaths}
LoopPairs == {TwoLoops(f, g) : f, g \in Loop}

MCSystems == EntrySystems \cup PairSystems \cup LoopPairs
IdleOnly == {IdleLoop}

LoopsOf(S) ==
    CASE S \in PairSystems -> "xy" :> {1, 2}
      [] S \in LoopPairs -> "x" :> {1} @@ "y" :> {2}
      [] S = IdleLoop -> "x" :> {1} @@ "idle" :> {}
      [] OTHER -> "x" :> {1}

(* An iteration that does not come from a loop-back value comes from entry. *)
IterationOf(m, l, rows, first) ==
    [model |-> m, loop |-> l, entered |-> m.on \cap rows = {},
     pre |-> [r \in rows |-> IF r \in m.on THEN m.at[r] ELSE first[r]],
     post |-> [r \in rows |-> m.to[r]]]

FirstOf(S) ==
    IF S \in PairSystems THEN Both((CHOOSE T \in PairPaths : PairSystem(T) = S)[1])
    ELSE Rows2(1, 1)

IterationsOf(S) ==
    UNION {{IterationOf(m, l, LoopsOf(S)[l], FirstOf(S)) :
                m \in {m \in S : IF LoopsOf(S)[l] = {} THEN m.off = {}
                                 ELSE m.off # {} /\ LoopsOf(S)[l] \subseteq m.off}} :
            l \in DOMAIN LoopsOf(S)}

=============================================================================
