--------------------------- MODULE MCLoopPrograms ---------------------------
(* Programs over one variable with the values 0..Top, entered with 0; one   *)
(* assertion p in the loop and one, q, behind it.                           *)
EXTENDS Integers, TLC

CONSTANTS Top, p, q

Values == 0..Top

Intervals == {lo..hi : lo \in Values, hi \in Values}

(* A finer domain: the intervals with one value left out.                   *)
Zones == Intervals \cup {I \ {v} : I \in Intervals, v \in Values}

MCTemplate == [d \in {"intervals", "zones"} |-> IF d = "zones" THEN Zones ELSE Intervals]

AtMostOne(S) == {{}} \cup {{x} : x \in S}

(* Programs that stay below some bound.  Behind the loop means: at a state  *)
(* from which the loop is left.                                             *)
ProgramsWith(Successors, bound, dowhile) ==
    LET Below == 0..bound
        Rest == {s \in Values : s > bound}
    IN  {g \in {[init |-> {0}, next |-> n @@ [s \in Rest |-> {}],
                 bad |-> p :> P @@ q :> Q, dowhile |-> dowhile] :
                  n \in [Below -> Successors], P \in AtMostOne(Below), Q \in AtMostOne(Below)} :
            \A s \in g.bad[q] : g.next[s] = {}}

DeterministicPrograms(bound, dowhile) == ProgramsWith(AtMostOne(0..bound), bound, dowhile)

NondeterministicPrograms(bound, dowhile) == ProgramsWith(SUBSET (0..bound), bound, dowhile)
=============================================================================
