-------------------------- MODULE MCCheckProperties --------------------------
(* Two functions, f with two assertions and g with one, and t, an assertion *)
(* of g that is trivially true; every formula they may have.                *)
EXTENDS CheckProperties, TLC

CONSTANTS f, g, a, b, c, t

MCAssertsOf == f :> {a, b} @@ g :> {c, t}
MCTrivial == {t}

ModelsOf(fun) ==
    [viol : SUBSET (MCAssertsOf[fun] \ MCTrivial) \ {{}}, inv : BOOLEAN]

MCFormulas ==
    {F \in [{f, g} -> [models : SUBSET (ModelsOf(f) \cup ModelsOf(g)), continues : BOOLEAN]] :
        \A fun \in {f, g} : F[fun].models \subseteq ModelsOf(fun)}

(* All assertions; the first failure only, with and without its trace; and  *)
(* counterexamples taken as they come.                                      *)
MCCommandLines ==
    [flags : {{}, {"stop-on-fail"}, {"stop-on-fail", "trace"}, {"no-spurious-check"}},
     unwind : {0}]
=============================================================================
