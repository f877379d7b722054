---------------------------- MODULE CallingProgram ----------------------------
(***************************************************************************)
(* A program of several functions: the models of their SSA forms, in which *)
(* a call returns anything, and the executions of the program.             *)
(*                                                                         *)
(* A function works on one value.  It makes its calls in order: before     *)
(* call i it computes prepare[value]; if the result is in when, callee is  *)
(* called with it and the value becomes what it returns.  In the end the   *)
(* function returns one of ends[value]; if there is none, it never ends.   *)
(* Its assertion stands behind the first place calls and fails when the    *)
(* value there is in bad.                                                  *)
(***************************************************************************)
EXTENDS Integers, Sequences, FiniteSets

CONSTANTS
    Fun,        \* the functions with a body
    External,   \* the functions without one, about which nothing is known
    Entry,      \* the function the program starts in
    Value       \* arguments and return values

ASSUME ProgramAssumption ==
    /\ IsFiniteSet(Fun) /\ IsFiniteSet(Value)
    /\ Value # {}
    /\ Fun \cap External = {}
    /\ Entry \in Fun

Site == [prepare : [Value -> Value], when : SUBSET Value, callee : Fun \cup External]

(* The calls of a body are numbered from 1; n is how many there are.       *)
IsBody(b) ==
    /\ DOMAIN b = {"n", "site", "place", "bad", "ends"}
    /\ b.n \in Nat
    /\ b.site \in [1..b.n -> Site]
    /\ b.place \in 0..b.n
    /\ b.bad \subseteq Value
    /\ b.ends \in [Value -> SUBSET Value]

IsProgram(P) == DOMAIN P = Fun /\ \A f \in Fun : IsBody(P[f])

-----------------------------------------------------------------------------
(* A model of a function's SSA: its argument and the value behind call i,  *)
(* for every i.                                                            *)

Behind(m, i) == IF i = 0 THEN m.arg ELSE m.ret[i]

Argument(b, m, i) == b.site[i].prepare[Behind(m, i - 1)]

Taken(b, m, i) == Argument(b, m, i) \in b.site[i].when

Models(b) ==
    {m \in [arg : Value, ret : [1..b.n -> Value]] :
        \A i \in 1..b.n : Taken(b, m, i) \/ m.ret[i] = Argument(b, m, i)}

Results(b, m) == b.ends[Behind(m, b.n)]

Fails(b, m) == Behind(m, b.place) \in b.bad

(* Where failing assertions are left out, they hide no call of b: what is  *)
(* called in spite of a failure is also called, behind the same calls,     *)
(* without one.  A body that fails without calls hides no argument either. *)
SameCalls(b, k, m, i) ==
    \A j \in 1..i : Argument(b, k, j) = Argument(b, m, j) /\ k.ret[j] = m.ret[j]

HidesNoCall(b) ==
    \A m \in Models(b) : \A i \in 1..b.n : Fails(b, m) /\ Taken(b, m, i) =>
        \E k \in Models(b) : ~Fails(b, k) /\ Taken(b, k, i) /\ SameCalls(b, k, m, i - 1)

FailsWithoutCalls(b) ==
    \A m \in Models(b) : Fails(b, m) => \A i \in 1..b.n : ~Taken(b, m, i)

-----------------------------------------------------------------------------
(* The executions, found step by step: returned holds <<f, x, y>> when f   *)
(* can return y for x, called holds <<f, x>> when f can be called with x.  *)

(* The first k calls of m are calls that can return as they do.            *)
Runs(R, b, m, k) ==
    \A i \in 1..k : Taken(b, m, i) =>
        \/ b.site[i].callee \in External
        \/ <<b.site[i].callee, Argument(b, m, i), m.ret[i]>> \in R

Returning(P, R, f) == {m \in Models(P[f]) : Runs(R, P[f], m, P[f].n)}

ReturnsFound(P, R) ==
    UNION {UNION {{f} \X {m.arg} \X Results(P[f], m) : m \in Returning(P, R, f)} : f \in Fun}

(* The calls that m makes, running at least up to them.                    *)
CallsMade(P, R, f, m) ==
    {i \in 1..P[f].n : Runs(R, P[f], m, i - 1) /\ Taken(P[f], m, i)}

CallsFound(P, C, R) ==
    {Entry} \X Value \cup
    UNION {UNION {{<<P[f].site[i].callee, Argument(P[f], m, i)>> : i \in CallsMade(P, R, f, m)} :
                    m \in {m \in Models(P[f]) : <<f, m.arg>> \in C}} : f \in Fun}

(* The assertion of f fails in an execution.                               *)
Violated(P, C, R, f) ==
    \E m \in Models(P[f]) :
        /\ <<f, m.arg>> \in C
        /\ Runs(R, P[f], m, P[f].place)
        /\ Fails(P[f], m)
=============================================================================
