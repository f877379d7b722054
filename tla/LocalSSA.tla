------------------------------- MODULE LocalSSA -------------------------------
(***************************************************************************)
(* local_SSAt: the SSA form of a function.  A forward data-flow analysis   *)
(* (ssa_ait with ssa_domaint) finds for every location the definition each *)
(* variable has there and the phi nodes; from these and from the guard map *)
(* every instruction gets a node with its equations.                       *)
(*                                                                         *)
(* A name is a variable (or $guard, $cond) with the kind and the location  *)
(* of its definition and, once loops are unwound, its suffix: the indices  *)
(* %i of the loop copies, outermost first.  The right-hand side of an      *)
(* equation is a list of alternatives, each with the literals it needs;    *)
(* the last one whose literals hold is the value.                          *)
(***************************************************************************)
EXTENDS GotoProgram, FiniteSetsExt

VARIABLES
    goto,       \* the function, after the passes (does not change)
    defs,       \* ssa_domaint::def_map at every location
    phis,       \* ssa_domaint::phi_nodes at every location
    work,       \* the locations whose successors are to be looked at (again)
    nodes,      \* the nodes of the SSA
    stage       \* "analyse", "built", then what comes after

ssaVars == <<goto, defs, phis, work, nodes, stage>>

Loc == DOMAIN goto
IsBack(l) == IsGoto(goto[l]) /\ goto[l].to <= l
Next(l) ==
    (IF IsGoto(goto[l]) THEN {goto[l].to} ELSE {})
    \cup (IF goto[l].op = "end" \/ (IsGoto(goto[l]) /\ Always(goto[l])) THEN {} ELSE {l + 1})

Empty == [x \in {} |-> {}]

-----------------------------------------------------------------------------
(* ssa_ait.                                                                *)

InputDef == [kind |-> "in", loc |-> 0]

EntryDefs == [v \in Var |-> [def |-> InputDef, source |-> 1]]

(* transform: what an instruction makes of the definitions before it.      *)
TransformAll(l) ==
    [v \in DOMAIN defs[l] \cup {goto[l].lhs} |->
        [def |-> IF v = goto[l].lhs THEN [kind |-> "out", loc |-> l] ELSE defs[l][v].def,
         source |-> l]]
Transform(l) ==
    LET kept == DOMAIN defs[l] \ (IF goto[l].op = "dead" THEN {goto[l].lhs} ELSE {})
        assigned == IF goto[l].op \in {"assign", "decl"} THEN {goto[l].lhs} ELSE {}
    IN  [v \in kept \cup assigned |->
            [def |-> IF v \in assigned THEN [kind |-> "out", loc |-> l] ELSE defs[l][v].def,
             source |-> l]]

(* merge at t, for a variable v that b defines.                            *)
Conflict(t, b, v) ==
    /\ v \in DOMAIN defs[t] /\ v \notin DOMAIN phis[t]
    /\ defs[t][v].def # b[v].def
    /\ defs[t][v].source # b[v].source

MergedDef(t, b, v) ==
    CASE v \notin DOMAIN b \/ v \in DOMAIN phis[t] -> defs[t][v]
      [] v \notin DOMAIN defs[t] -> b[v]
      [] Conflict(t, b, v) -> [def |-> [kind |-> "phi", loc |-> t], source |-> t]
      [] OTHER -> [defs[t][v] EXCEPT !.def = b[v].def]

MergedDefs(t, b) ==
    [v \in DOMAIN defs[t] \cup (DOMAIN b \ DOMAIN phis[t]) |-> MergedDef(t, b, v)]

PhiEntry(d) == [s \in {d.source} |-> d.def]
Updated(f, g) == [x \in DOMAIN f \cup DOMAIN g |-> IF x \in DOMAIN g THEN g[x] ELSE f[x]]

MergedPhis(t, b) ==
    [v \in DOMAIN phis[t] \cup {v \in DOMAIN b : Conflict(t, b, v)} |->
        IF v \notin DOMAIN phis[t] THEN Updated(PhiEntry(defs[t][v]), PhiEntry(b[v]))
        ELSE IF v \in DOMAIN b THEN Updated(phis[t][v], PhiEntry(b[v]))
        ELSE phis[t][v]]

AnalysisInit ==
    /\ defs = [l \in Loc |-> IF l = 1 THEN EntryDefs ELSE Empty]
    /\ phis = [l \in Loc |-> Empty]
    /\ work = {1}
    /\ nodes = {}
    /\ stage = "analyse"

(* merge returns whether something is to be passed on: a changed           *)
(* definition is, a phi node that grows is not.                            *)
ChangedByAnyDef(l, t, b) == l = 1 \/ DOMAIN b # {}
Changed(l, t, b) == l = 1 \/ MergedDefs(t, b) # defs[t]

(* The fixpoint iteration takes the locations in their order.              *)
Visit ==
    /\ stage = "analyse" /\ work # {}
    /\ LET l == Min(work)
           b == Transform(l)
       IN  /\ defs' = [t \in Loc |-> IF t \in Next(l) THEN MergedDefs(t, b) ELSE defs[t]]
           /\ phis' = [t \in Loc |-> IF t \in Next(l) THEN MergedPhis(t, b) ELSE phis[t]]
           /\ work' = (work \ {l}) \cup {t \in Next(l) : Changed(l, t, b)}
    /\ UNCHANGED <<goto, nodes, stage>>

-----------------------------------------------------------------------------
(* guard_mapt.                                                             *)

Blocks(l) == goto[l].op \in {"assume", "call"}

HasGuard(l) ==
    \/ l = 1
    \/ \E g \in Loc : IsGoto(goto[g]) /\ l \in {goto[g].to, g + 1}
    \/ Blocks(l - 1)

(* The location whose guard the instruction at l runs under.               *)
GuardSource(l) == Max({g \in 1..l : HasGuard(g)})

-----------------------------------------------------------------------------
(* Names and expressions.                                                  *)

Name(obj, kind, loc) == [obj |-> obj, kind |-> kind, loc |-> loc, odo |-> <<>>]

Guard(l) == Name("$guard", "out", GuardSource(l))
Cond(l) == Name("$cond", "out", l)
LoopSelect(l) == Name("$guard", "ls", l)

(* read_rhs.                                                               *)
Read(v, l) ==
    IF v \in DOMAIN defs[l] THEN Name(v, defs[l][v].def.kind, defs[l][v].def.loc)
    ELSE Name(v, "in", 0)

True == "true"
False == "false"

(* What an operand is replaced by: a value, or the name that holds it.     *)
Const(v) == [name |-> Name("", "", 0), val |-> v, in |-> {}]
Of(n) == [name |-> n, val |-> "", in |-> {}]
Operand(l) ==
    LET o == goto[l].rhs
    IN  CASE o = Nondet -> Of(Name("$nondet", "out", l))
          [] o \in Var -> Of(Read(o, l))
          [] OTHER -> Const(o)
Test(l) ==
    CASE Always(goto[l]) -> Const(True)
      [] Never(goto[l]) -> Const(False)
      [] OTHER -> [Operand(l) EXCEPT !.in = goto[l].holds]

Is(n) == <<n, TRUE>>
IsNot(n) == <<n, FALSE>>

Alternative(when, is) == [when |-> when, is |-> is]
Equation(lhs, alts) == [lhs |-> lhs, alts |-> alts]

(* edge_guard.                                                             *)
EdgeGuard(from, to) ==
    {Is(Guard(from))}
    \cup (CASE IsGoto(goto[from]) ->
                {IF to = goto[from].to THEN Is(Cond(from)) ELSE IsNot(Cond(from))}
            [] goto[from].op = "assume" -> {Is(Cond(from))}
            [] OTHER -> {})

-----------------------------------------------------------------------------
(* The nodes: build_transfer, build_phi_nodes, build_cond, build_guard,    *)
(* build_assertions.                                                       *)

Transfer(l) ==
    IF goto[l].op # "assign" THEN {}
    ELSE {Equation(Name(goto[l].lhs, "out", l), <<Alternative({}, Operand(l))>>)}

Ascending(S) == SetToSortSeq(S, LAMBDA a, b : a < b)
MapSeq(s, F(_)) == [i \in DOMAIN s |-> F(s[i])]

(* Forward edges come first and have the lower priority; the first of them *)
(* is the default.                                                         *)
PhiAlternatives(l, v) ==
    LET incoming == phis[l][v]
        forward == {s \in DOMAIN incoming : incoming[s].kind = "in" \/ s < l}
        Forward(s) == Alternative(EdgeGuard(s, l),
                                  Of(Name(v, incoming[s].kind, incoming[s].loc)))
        Backward(s) == Alternative({Is(LoopSelect(s))}, Of(Name(v, "lb", s)))
        alts == MapSeq(Ascending(forward), Forward)
                \o MapSeq(Ascending(DOMAIN incoming \ forward), Backward)
    IN  [alts EXCEPT ![1].when = {}]

PhiNodes(l) ==
    {Equation(Name(v, "phi", l), PhiAlternatives(l, v)) : v \in DOMAIN phis[l]}

BuildCond(l) ==
    CASE IsGoto(goto[l]) \/ goto[l].op = "assume" ->
            {Equation(Cond(l), <<Alternative({}, Test(l))>>)}
      [] goto[l].op = "call" -> {Equation(Cond(l), <<Alternative({}, Const(True))>>)}
      [] OTHER -> {}

(* The disjunction of the ways into l; a backward goto is not one.         *)
GuardSources(l) ==
    (IF l = 1 THEN {{}} ELSE {})
    \cup {{Is(Guard(g)), Is(Cond(g))} : g \in {g \in Loc : IsGoto(goto[g]) /\ goto[g].to = l /\ ~IsBack(g)}}
    \cup (IF l = 1 THEN {}
          ELSE CASE IsGoto(goto[l - 1]) /\ ~Always(goto[l - 1]) ->
                        {{Is(Guard(l - 1)), IsNot(Cond(l - 1))}}
                 [] IsGoto(goto[l - 1]) /\ Always(goto[l - 1]) -> {}
                 [] Blocks(l - 1) -> {{Is(Guard(l - 1)), Is(Cond(l - 1))}}
                 [] OTHER -> {{Is(Guard(l - 1))}})

Disjunction(lhs, sources) ==
    Equation(lhs, <<Alternative({}, Const(False))>>
                  \o MapSeq(SetToSeq(sources), LAMBDA s : Alternative(s, Const(True))))

BuildGuard(l) == IF HasGuard(l) THEN {Disjunction(Guard(l), GuardSources(l))} ELSE {}

(* guard => condition, on what the condition reads.                        *)
Assertion(l) == [if |-> {Is(Guard(l))}, then |-> Test(l)]

Node(l) ==
    [loc |-> l, round |-> -1,
     equations |-> Transfer(l) \cup PhiNodes(l) \cup BuildCond(l) \cup BuildGuard(l),
     constraints |-> {},
     assertions |-> IF goto[l].op = "assert" THEN {Assertion(l)} ELSE {}]

Build ==
    /\ stage = "analyse" /\ work = {}
    /\ nodes' = {Node(l) : l \in Loc}
    /\ stage' = "built"
    /\ UNCHANGED <<goto, defs, phis, work>>
=============================================================================
