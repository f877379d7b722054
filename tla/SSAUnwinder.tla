----------------------------- MODULE SSAUnwinder -----------------------------
(***************************************************************************)
(* ssa_local_unwindert: the SSA of a function with any number of loops,    *)
(* nested or one after the other, unwound round by round.                  *)
(*                                                                         *)
(* The copies of a loop body are told apart by their odometer, the indices *)
(* of the copy in every enclosing loop, outermost first.  With k           *)
(* unwindings a loop has the copies %k, ..., %0; %k is executed first.     *)
(* unwind() goes over them recursively and adds, in round k, those with k  *)
(* somewhere in the odometer; here they are added by comprehension.        *)
(***************************************************************************)
EXTENDS LocalSSA

VARIABLES
    mode,       \* unwinder_modet (does not change)
    current     \* current_unwinding

CONSTANT MaxUnwind  \* the last round looked at

unwinderVars == <<ssaVars, mode, current>>

-----------------------------------------------------------------------------
(* build_loop_tree, compute_loop_hierarchy.  A loop is known by its        *)
(* backward goto.                                                          *)

Loops == {e \in Loc : IsBack(e)}
HeadOf(e) == goto[e].to
Span(e) == HeadOf(e)..e
Around(l) == {e \in Loops : l \in Span(e)}
Level(l) == Cardinality(Around(l))
LoopAt(l, d) == CHOOSE e \in Around(l) : Cardinality({f \in Around(l) : f >= e}) = d
LoopOf(l) == Min(Around(l))
Body(e) == {l \in Span(e) : LoopOf(l) = e}
Depth(e) == Level(e)
IsRoot(e) == Depth(e) = 1
IsDoWhile(e) == ~Always(goto[e])

(* get_def_level: how much of the odometer a name defined at def carries   *)
(* when it is used at l; a definition in another loop is used as merged    *)
(* behind that loop.                                                       *)
DefLevelUnmerged(def, l) == IF def = 0 THEN 0 ELSE Level(def)
DefLevel(def, l) ==
    IF def = 0 \/ Around(def) = {} THEN 0
    ELSE IF Around(l) # {} /\ LoopOf(def) \notin Around(l) THEN Level(def) - 1
    ELSE Level(def)

-----------------------------------------------------------------------------
(* rename.                                                                 *)

Prefix(o, n) == SubSeq(o, 1, IF n < Len(o) THEN n ELSE Len(o))
Parent(o) == Prefix(o, Len(o) - 1)

(* The odometer with its last index decremented.                           *)
Successor(o) == [o EXCEPT ![Len(o)] = @ - 1]

Renamed(n, l, o) ==
    IF n.loc = 0 THEN n
    ELSE [n EXCEPT !.odo = IF n.obj = "$nondet" THEN o ELSE Prefix(o, DefLevel(n.loc, l))]

RenamedLiterals(L, l, o) == {<<Renamed(lit[1], l, o), lit[2]>> : lit \in L}
RenamedOperand(x, l, o) == [x EXCEPT !.name = Renamed(@, l, o)]
RenamedEquation(e, l, o) ==
    Equation(Renamed(e.lhs, l, o),
             MapSeq(e.alts, LAMBDA a : Alternative(RenamedLiterals(a.when, l, o),
                                                   RenamedOperand(a.is, l, o))))
RenamedAssertion(a, l, o) ==
    [if |-> RenamedLiterals(a.if, l, o), then |-> RenamedOperand(a.then, l, o)]

-----------------------------------------------------------------------------
(* What build_pre_post_map and build_exit_conditions find in a loop.       *)

Modified(e) == DOMAIN phis[HeadOf(e)]

Post(e, v) == Read(v, e)

Exits(e) ==
    {l \in Body(e) : IsGoto(goto[l]) /\ (goto[l].to > e \/ (l = e /\ IsDoWhile(e)))}
ExitCondition(e, l) == {Is(Guard(l)), IF l = e THEN IsNot(Cond(l)) ELSE Is(Cond(l))}

(* The names needed behind exit l, each with the conditions of the exits   *)
(* it is needed behind.                                                    *)
ExitNames(e, l) == {Guard(l), Cond(l)} \cup {Read(v, l) : v \in Modified(e)}
ExitConditions(e, n) == {ExitCondition(e, l) : l \in {l \in Exits(e) : n \in ExitNames(e, l)}}

(* The assertions at the target of an exit and behind it, up to the next   *)
(* loop, if the target is outside of all loops.                            *)
HoistedFrom(t) ==
    {l \in Loc : l >= t /\ goto[l].op = "assert" /\ \A m \in t..l : Around(m) = {}}
HoistingTargets(e) == IF IsRoot(e) THEN {goto[l].to : l \in Exits(e)} ELSE {}
HoistedExits(e, t) ==
    UNION {ExitCondition(e, l) : l \in {l \in Exits(e) : goto[l].to = t}}

-----------------------------------------------------------------------------
(* The nodes added for copy o of loop e.                                   *)

NodeOf(l, round, equations, constraints, assertions) ==
    [loc |-> l, round |-> round, equations |-> equations,
     constraints |-> constraints, assertions |-> assertions]

(* add_loop_body: all but the head.                                        *)
BodyCopy(e, o) ==
    {NodeOf(l, -1, {RenamedEquation(q, l, o) : q \in Node(l).equations}, {}, {}) :
        l \in {l \in Body(e) \ {HeadOf(e)} : Node(l).equations # {}}}

(* add_loop_head: the phi nodes that choose between entry and loop-back    *)
(* values, for this round.                                                 *)
HeadCopyForever(e, o, k) ==
    {NodeOf(HeadOf(e), -1, {RenamedEquation(q, HeadOf(e), o) : q \in Node(HeadOf(e)).equations}, {}, {})}
HeadCopy(e, o, k) ==
    {NodeOf(HeadOf(e), k, {RenamedEquation(q, HeadOf(e), o) : q \in Node(HeadOf(e)).equations}, {}, {})}

(* add_loop_connector: from the end of copy o to the head of the next.     *)
ConnectedPhi(e, q, o) ==
    Equation(Renamed(q.lhs, HeadOf(e), Successor(o)),
             <<Alternative({}, Of(Renamed(Post(e, q.lhs.obj), HeadOf(e), o)))>>)
Connector(e, o) ==
    LET head == Node(HeadOf(e)).equations
        selecting == {q \in head : q.lhs.obj # "$guard" /\ Len(q.alts) > 1}
        others == {q \in head : q.lhs.obj # "$guard" /\ Len(q.alts) = 1}
    IN  {NodeOf(HeadOf(e), -1,
            {ConnectedPhi(e, q, o) : q \in selecting}
            \cup {RenamedEquation(q, HeadOf(e), Successor(o)) : q \in others}
            \cup {Disjunction(Renamed(Guard(HeadOf(e)), HeadOf(e), Successor(o)),
                              {RenamedLiterals({Is(Guard(e)), Is(Cond(e))}, HeadOf(e), o)})},
            {}, {})}

(* is_last: in a while loop %1 counts as last too.                         *)
IsLastNever(e, o) == FALSE
IsLast(e, o) == o[Len(o)] = 0 \/ (~IsDoWhile(e) /\ o[Len(o)] = 1)

(* add_assertions: in the copies that are not last the assertions become   *)
(* assumptions; BMC assumes them on the way from the entry only.           *)
Entered(e, l, o) == {IsNot(Renamed(LoopSelect(e), l, o))}
AssertionCopyWith(e, o, kept) ==
    {LET a == {RenamedAssertion(b, l, o) : b \in Node(l).assertions}
         assumed == CASE IsLast(e, o) \/ mode = "NORMAL" -> {}
                      [] mode = "K_INDUCTION" -> a
                      [] mode = "BMC" -> {[b EXCEPT !.if = @ \cup Entered(e, l, o)] : b \in a}
     IN  NodeOf(l, -1, {}, assumed, IF kept THEN a ELSE {}) :
        l \in {l \in Body(e) : Node(l).assertions # {}}}
AssertionCopyInAnyMode(e, o) == AssertionCopyWith(e, o, IsLast(e, o))
AssertionCopy(e, o) == AssertionCopyWith(e, o, IsLast(e, o) \/ mode = "NORMAL")

(* add_hoisted_assertions, if the target is an instruction with a          *)
(* condition.  All exits to the target together make the premise.          *)
HoistedAssertions(e, o) ==
    IF IsLast(e, o) \/ mode # "K_INDUCTION" THEN {}
    ELSE {NodeOf(t, -1, {},
              {[b EXCEPT !.if = @ \cup RenamedLiterals(HoistedExits(e, t), HeadOf(e), o)] :
                  b \in UNION {Node(l).assertions : l \in HoistedFrom(t)}}, {}) :
              t \in {t \in HoistingTargets(e) :
                        HoistedFrom(t) # {} /\ goto[t].op \in {"goto", "assume", "assert"}}}

(* add_exit_merges: what a name of the loop is behind the loop, in the     *)
(* copy parent of the enclosing loops: the one of the copy that was left,  *)
(* through whichever exit.                                                 *)
ExitMerge(e, n, parent, k) ==
    LET In(i) == Renamed(n, HeadOf(e), Append(parent, i))
        conditions == SetToSeq(ExitConditions(e, n))
        m == Len(conditions)
        Left(i, c) == Alternative(RenamedLiterals(c, HeadOf(e), Append(parent, i)), Of(In(i)))
    IN  Equation(Renamed(n, HeadOf(e), parent),
                 <<Alternative({}, Of(In(0)))>>
                 \o [j \in 1..(k * m) |-> Left(((j - 1) \div m) + 1, conditions[((j - 1) % m) + 1])])
ExitMerges(e, parent, k) ==
    {NodeOf(HeadOf(e), k,
        {ExitMerge(e, n, parent, k) : n \in UNION {ExitNames(e, l) : l \in Exits(e)}}, {}, {})}

-----------------------------------------------------------------------------
Odometers(d, k) == [1..d -> 0..k]
Added(d, k) == {o \in Odometers(d, k) : \E i \in 1..d : o[i] = k}

CopyNodes(e, o) ==
    BodyCopy(e, o)
    \cup (IF o[Len(o)] > 0 THEN Connector(e, o) ELSE {})
    \cup AssertionCopy(e, o)
    \cup HoistedAssertions(e, o)

(* unwind(k), for all loops.                                               *)
NodesAdded(k) ==
    UNION {(UNION {CopyNodes(e, o) : o \in Added(Depth(e), k)})
           \cup UNION {HeadCopy(e, Append(p, k), k) \cup ExitMerges(e, p, k) :
                        p \in Odometers(Depth(e) - 1, k)} : e \in Loops}

(* init: the nodes inside loops are taken out of the SSA.                  *)
UnwinderInit ==
    /\ stage = "built"
    /\ nodes' = {n \in nodes : Around(n.loc) = {}} \cup NodesAdded(0)
    /\ current' = 0
    /\ stage' = "unwound"
    /\ UNCHANGED <<goto, defs, phis, work, mode>>

Unwind ==
    /\ stage = "unwound" /\ current < MaxUnwind
    /\ nodes' = nodes \cup NodesAdded(current + 1)
    /\ current' = current + 1
    /\ UNCHANGED <<goto, defs, phis, work, stage, mode>>

-----------------------------------------------------------------------------
(* The formula: the nodes that are always enabled and those of the last    *)
(* round (get_enabling_exprs).                                             *)
Enabled == {n \in nodes : n.round \in {-1, current}}
Equations == UNION {n.equations : n \in Enabled}

(* loop_continuation_conditions.                                           *)
ContinuationConditionsFirst ==
    UNION {{RenamedLiterals({Is(Guard(e)), Is(Cond(e))}, e, Append(p, current)) :
                p \in Odometers(Depth(e) - 1, current)} : e \in Loops}
ContinuationConditions ==
    UNION {{RenamedLiterals({Is(Guard(e)), Is(Cond(e))}, e, Append(p, 0)) :
                p \in Odometers(Depth(e) - 1, current)} : e \in Loops}

(* get_loophead_selects: the execution starts at the entry.                *)
LoopheadSelects ==
    UNION {{[LoopSelect(e) EXCEPT !.odo = Append(p, current)] :
                p \in Odometers(Depth(e) - 1, current)} : e \in Loops}
=============================================================================
