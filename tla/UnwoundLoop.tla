----------------------------- MODULE UnwoundLoop -----------------------------
(***************************************************************************)
(* What the SSA of a (fully inlined) function with one loop means after    *)
(* ssa_local_unwindert has unwound it k times.                             *)
(*                                                                         *)
(* The unwound SSA holds the copies %k, ..., %1, %0 of the loop body; a    *)
(* connector takes the end of copy %i to the head of copy %(i-1), so %k is *)
(* executed first and %0 last.  Only the head of %k has a phi node: its    *)
(* loop select picks either the value on entry to the loop or the          *)
(* loop-back variable, a value constrained by nothing but the loop         *)
(* invariant.  A model of the formula is therefore a window of at most k+1 *)
(* consecutive iterations that starts on entry or at a loop-back value.    *)
(*                                                                         *)
(* A program is abstracted to the values of its variables at the loop      *)
(* head: init on entry, next[s] after one iteration from s ({} if the loop *)
(* is left from s), bad[p] where assertion p fails when the iteration (or, *)
(* for p in AfterLoop, the code behind the loop) runs from s, and whether  *)
(* the loop is a do-while loop.                                            *)
(***************************************************************************)
EXTENDS Integers, PropertyMap, ParseOptions

CONSTANTS
    State,      \* the values of the variables at the loop head
    AfterLoop   \* the assertions behind the loop; the others are in its body

ASSUME LoopAssumption == AfterLoop \subseteq Property

Program ==
    {prog \in [init : SUBSET State, next : [State -> SUBSET State],
               bad : [Property -> SUBSET State], dowhile : BOOLEAN] :
        \A p \in AfterLoop : \A s \in prog.bad[p] : prog.next[s] = {}}

-----------------------------------------------------------------------------
(* The unwound formula.                                                    *)

(* unwinder_modet, set by the checker.                                     *)
Mode == CASE Checker = "ai" -> "NORMAL"
          [] Checker = "kind" -> "K_INDUCTION"
          [] Checker = "bmc" -> "BMC"

(* The copy that the j-th iteration of a window runs in.                   *)
CopyOf(k, j) == k + 1 - j

(* is_last: in a while loop %1 counts as last too, because the loop is     *)
(* left at the head of the next copy.                                      *)
IsLast(prog, copy) == copy = 0 \/ (~prog.dowhile /\ copy = 1)

(* add_assertions keeps the assertions of the last copies only, except in  *)
(* NORMAL mode; those behind the loop are never copied.                    *)
Asserted(prog, p, copy) == p \in AfterLoop \/ Mode = "NORMAL" \/ IsLast(prog, copy)

(* Assertions are hoisted from behind the exit of a while loop; the target *)
(* recorded for the exit of a do-while loop is the loop's own head.        *)
Hoisted(prog) == IF prog.dowhile THEN {} ELSE AfterLoop

(* The assertions turned into constraints: in K_INDUCTION mode those of    *)
(* the copies that are not last, with the hoisted ones; in BMC mode those  *)
(* of the body in copy %k, and only from entry (the select guarding the    *)
(* constraint of an older copy is no longer used).                         *)
Assumed(prog, p, copy, k, entered) ==
    /\ ~IsLast(prog, copy)
    /\ \/ Mode = "K_INDUCTION" /\ p \in (Property \ AfterLoop) \cup Hoisted(prog)
       \/ Mode = "BMC" /\ p \notin AfterLoop /\ copy = k /\ entered

Consecutive(prog, w) == \A j \in DOMAIN w : (j + 1) \in DOMAIN w => w[j + 1] \in prog.next[w[j]]

(* Every iteration runs until the loop is left or the copies run out.      *)
Windows(prog, k, start) ==
    UNION {{w \in [1..n -> State] :
                /\ w[1] \in start
                /\ Consecutive(prog, w)
                /\ n = k + 1 \/ prog.next[w[n]] = {}} : n \in 1..(k + 1)}

Admitted(prog, k, entered, w) ==
    \A j \in DOMAIN w : \A p \in Property :
        Assumed(prog, p, CopyOf(k, j), k, entered) => w[j] \notin prog.bad[p]

EntryWindows(prog, k) == {w \in Windows(prog, k, prog.init) : Admitted(prog, k, TRUE, w)}
LoopBackWindows(prog, k, inv) == {w \in Windows(prog, k, inv) : Admitted(prog, k, FALSE, w)}

Violations(prog, k, w) ==
    {p \in Property : \E j \in DOMAIN w :
        Asserted(prog, p, CopyOf(k, j)) /\ w[j] \in prog.bad[p]}

(* The models of the formula, as check_properties reads them.              *)
UnwoundModels(prog, k, inv) ==
    {[viol |-> Violations(prog, k, w), inv |-> FALSE] : w \in EntryWindows(prog, k)}
    \cup
    {[viol |-> Violations(prog, k, w), inv |-> TRUE] : w \in LoopBackWindows(prog, k, inv)}

AfterWindows(prog, k, W) == UNION {prog.next[w[k + 1]] : w \in {v \in W : DOMAIN v = 1..(k + 1)}}

(* get_loop_continues: the back edge of copy %0 is taken.                  *)
ContinuesFromAnywhere(prog, k) == AfterWindows(prog, k, LoopBackWindows(prog, k, State)) # {}
Continues(prog, k) == AfterWindows(prog, k, EntryWindows(prog, k)) # {}

UnwoundFormula(prog, k, inv) ==
    [models |-> UnwoundModels(prog, k, inv), continues |-> Continues(prog, k)]

(* What the inference may return for the loop: the template relates the    *)
(* loop-back value at the head of %k (pre) with the value at the end of %0 *)
(* (post), get_pre_var and get_pre_post_guards.                            *)
LoopBackValues(prog, k, inv) ==
    AfterWindows(prog, k, EntryWindows(prog, k) \cup LoopBackWindows(prog, k, inv))

Invariants(prog, k, Template) ==
    {inv \in Template : LoopBackValues(prog, k, inv) \subseteq inv}

-----------------------------------------------------------------------------
(* The program itself.                                                     *)

Closure(start, Succ(_)) ==
    {s \in State : \A S \in SUBSET State :
        (start \subseteq S /\ \A u \in S : Succ(u) \subseteq S) => s \in S}

(* The loop-head states of the executions.                                 *)
Reachable(prog) == LET Succ(s) == prog.next[s] IN Closure(prog.init, Succ)

Clean(prog, s) == \A p \in Property : s \notin prog.bad[p]

(* Those up to and including the first failing assertion of an execution.  *)
ReachableCleanly(prog) ==
    LET Succ(s) == IF Clean(prog, s) THEN prog.next[s] ELSE {}
    IN  Closure(prog.init, Succ)

Correct(prog) == \A s \in Reachable(prog) : Clean(prog, s)

(* No execution violates an assertion in its first k + 1 iterations.       *)
SafeUpTo(prog, k) == \A w \in Windows(prog, k, prog.init) : \A j \in DOMAIN w : Clean(prog, w[j])

(* Every execution leaves the loop within k + 1 visits of its head.        *)
LoopsBoundedBy(prog, k) ==
    \A w \in Windows(prog, k, prog.init) : prog.next[w[Cardinality(DOMAIN w)]] = {}
=============================================================================
