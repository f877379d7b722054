--------------------------- MODULE SummaryCheckerAI ---------------------------
(***************************************************************************)
(* The abstract interpreter, summary_checker_ait, on an inlined program:   *)
(* the loop is unwound once and for all, in NORMAL mode, then summaries    *)
(* are computed and the assertions checked, a second time with zones when  *)
(* intervals have left something undecided.                                *)
(***************************************************************************)
EXTENDS SummaryCheckerBase

-----------------------------------------------------------------------------
AIInit == Checker = "ai" /\ StartWith(MaxUnwind, "summarize")

(* One turn of the loop: the forward analysis, unless the domain is the    *)
(* trivial one, then check_properties.                                     *)
Analyze ==
    /\ phase = "summarize"
    /\ phase' = "summarized"
    /\ UNCHANGED <<prog, unwind, domain>>
    /\ IF Havoc THEN CallCheck(Unconstrained) ELSE SummarizeAndCheck(domain)

TryZones == result = "UNKNOWN" /\ ValuesRefine /\ domain = "intervals"

(* summary_db.clear(), zones instead of intervals; the decided assertions  *)
(* keep their status.                                                      *)
SwitchToZones ==
    /\ phase = "summarized"
    /\ pc = "done"
    /\ TryZones
    /\ domain' = "zones"
    /\ phase' = "summarize"
    /\ UNCHANGED <<prog, unwind, checkVars>>

Finish ==
    /\ phase = "summarized"
    /\ pc = "done"
    /\ ~TryZones
    /\ phase' = "stop"
    /\ UNCHANGED <<prog, unwind, domain, checkVars>>

AIStep == Analyze \/ Checking \/ SwitchToZones \/ Finish
=============================================================================
