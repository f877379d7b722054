-------------------------- MODULE SummaryCheckerKind --------------------------
(***************************************************************************)
(* The incremental drivers: summary_checker_kindt (k-induction combined    *)
(* with invariant inference, kIkI) and summary_checker_bmct.  Both inline  *)
(* the program, so there is one function; they unwind its loop once more   *)
(* in every round and check the assertions that are still undecided.       *)
(***************************************************************************)
EXTENDS SummaryCheckerBase

-----------------------------------------------------------------------------
KindInit == Checker \in {"kind", "bmc"} /\ StartWith(0, "unwind")

(* mark_recompute_all, unwind_all(unwind), check_properties.               *)
UnwindAll ==
    /\ phase = "unwind"
    /\ phase' = "unwound"
    /\ UNCHANGED <<prog, unwind, domain>>
    /\ CallCheck(Unconstrained)

CheckReturned == pc = "done" /\ phase \in {"unwound", "summarized", "refined"}

MagicLimitNotReached == unwind < GiveUpInvariants \/ ~CompetitionMode

WantsInvariantsAgain ==
    result = "UNKNOWN" /\ ~Havoc /\ MagicLimitNotReached
WantsInvariants ==
    phase = "unwound" /\ result = "UNKNOWN" /\ ~Havoc /\ MagicLimitNotReached

WantsZones ==
    phase = "summarized" /\ result = "UNKNOWN" /\ ValuesRefine /\ domain = "intervals"

(* Infer an invariant with the current domain and check again.             *)
Summarize ==
    /\ CheckReturned
    /\ WantsInvariants
    /\ phase' = "summarized"
    /\ UNCHANGED <<prog, unwind, domain>>
    /\ SummarizeAndCheck(domain)

(* The same once more with zones in place of intervals.                    *)
RefineDomain ==
    /\ CheckReturned
    /\ WantsZones
    /\ domain' = "zones"
    /\ phase' = "refined"
    /\ UNCHANGED <<prog, unwind>>
    /\ SummarizeAndCheck("zones")

LastRound == unwind = MaxUnwind

(* The end of a round: reset the domain; stop on PASS and FAIL.            *)
EndRound ==
    /\ CheckReturned
    /\ ~WantsInvariants
    /\ ~WantsZones
    /\ domain' = IF phase = "refined" THEN "intervals" ELSE domain
    /\ IF result \in {"PASS", "FAIL"} \/ LastRound
       THEN phase' = "stop" /\ UNCHANGED unwind
       ELSE phase' = "unwind" /\ unwind' = unwind + 1
    /\ UNCHANGED <<prog, checkVars>>

KindStep == UnwindAll \/ Checking \/ Summarize \/ RefineDomain \/ EndRound
=============================================================================
