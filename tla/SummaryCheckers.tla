---------------------------- MODULE SummaryCheckers ---------------------------
(* A run of 2ls on an inlined program with one loop: doit() selects the     *)
(* checker by the options and calls it once.                                *)
EXTENDS SummaryCheckerKind, SummaryCheckerAI

CheckersInit == cmdline \in CommandLines /\ (KindInit \/ AIInit)

CheckersNext ==
    \/ Checker \in {"kind", "bmc"} /\ KindStep
    \/ Checker = "ai" /\ AIStep

CheckersSpec == CheckersInit /\ [][CheckersNext]_vars /\ WF_vars(CheckersNext)
=============================================================================
