---------------------------- MODULE ParseOptions -----------------------------
(* The options that decide what the analysis does, as                       *)
(* twols_parse_optionst derives them from the command line, and the checker *)
(* they select.                                                             *)
EXTENDS Naturals

Flag == {"all-functions", "competition-mode", "context-sensitive",
         "enum-solver", "havoc", "incremental-bmc", "k-induction", "no-spurious-check", "stop-on-fail",
         "termination", "trace", "values-refine", "zones"}

(* unwind is always given: without it the drivers count up to UINT_MAX.     *)
CommandLine == [flags : SUBSET Flag, unwind : Nat]

CONSTANT CommandLines   \* the command lines to consider

ASSUME CommandLineAssumption ==
    /\ CommandLines \subseteq CommandLine
    /\ \A c \in CommandLines : ~({"k-induction", "incremental-bmc"} \subseteq c.flags)

VARIABLE cmdline

Isset(flag) == flag \in cmdline.flags

-----------------------------------------------------------------------------
MaxUnwind == cmdline.unwind

Havoc == Isset("havoc") \/ Isset("incremental-bmc")

(* The value domains are looked at only without --havoc, and --values-refine *)
(* starts with intervals, whatever else is given.                           *)
ValuesRefine == Isset("values-refine") /\ ~Isset("havoc")
ValueDomain == IF Isset("zones") /\ ~ValuesRefine THEN "zones" ELSE "intervals"

(* What a template polyhedron is solved with.                               *)
Strategy == IF Isset("enum-solver") THEN "ENUMERATION" ELSE "BINSEARCH"

SpuriousCheck == ~Isset("no-spurious-check")

AllProperties == ~Isset("stop-on-fail") /\ ~Isset("competition-mode")

AllFunctions == Isset("all-functions")

CompetitionMode == Isset("competition-mode")

(* An option that is not set reads as 0.                                    *)
GiveUpInvariants == IF CompetitionMode THEN 2 ELSE 0

ContextSensitive == Isset("context-sensitive")

Termination == Isset("termination")

(* --graphml-witness and --json-cex count as --trace does.                  *)
BuildTrace == Isset("trace")

Checker ==
    IF Isset("k-induction") THEN "kind"
    ELSE IF Isset("incremental-bmc") THEN "bmc"
    ELSE "ai"
=============================================================================
