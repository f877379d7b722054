----------------------------- MODULE PropertyMap -----------------------------
(* The property map of the checkers: the status of every assertion, and the *)
(* answer of the analysis that follows from it.                             *)
EXTENDS FiniteSets

CONSTANT Property   \* the identifiers of the assertions

ASSUME PropertyAssumption == IsFiniteSet(Property)

Status == {"unknown", "pass", "fail"}
Answer == {"none", "PASS", "FAIL", "UNKNOWN"}

(* One failure decides the answer; otherwise one undecided assertion does.  *)
Verdict(map) ==
    IF \E p \in Property : map[p] = "fail" THEN "FAIL"
    ELSE IF \E p \in Property : map[p] = "unknown" THEN "UNKNOWN"
    ELSE "PASS"
=============================================================================
