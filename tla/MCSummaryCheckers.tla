-------------------------- MODULE MCSummaryCheckers ---------------------------
(* The checkers on the programs of MCLoopPrograms.                          *)
EXTENDS SummaryCheckers, MCLoopPrograms

MCAssertsOf == main :> {p, q}

(* k-induction alone; k-induction with invariants up to one unwinding, and  *)
(* as competitions run it; bounded model checking; abstract interpretation, *)
(* with intervals and then zones.                                           *)
Induction == [flags |-> {"k-induction", "havoc"}, unwind |-> 3]
InvariantsOnce == [flags |-> {"k-induction", "values-refine"}, unwind |-> 1]
Competition == [flags |-> {"k-induction", "competition-mode", "trace"}, unwind |-> 3]
Bounded == [flags |-> {"incremental-bmc"}, unwind |-> 3]
Interpretation == [flags |-> {"values-refine"}, unwind |-> 1]

MCCommandLines == {Induction, InvariantsOnce, Competition, Bounded, Interpretation}

MCPrograms ==
    [c \in MCCommandLines |->
        CASE c = Induction -> DeterministicPrograms(3, FALSE) \cup DeterministicPrograms(2, TRUE)
          [] c = Bounded -> NondeterministicPrograms(2, FALSE) \cup DeterministicPrograms(2, TRUE)
          [] c = Competition -> DeterministicPrograms(2, FALSE)
          [] c = Interpretation -> DeterministicPrograms(2, FALSE) \cup DeterministicPrograms(2, TRUE)
          [] OTHER -> DeterministicPrograms(3, FALSE)]

(* k-induction with invariants: while loops unwound twice, and do-while     *)
(* loops as competitions run them.                                          *)
InvariantsTwice == [flags |-> {"k-induction"}, unwind |-> 2]
KikiCommandLines == {InvariantsTwice, Competition}
KikiPrograms ==
    InvariantsTwice :> DeterministicPrograms(3, FALSE) @@ Competition :> DeterministicPrograms(2, TRUE)
=============================================================================
