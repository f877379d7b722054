---------------------------- MODULE MCSummarizerFw ----------------------------
(* The forward summarizers on the programs of MCCallingPrograms.             *)
EXTENDS SummarizerTerm, MCCallingPrograms

With(flags) == [flags |-> flags, unwind |-> 0]

Contexts == With({"context-sensitive"})
Default == With({})
AllZones == With({"all-functions", "zones"})
Ends == With({"termination"})
AllEnd == With({"termination", "all-functions"})
EndsInContext == With({"termination", "context-sensitive"})

MCContextShape == [d \in {"intervals", "zones"} |-> Intervals]
MCTransformerShape == [intervals |-> ResultIntervals, zones |-> Zones]

(* Recursive functions are taken without contexts only, and functions that  *)
(* call each other not at all: the summarizer is not made for them.         *)
MCCommandLines == {Contexts, Default, AllZones, Ends, AllEnd, EndsInContext}
MCPrograms ==
    Contexts :> (ReturningPrograms \cup HangingPrograms)
    @@ Default :> HangingPrograms
    @@ AllZones :> SelfRecursivePrograms
    @@ Ends :> {P \in FailingPrograms : FirstCallsWithZero(P)}
    @@ AllEnd :> {P \in HangingPrograms : FirstCallsWithZero(P) /\ ~SecondCallsWithZero(P)}
    @@ EndsInContext :> {LeafAssertionOnly(P) : P \in {P \in HangingPrograms : FirstCallsWithZero(P)}}

(* The premise of AnalysedContexts: no call is hidden by an assertion that  *)
(* fails, although in most of the programs some do.                         *)
ASSUME AssertionsShowCalls ==
    /\ \A c \in {Ends, AllEnd} : \A P \in MCPrograms[c] : \A x \in Fun : HidesNoCall(P[x])
    /\ \A P \in MCPrograms[EndsInContext] : \A x \in Fun : FailsWithoutCalls(P[x])

EndsOnly == {Ends}
BehindCallsOnly == Ends :> {AssertionBehindCalls(P) : P \in HangingPrograms}
DefaultOnly == {Default}
ContextsOnly == {Contexts}
HangingOnly == Default :> HangingPrograms
=============================================================================
