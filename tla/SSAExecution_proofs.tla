-------------------------- MODULE SSAExecution_proofs --------------------------
(***************************************************************************)
(* The unwound SSA, for all functions and numbers of rounds.  No name has  *)
(* two definitions; a loop continuation condition holds exactly where an   *)
(* execution runs out of copies; and the guards are true exactly where an  *)
(* execution comes to.                                                     *)
(***************************************************************************)
EXTENDS SSAExecution, SequenceTheorems, InductionLemmas

-----------------------------------------------------------------------------
(* The loops.  Those around a location form a chain.                       *)

LEMMA LocIs == ASSUME ProgramOK PROVE \E n \in Nat : Loc = 1..n /\ 1 \in Loc
<1>1. /\ Len(goto) \in Nat /\ DOMAIN goto = 1..Len(goto)
      /\ goto \in Seq(Instruction) /\ goto # <<>>
  BY LenProperties DEF ProgramOK
<1>2. Len(goto) # 0
  BY <1>1, EmptySeq
<1>3. Loc = 1..Len(goto) /\ 1 \in 1..Len(goto)
  BY <1>1, <1>2 DEF Loc
<1>. QED
  BY <1>1, <1>3

LEMMA HeadIsLoc ==
    ASSUME ProgramOK, NEW e \in Loops
    PROVE  e \in Loc /\ e \in Nat /\ HeadOf(e) \in Loc /\ HeadOf(e) \in 2..e
<1>1. PICK n \in Nat : Loc = 1..n
  BY LocIs
<1>2. e \in Loc /\ IsGoto(goto[e]) /\ goto[e].to <= e
  BY DEF Loops, IsBack
<1>3. goto[e].to \in Loc /\ goto[e].to # 1
  BY <1>2 DEF ProgramOK, Next
<1>. QED
  BY <1>1, <1>2, <1>3 DEF HeadOf

LEMMA AroundIsFinite ==
    ASSUME ProgramOK, NEW l
    PROVE  IsFiniteSet(Around(l)) /\ Level(l) \in Nat /\ Around(l) \subseteq Nat
<1>1. PICK n \in Nat : Loc = 1..n
  BY LocIs
<1>2. Around(l) \in SUBSET (1..n)
  BY <1>1 DEF Around, Loops
<1>3. IsFiniteSet(1..n)
  BY <1>1, FS_Interval
<1>. QED
  BY <1>2, <1>3, FS_Subset, FS_CardinalityType DEF Level

LEMMA AroundOuter ==
    ASSUME ProgramOK, NEW e \in Loops, NEW l \in Span(e)
    PROVE  /\ e \in Around(l) /\ e \in Around(e)
           /\ Around(e) \subseteq Around(l)
           /\ \A f \in Around(l) : f >= e => f \in Around(e)
<1>1. e \in Nat /\ HeadOf(e) \in Nat /\ HeadOf(e) <= e /\ l \in Nat /\ HeadOf(e) <= l /\ l <= e
  BY HeadIsLoc DEF Span
<1>2. e \in Around(l) /\ e \in Around(e)
  BY <1>1 DEF Around, Span
<1>3. ASSUME NEW f \in Around(e) PROVE f \in Around(l)
  <2>1. f \in Loops /\ f \in Nat /\ HeadOf(f) \in Nat /\ HeadOf(f) <= e /\ e <= f
    BY <1>1, HeadIsLoc DEF Around, Span
  <2>2. CASE f = e
    BY <1>2, <2>2
  <2>3. CASE e < f
    <3>1. HeadOf(f) < HeadOf(e) \/ e < HeadOf(f)
      BY <2>1, <2>3 DEF ProgramOK, LoopsNest
    <3>. QED
      BY <1>1, <2>1, <3>1 DEF Around, Span
  <2>. QED
    BY <1>1, <2>1, <2>2, <2>3
<1>4. ASSUME NEW f \in Around(l), f >= e PROVE f \in Around(e)
  <2>1. f \in Loops /\ f \in Nat /\ HeadOf(f) \in Nat /\ HeadOf(f) <= l /\ l <= f
    BY <1>1, HeadIsLoc DEF Around, Span
  <2>. QED
    BY <1>1, <1>4, <2>1 DEF Around, Span
<1>. QED
  BY <1>2, <1>3, <1>4

LEMMA BodyIs ==
    ASSUME ProgramOK, NEW e \in Loops, NEW l \in Body(e)
    PROVE  l \in Loc /\ Around(l) = Around(e) /\ Level(l) = Depth(e) /\ LoopOf(l) = e
<1>1. l \in Span(e) /\ LoopOf(l) = e
  BY DEF Body
<1>2. PICK n \in Nat : Loc = 1..n
  BY LocIs
<1>3. e \in Loc /\ HeadOf(e) \in 2..e
  BY HeadIsLoc
<1>4. l \in Loc
  BY <1>1, <1>2, <1>3 DEF Span
<1>5. \A f \in Around(l) : f >= e
  <2>1. Around(l) \subseteq Nat /\ IsFiniteSet(Around(l)) /\ e \in Around(l)
    BY <1>1, AroundIsFinite, AroundOuter
  <2>2. PICK m \in Around(l) : \A y \in Around(l) : m <= y
    BY <2>1, LeastNumber
  <2>3. e = m
    BY <1>1, <2>1, <2>2 DEF LoopOf, Min
  <2>. QED
    BY <2>1, <2>2, <2>3
<1>6. Around(l) = Around(e)
  BY <1>1, <1>5, AroundOuter
<1>. QED
  BY <1>1, <1>4, <1>6 DEF Level, Depth

LEMMA HeadInBody ==
    ASSUME ProgramOK, NEW e \in Loops PROVE HeadOf(e) \in Body(e)
<1>1. e \in Nat /\ HeadOf(e) \in 2..e /\ HeadOf(e) \in Span(e)
  BY HeadIsLoc DEF Span
<1>2. e \in Around(HeadOf(e))
  BY <1>1 DEF Around
<1>3. ASSUME NEW f \in Around(HeadOf(e)) PROVE e <= f
  <2>1. f \in Loops /\ f \in Nat /\ HeadOf(f) \in Nat /\ HeadOf(f) <= HeadOf(e) /\ HeadOf(e) <= f
    BY <1>1, HeadIsLoc DEF Around, Span
  <2>2. SUFFICES ASSUME f < e PROVE FALSE
    BY <1>1, <2>1
  <2>3. HeadOf(e) < HeadOf(f) \/ f < HeadOf(e)
    BY <2>1, <2>2 DEF ProgramOK, LoopsNest
  <2>. QED
    BY <1>1, <2>1, <2>3
<1>4. LoopOf(HeadOf(e)) = e
  <2>1. Around(HeadOf(e)) \subseteq Nat
    BY AroundIsFinite
  <2>. QED
    BY <1>2, <1>3, <2>1 DEF LoopOf, Min
<1>. QED
  BY <1>1, <1>4 DEF Body

(* Loops at the same depth around a location are the same.                 *)
LEMMA SameDepth ==
    ASSUME ProgramOK, NEW e \in Loops, NEW f \in Loops, NEW l \in Span(e), l \in Span(f),
           Depth(e) = Depth(f)
    PROVE  e = f
<1>1. ASSUME NEW a \in Loops, NEW b \in Loops, l \in Span(a), l \in Span(b), a < b
      PROVE  Depth(a) # Depth(b)
  <2>1. /\ a \in Nat /\ b \in Nat /\ HeadOf(a) \in Nat /\ HeadOf(b) \in Nat
        /\ l \in Nat /\ HeadOf(a) <= l /\ l <= a /\ HeadOf(b) <= l /\ l <= b
    BY <1>1, HeadIsLoc DEF Span
  <2>2. HeadOf(b) < HeadOf(a) \/ a < HeadOf(b)
    BY <1>1 DEF ProgramOK, LoopsNest
  <2>3. a \in Span(b)
    BY <1>1, <2>1, <2>2 DEF Span
  <2>4. Around(b) \subseteq Around(a) /\ a \in Around(a) /\ a \notin Around(b)
    <3>1. a \in Span(a)
      BY <2>1 DEF Span
    <3>. QED
      BY <1>1, <2>1, <2>3, <3>1, AroundOuter DEF Around, Span
  <2>5. IsFiniteSet(Around(a)) /\ Around(b) \in SUBSET Around(a) /\ Around(a) # Around(b)
    BY <2>4, AroundIsFinite
  <2>. QED
    BY <2>5, FS_Subset DEF Depth, Level
<1>. QED
  BY <1>1, HeadIsLoc

-----------------------------------------------------------------------------
(* Odometers and names.                                                    *)

LEMMA OdometerIsSeq ==
    ASSUME NEW d \in Nat, NEW o \in [1..d -> Int]
    PROVE  o \in Seq(Int) /\ Len(o) = d
<1>1. o \in Seq(Int)
  BY SeqDef
<1>2. Len(o) \in Nat /\ DOMAIN o = 1..Len(o) /\ DOMAIN o = 1..d
  BY <1>1, LenProperties
<1>. QED
  BY <1>1, <1>2

LEMMA PrefixIs ==
    ASSUME NEW d \in Nat, NEW o \in [1..d -> Int], NEW n \in Nat, n >= d
    PROVE  Prefix(o, n) = o
<1>1. o \in Seq(Int) /\ Len(o) = d
  BY OdometerIsSeq
<1>2. Prefix(o, n) = SubSeq(o, 1, Len(o))
  BY <1>1 DEF Prefix
<1>. QED
  BY <1>1, <1>2, SubSeqFull

IsNameAt(n, l) == n = [obj |-> n.obj, kind |-> n.kind, loc |-> l, odo |-> <<>>]

LEMMA NameIsNameAt == \A obj, kind, l : IsNameAt(Name(obj, kind, l), l)
BY DEF IsNameAt, Name

(* The name with the suffix o.                                             *)
Suffixed(n, o) == [n EXCEPT !.odo = o]

LEMMA SuffixedIs ==
    ASSUME NEW n, NEW l, IsNameAt(n, l), NEW m, NEW k, IsNameAt(m, k), NEW o, NEW p
    PROVE  /\ Suffixed(n, o).loc = l /\ Suffixed(n, o).odo = o /\ Suffixed(n, o).obj = n.obj
           /\ Suffixed(n, o) = Suffixed(m, p) => n = m
<1>1. Suffixed(n, o) = [obj |-> n.obj, kind |-> n.kind, loc |-> l, odo |-> o]
  BY DEF IsNameAt, Suffixed
<1>2. Suffixed(m, p) = [obj |-> m.obj, kind |-> m.kind, loc |-> k, odo |-> p]
  BY DEF IsNameAt, Suffixed
<1>. QED
  BY <1>1, <1>2 DEF IsNameAt

(* A name is renamed, at its own location, to the copy of that location.   *)
LEMMA RenamedIs ==
    ASSUME ProgramOK, NEW l \in Loc, NEW n, IsNameAt(n, l), NEW o \in [1..Level(l) -> Int]
    PROVE  Renamed(n, l, o) = Suffixed(n, o)
<1>1. n.loc = l /\ l # 0 /\ Level(l) \in Nat
  BY LocIs, AroundIsFinite DEF IsNameAt
<1>2. DefLevel(l, l) = Level(l)
  <2>1. CASE Around(l) = {}
    BY <1>1, <2>1, FS_EmptySet DEF DefLevel, Level
  <2>2. CASE Around(l) # {}
    <3>1. Around(l) \subseteq Nat
      BY AroundIsFinite
    <3>2. PICK m \in Around(l) : \A y \in Around(l) : m <= y
      BY <2>2, <3>1, LeastNumber
    <3>3. LoopOf(l) \in Around(l)
      BY <3>2 DEF LoopOf, Min
    <3>. QED
      BY <1>1, <2>2, <3>3 DEF DefLevel
  <2>. QED
    BY <2>1, <2>2
<1>3. Prefix(o, DefLevel(l, l)) = o
  BY <1>1, <1>2, PrefixIs
<1>. QED
  BY <1>1, <1>3 DEF Renamed, Suffixed

-----------------------------------------------------------------------------
(* The equations of a node define names at its location, each one once.    *)

LEMMA GuardSourceIs ==
    ASSUME ProgramOK, NEW l \in Loc, HasGuard(l) PROVE GuardSource(l) = l
<1>1. l \in Nat /\ l >= 1
  BY LocIs
<1>2. l \in {g \in 1..l : HasGuard(g)}
  BY <1>1
<1>3. \A x \in {g \in 1..l : HasGuard(g)} : x \in Nat /\ x <= l
  BY <1>1
<1>. QED
  BY <1>1, <1>2, <1>3 DEF GuardSource, Max

LEMMA NodeNames ==
    ASSUME ProgramOK, NEW l \in Loc, NEW q \in Node(l).equations
    PROVE  /\ IsNameAt(q.lhs, l)
           /\ \/ q \in Transfer(l) /\ q.lhs = Name(goto[l].lhs, "out", l) /\ goto[l].lhs \in Var
              \/ /\ \E v \in DOMAIN phis[l] : q = Equation(Name(v, "phi", l), PhiAlternatives(l, v))
                 /\ q.lhs.kind = "phi"
              \/ q \in BuildCond(l) /\ q.lhs = Name("$cond", "out", l)
              \/ /\ q = Disjunction(Guard(l), GuardSources(l)) /\ HasGuard(l)
                 /\ q.lhs = Name("$guard", "out", l)
<1>1. q \in Transfer(l) \/ q \in PhiNodes(l) \/ q \in BuildCond(l) \/ q \in BuildGuard(l)
  BY DEF Node
<1>2. CASE q \in Transfer(l)
  <2>1. q.lhs = Name(goto[l].lhs, "out", l) /\ goto[l].op = "assign"
    BY <1>2 DEF Transfer, Equation
  <2>. QED
    BY <1>2, <2>1, NameIsNameAt DEF ProgramOK
<1>3. CASE q \in PhiNodes(l)
  <2>1. PICK v \in DOMAIN phis[l] : q = Equation(Name(v, "phi", l), PhiAlternatives(l, v))
    BY <1>3 DEF PhiNodes
  <2>2. q.lhs = Name(v, "phi", l)
    BY <2>1 DEF Equation
  <2>. QED
    BY <2>1, <2>2, NameIsNameAt DEF Name
<1>4. CASE q \in BuildCond(l)
  <2>1. q.lhs = Cond(l)
    BY <1>4 DEF BuildCond, Equation
  <2>. QED
    BY <1>4, <2>1, NameIsNameAt DEF Cond
<1>5. CASE q \in BuildGuard(l)
  <2>1. HasGuard(l) /\ q = Disjunction(Guard(l), GuardSources(l))
    BY <1>5 DEF BuildGuard
  <2>2. q.lhs = Guard(l)
    BY <2>1 DEF Disjunction, Equation
  <2>. QED
    BY <2>1, <2>2, NameIsNameAt, GuardSourceIs DEF Guard
<1>. QED
  BY <1>1, <1>2, <1>3, <1>4, <1>5

LEMMA NodeDefinesOnce ==
    ASSUME ProgramOK, NEW l \in Loc, NEW q \in Node(l).equations,
           NEW r \in Node(l).equations, q.lhs = r.lhs
    PROVE  q = r
<1>1. "$guard" \notin Var /\ "$cond" \notin Var
  BY GotoProgramAssumption
<1>2. \A obj, kind : Name(obj, kind, l).obj = obj /\ Name(obj, kind, l).kind = kind
  BY DEF Name
<1>3. CASE q \in Transfer(l) /\ q.lhs = Name(goto[l].lhs, "out", l) /\ goto[l].lhs \in Var
  <2>1. q.lhs.kind = "out" /\ q.lhs.obj \in Var
    BY <1>2, <1>3
  <2>2. r \in Transfer(l)
    BY <1>1, <1>2, <2>1, NodeNames
  <2>. QED
    BY <1>3, <2>2 DEF Transfer
<1>4. CASE /\ \E v \in DOMAIN phis[l] : q = Equation(Name(v, "phi", l), PhiAlternatives(l, v))
           /\ q.lhs.kind = "phi"
  <2>1. r.lhs.kind = "phi"
    BY <1>4
  <2>2. PICK v \in DOMAIN phis[l] : q = Equation(Name(v, "phi", l), PhiAlternatives(l, v))
    BY <1>4
  <2>3. PICK w \in DOMAIN phis[l] : r = Equation(Name(w, "phi", l), PhiAlternatives(l, w))
    BY <1>2, <2>1, NodeNames
  <2>4. q.lhs.obj = v /\ r.lhs.obj = w
    BY <1>2, <2>2, <2>3 DEF Equation
  <2>. QED
    BY <2>2, <2>3, <2>4
<1>5. CASE q \in BuildCond(l) /\ q.lhs = Name("$cond", "out", l)
  <2>1. q.lhs.kind = "out" /\ q.lhs.obj = "$cond"
    BY <1>2, <1>5
  <2>2. r \in BuildCond(l)
    BY <1>1, <1>2, <2>1, NodeNames
  <2>. QED
    BY <1>5, <2>2 DEF BuildCond, IsGoto
<1>6. CASE q = Disjunction(Guard(l), GuardSources(l)) /\ q.lhs = Name("$guard", "out", l)
  <2>1. q.lhs.kind = "out" /\ q.lhs.obj = "$guard"
    BY <1>2, <1>6
  <2>. QED
    BY <1>1, <1>2, <1>6, <2>1, NodeNames
<1>. QED
  BY <1>3, <1>4, <1>5, <1>6, NodeNames

-----------------------------------------------------------------------------
(* The copies.                                                             *)

LEMMA DepthIs ==
    ASSUME ProgramOK, NEW e \in Loops PROVE Depth(e) \in Nat /\ Depth(e) >= 1
<1>1. IsFiniteSet(Around(e)) /\ Depth(e) = Cardinality(Around(e)) /\ Depth(e) \in Nat
  BY AroundIsFinite DEF Depth, Level
<1>2. e \in Span(e)
  BY HeadIsLoc DEF Span
<1>3. Around(e) # {}
  BY <1>2, AroundOuter
<1>4. Cardinality(Around(e)) # 0
  BY <1>1, <1>3, FS_EmptySet
<1>. QED
  BY <1>1, <1>4

LEMMA SpanDepth ==
    ASSUME ProgramOK, NEW e \in Loops, NEW l \in Span(e)
    PROVE  /\ l \in Loc /\ l # 0 /\ Level(l) \in Nat /\ Level(l) >= Depth(e)
           /\ Around(l) # {}
<1>1. PICK n \in Nat : Loc = 1..n
  BY LocIs
<1>2. e \in Loc /\ HeadOf(e) \in 2..e
  BY HeadIsLoc
<1>3. l \in Loc /\ l # 0
  BY <1>1, <1>2 DEF Span
<1>4. IsFiniteSet(Around(l)) /\ Level(l) \in Nat
  BY AroundIsFinite
<1>5. Around(e) \in SUBSET Around(l) /\ e \in Around(l)
  BY AroundOuter
<1>6. Depth(e) <= Level(l)
  BY <1>4, <1>5, FS_Subset DEF Depth, Level
<1>. QED
  BY <1>3, <1>4, <1>5, <1>6, DepthIs

LEMMA OdometersAre ==
    ASSUME NEW d \in Nat, NEW k \in Nat, NEW o \in Odometers(d, k)
    PROVE  o \in [1..d -> Int] /\ Len(o) = d /\ \A i \in 1..d : o[i] \in 0..k
<1>1. o \in [1..d -> Int] /\ \A i \in 1..d : o[i] \in 0..k
  BY DEF Odometers
<1>. QED
  BY <1>1, OdometerIsSeq

(* The first copy of a loop in a round, in the copy p of the loops around. *)
LEMMA AppendIs ==
    ASSUME NEW d \in Nat, d >= 1, NEW k \in Nat, NEW p \in Odometers(d - 1, k)
    PROVE  /\ Append(p, k) \in Odometers(d, k)
           /\ Append(p, k)[d] = k
<1>1. p \in [1..(d - 1) -> 0..k] /\ d - 1 \in Nat
  BY DEF Odometers
<1>2. p \in Seq(0..k)
  BY <1>1, SeqDef
<1>3. Len(p) = d - 1
  BY <1>1, OdometersAre
<1>4. k \in 0..k
  OBVIOUS
<1>5. /\ Append(p, k) \in Seq(0..k) /\ Len(Append(p, k)) = d
      /\ Append(p, k)[d] = k
  BY <1>2, <1>3, <1>4, AppendProperties
<1>6. Append(p, k) \in [1..d -> 0..k]
  BY <1>5, LenProperties
<1>. QED
  BY <1>5, <1>6 DEF Odometers

LEMMA SuccessorIs ==
    ASSUME NEW d \in Nat, d >= 1, NEW k \in Nat, NEW o \in Odometers(d, k), o[d] > 0
    PROVE  /\ Successor(o) \in Odometers(d, k)
           /\ Successor(o)[d] = o[d] - 1
           /\ \A i \in 1..(d - 1) : Successor(o)[i] = o[i]
<1>1. o \in [1..d -> 0..k] /\ Len(o) = d /\ d \in 1..d
  BY OdometersAre DEF Odometers
<1>2. Successor(o) = [o EXCEPT ![d] = @ - 1]
  BY <1>1 DEF Successor
<1>3. o[d] - 1 \in 0..k
  BY <1>1
<1>. QED
  BY <1>1, <1>2, <1>3 DEF Odometers

LEMMA SuccessorInjective ==
    ASSUME NEW d \in Nat, d >= 1, NEW k \in Nat,
           NEW o \in Odometers(d, k), o[d] > 0, NEW p \in Odometers(d, k), p[d] > 0,
           Successor(o) = Successor(p)
    PROVE  o = p
<1>1. o \in [1..d -> 0..k] /\ p \in [1..d -> 0..k]
  BY DEF Odometers
<1>2. /\ Successor(o)[d] = o[d] - 1 /\ \A i \in 1..(d - 1) : Successor(o)[i] = o[i]
      /\ Successor(p)[d] = p[d] - 1 /\ \A i \in 1..(d - 1) : Successor(p)[i] = p[i]
  BY SuccessorIs
<1>3. ASSUME NEW i \in 1..d PROVE o[i] = p[i]
  <2>1. CASE i = d
    BY <1>1, <1>2, <2>1
  <2>2. CASE i # d
    BY <1>2, <2>2
  <2>. QED
    BY <2>1, <2>2
<1>. QED
  BY <1>1, <1>3

(* A copy of an equation of a node defines the name of the copy.           *)
LEMMA CopyName ==
    ASSUME ProgramOK, NEW e \in Loops, NEW l \in Body(e), NEW k \in Nat,
           NEW o \in Odometers(Depth(e), k), NEW q \in Node(l).equations
    PROVE  /\ Renamed(q.lhs, l, o) = Suffixed(q.lhs, o)
           /\ RenamedEquation(q, l, o).lhs = Suffixed(q.lhs, o)
           /\ Suffixed(q.lhs, o).loc = l /\ Suffixed(q.lhs, o).odo = o
           /\ Suffixed(q.lhs, o).obj = q.lhs.obj
<1>1. l \in Loc /\ Level(l) = Depth(e)
  BY BodyIs
<1>2. IsNameAt(q.lhs, l)
  BY <1>1, NodeNames
<1>3. o \in [1..Level(l) -> Int]
  BY <1>1, DepthIs, OdometersAre
<1>4. Renamed(q.lhs, l, o) = Suffixed(q.lhs, o)
  BY <1>1, <1>2, <1>3, RenamedIs
<1>5. RenamedEquation(q, l, o).lhs = Renamed(q.lhs, l, o)
  BY DEF RenamedEquation, Equation
<1>. QED
  BY <1>2, <1>4, <1>5, SuffixedIs

LEMMA CopyOnce ==
    ASSUME ProgramOK, NEW e \in Loops, NEW l \in Body(e), NEW k \in Nat,
           NEW o \in Odometers(Depth(e), k), NEW q \in Node(l).equations,
           NEW r \in Node(l).equations, Suffixed(q.lhs, o) = Suffixed(r.lhs, o)
    PROVE  q = r
<1>1. l \in Loc
  BY BodyIs
<1>2. IsNameAt(q.lhs, l) /\ IsNameAt(r.lhs, l)
  BY <1>1, NodeNames
<1>3. q.lhs = r.lhs
  BY <1>2, SuffixedIs
<1>. QED
  BY <1>1, <1>3, NodeDefinesOnce

-----------------------------------------------------------------------------
(* The equations a round adds.                                             *)

CopyEquations(l, o) == {RenamedEquation(q, l, o) : q \in Node(l).equations}

Selecting(e) == {q \in Node(HeadOf(e)).equations : q.lhs.obj # "$guard" /\ Len(q.alts) > 1}
NotSelecting(e) == {q \in Node(HeadOf(e)).equations : q.lhs.obj # "$guard" /\ Len(q.alts) = 1}
NextGuard(e, o) ==
    Disjunction(Renamed(Guard(HeadOf(e)), HeadOf(e), Successor(o)),
                {RenamedLiterals({Is(Guard(e)), Is(Cond(e))}, HeadOf(e), o)})
ConnectorEquations(e, o) ==
    {ConnectedPhi(e, q, o) : q \in Selecting(e)}
    \cup {RenamedEquation(q, HeadOf(e), Successor(o)) : q \in NotSelecting(e)}
    \cup {NextGuard(e, o)}

MergedNames(e) == UNION {ExitNames(e, l) : l \in Exits(e)}
MergeEquations(e, p, k) == {ExitMerge(e, n, p, k) : n \in MergedNames(e)}

(* The kinds of these equations, with the copy or the merge.               *)
BodyAt(q, k, e, o) ==
    \E l \in Body(e) \ {HeadOf(e)} : o \in Added(Depth(e), k) /\ q \in CopyEquations(l, o)
EntryAt(q, k, e, o) ==
    \E p \in Odometers(Depth(e) - 1, k) : o = Append(p, k) /\ q \in CopyEquations(HeadOf(e), o)
ConnectorAt(q, k, e, o) ==
    o \in Added(Depth(e), k) /\ o[Depth(e)] > 0 /\ q \in ConnectorEquations(e, o)
MergeAt(q, k, e, p) == p \in Odometers(Depth(e) - 1, k) /\ q \in MergeEquations(e, p, k)

Forever(q, k) == \E e \in Loops : \E o : BodyAt(q, k, e, o) \/ ConnectorAt(q, k, e, o)
InRound(q, k) == \E e \in Loops : \E o : EntryAt(q, k, e, o) \/ MergeAt(q, k, e, o)

CopiesAdded(e, k) == UNION {CopyNodes(e, o) : o \in Added(Depth(e), k)}
EntriesAdded(e, k) ==
    UNION {HeadCopy(e, Append(p, k), k) \cup ExitMerges(e, p, k) :
            p \in Odometers(Depth(e) - 1, k)}

LEMMA CopyNodesAre ==
    ASSUME ProgramOK, NEW e \in Loops, NEW k \in Nat, NEW o \in Added(Depth(e), k),
           NEW n \in CopyNodes(e, o)
    PROVE  n.round = -1 /\ \A q \in n.equations : Forever(q, k)
<1>1. Len(o) = Depth(e)
  BY DepthIs, OdometersAre DEF Added
<1>2. CASE n \in BodyCopy(e, o)
  <2>1. PICK l \in Body(e) \ {HeadOf(e)} :
          n = NodeOf(l, -1, {RenamedEquation(q, l, o) : q \in Node(l).equations}, {}, {})
    BY <1>2 DEF BodyCopy
  <2>2. n.round = -1 /\ n.equations = CopyEquations(l, o)
    BY <2>1 DEF NodeOf, CopyEquations
  <2>. QED
    BY <2>1, <2>2 DEF Forever, BodyAt
<1>3. CASE o[Len(o)] > 0 /\ n \in Connector(e, o)
  <2>1. n = NodeOf(HeadOf(e), -1, ConnectorEquations(e, o), {}, {})
    BY <1>3 DEF Connector, ConnectorEquations, Selecting, NotSelecting, NextGuard
  <2>2. n.round = -1 /\ n.equations = ConnectorEquations(e, o)
    BY <2>1 DEF NodeOf
  <2>. QED
    BY <1>1, <1>3, <2>2 DEF Forever, ConnectorAt
<1>4. CASE n \in AssertionCopy(e, o)
  <2>1. \E l, c, a : n = NodeOf(l, -1, {}, c, a)
    BY <1>4 DEF AssertionCopy, AssertionCopyWith
  <2>. QED
    BY <2>1 DEF NodeOf
<1>5. CASE n \in HoistedAssertions(e, o)
  <2>1. \E l, c : n = NodeOf(l, -1, {}, c, {})
    BY <1>5 DEF HoistedAssertions
  <2>. QED
    BY <2>1 DEF NodeOf
<1>. QED
  BY <1>2, <1>3, <1>4, <1>5 DEF CopyNodes

LEMMA NodesAddedAre ==
    ASSUME ProgramOK, NEW k \in Nat, NEW n \in NodesAdded(k)
    PROVE  \/ n.round = -1 /\ \A q \in n.equations : Forever(q, k)
           \/ n.round = k /\ \A q \in n.equations : InRound(q, k)
<1>1. PICK e \in Loops :
        \/ \E o \in Added(Depth(e), k) : n \in CopyNodes(e, o)
        \/ \E p \in Odometers(Depth(e) - 1, k) :
              n \in HeadCopy(e, Append(p, k), k) \/ n \in ExitMerges(e, p, k)
  <2>1. NodesAdded(k) = UNION {CopiesAdded(e, k) \cup EntriesAdded(e, k) : e \in Loops}
    BY DEF NodesAdded, CopiesAdded, EntriesAdded
  <2>2. PICK e \in Loops : n \in CopiesAdded(e, k) \/ n \in EntriesAdded(e, k)
    BY <2>1
  <2>. QED
    BY <2>2 DEF CopiesAdded, EntriesAdded
<1>2. CASE \E o \in Added(Depth(e), k) : n \in CopyNodes(e, o)
  BY <1>2, CopyNodesAre
<1>3. ASSUME NEW p \in Odometers(Depth(e) - 1, k), n \in HeadCopy(e, Append(p, k), k)
      PROVE  n.round = k /\ \A q \in n.equations : InRound(q, k)
  <2>1. n.round = k /\ n.equations = CopyEquations(HeadOf(e), Append(p, k))
    BY <1>3 DEF HeadCopy, NodeOf, CopyEquations
  <2>. QED
    BY <2>1 DEF InRound, EntryAt
<1>4. ASSUME NEW p \in Odometers(Depth(e) - 1, k), n \in ExitMerges(e, p, k)
      PROVE  n.round = k /\ \A q \in n.equations : InRound(q, k)
  <2>1. n.round = k /\ n.equations = MergeEquations(e, p, k)
    BY <1>4 DEF ExitMerges, NodeOf, MergeEquations, MergedNames
  <2>. QED
    BY <2>1 DEF InRound, MergeAt
<1>. QED
  BY <1>1, <1>2, <1>3, <1>4

(* What an equation of each kind defines.                                  *)
LEMMA CopyDefines ==
    ASSUME ProgramOK, NEW e \in Loops, NEW l \in Body(e), NEW k \in Nat,
           NEW o \in Odometers(Depth(e), k), NEW q \in CopyEquations(l, o)
    PROVE  /\ q.lhs.loc = l /\ q.lhs.odo = o
           /\ \A r \in CopyEquations(l, o) : q.lhs = r.lhs => q = r
<1>1. PICK a \in Node(l).equations : q = RenamedEquation(a, l, o)
  BY DEF CopyEquations
<1>2. q.lhs = Suffixed(a.lhs, o) /\ Suffixed(a.lhs, o).loc = l /\ Suffixed(a.lhs, o).odo = o
  BY <1>1, CopyName
<1>3. ASSUME NEW r \in CopyEquations(l, o), q.lhs = r.lhs PROVE q = r
  <2>1. PICK b \in Node(l).equations : r = RenamedEquation(b, l, o)
    BY DEF CopyEquations
  <2>2. r.lhs = Suffixed(b.lhs, o)
    BY <2>1, CopyName
  <2>3. Suffixed(a.lhs, o) = Suffixed(b.lhs, o)
    BY <1>2, <1>3, <2>2
  <2>4. a = b
    BY <2>3, CopyOnce
  <2>. QED
    BY <1>1, <2>1, <2>4
<1>. QED
  BY <1>2, <1>3

LEMMA HeadGuardIs ==
    ASSUME ProgramOK, NEW e \in Loops
    PROVE  /\ HasGuard(HeadOf(e)) /\ Guard(HeadOf(e)) = Name("$guard", "out", HeadOf(e))
<1>1. e \in Loc /\ IsGoto(goto[e]) /\ HeadOf(e) \in Loc
  BY HeadIsLoc DEF Loops, IsBack
<1>2. HasGuard(HeadOf(e))
  BY <1>1 DEF HasGuard, HeadOf
<1>. QED
  BY <1>1, <1>2, GuardSourceIs DEF Guard

LEMMA ConnectorDefines ==
    ASSUME ProgramOK, NEW e \in Loops, NEW k \in Nat, NEW o \in Odometers(Depth(e), k),
           o[Depth(e)] > 0, NEW q \in ConnectorEquations(e, o)
    PROVE  /\ q.lhs.loc = HeadOf(e) /\ q.lhs.odo = Successor(o)
           /\ \A r \in ConnectorEquations(e, o) : q.lhs = r.lhs => q = r
<1>. DEFINE h == HeadOf(e)
            u == Successor(o)
            From(q_, a) == /\ a \in Node(h).equations /\ q_.lhs = Suffixed(a.lhs, u)
                           /\ a.lhs.obj # "$guard" /\ q_.lhs.obj = a.lhs.obj
                           /\ \/ Len(a.alts) > 1 /\ q_ = ConnectedPhi(e, a, o)
                              \/ Len(a.alts) = 1 /\ q_ = RenamedEquation(a, h, u)
<1>1. h \in Body(e) /\ h \in Loc
  BY HeadInBody, HeadIsLoc
<1>2. u \in Odometers(Depth(e), k)
  BY DepthIs, SuccessorIs
<1>3. /\ NextGuard(e, o).lhs.loc = h /\ NextGuard(e, o).lhs.odo = u
      /\ NextGuard(e, o).lhs.obj = "$guard"
  <2>1. IsNameAt(Guard(h), h)
    BY HeadGuardIs, NameIsNameAt
  <2>2. Renamed(Guard(h), h, u) = Suffixed(Guard(h), u)
    BY <1>1, <1>2, <2>1, BodyIs, DepthIs, OdometersAre, RenamedIs
  <2>3. NextGuard(e, o).lhs = Suffixed(Guard(h), u)
    BY <2>2 DEF NextGuard, Disjunction, Equation
  <2>4. Guard(h).obj = "$guard"
    BY HeadGuardIs DEF Name
  <2>. QED
    BY <2>1, <2>3, <2>4, SuffixedIs
<1>4. ASSUME NEW r \in ConnectorEquations(e, o)
      PROVE  r = NextGuard(e, o) \/ \E a : From(r, a)
  <2>1. CASE r \in {ConnectedPhi(e, a, o) : a \in Selecting(e)}
    <3>1. PICK a \in Selecting(e) : r = ConnectedPhi(e, a, o)
      BY <2>1
    <3>2. a \in Node(h).equations /\ a.lhs.obj # "$guard" /\ Len(a.alts) > 1
      BY DEF Selecting
    <3>3. r.lhs = Renamed(a.lhs, h, u)
      BY <3>1 DEF ConnectedPhi, Equation
    <3>4. r.lhs = Suffixed(a.lhs, u) /\ Suffixed(a.lhs, u).obj = a.lhs.obj
      BY <1>1, <1>2, <3>2, <3>3, CopyName
    <3>. QED
      BY <3>1, <3>2, <3>4
  <2>2. CASE r \in {RenamedEquation(a, h, u) : a \in NotSelecting(e)}
    <3>1. PICK a \in NotSelecting(e) : r = RenamedEquation(a, h, u)
      BY <2>2
    <3>2. a \in Node(h).equations /\ a.lhs.obj # "$guard" /\ Len(a.alts) = 1
      BY DEF NotSelecting
    <3>4. r.lhs = Suffixed(a.lhs, u) /\ Suffixed(a.lhs, u).obj = a.lhs.obj
      BY <1>1, <1>2, <3>1, <3>2, CopyName
    <3>. QED
      BY <3>1, <3>2, <3>4
  <2>. QED
    BY <2>1, <2>2 DEF ConnectorEquations
<1>5. q.lhs.loc = h /\ q.lhs.odo = u
  <2>1. ASSUME NEW a, From(q, a) PROVE q.lhs.loc = h /\ q.lhs.odo = u
    BY <1>1, <1>2, <2>1, CopyName
  <2>. QED
    BY <1>3, <1>4, <2>1
<1>6. ASSUME NEW r \in ConnectorEquations(e, o), q.lhs = r.lhs PROVE q = r
  <2>1. ASSUME NEW a, From(q, a), NEW b, From(r, b) PROVE q = r
    <3>1. a \in Node(h).equations /\ b \in Node(h).equations
      BY <2>1
    <3>2. Suffixed(a.lhs, u) = Suffixed(b.lhs, u)
      BY <1>6, <2>1
    <3>3. a = b
      BY <1>1, <1>2, <3>1, <3>2, CopyOnce
    <3>4. ~(Len(a.alts) > 1 /\ Len(a.alts) = 1)
      <4>1. ~(1 > 1)
        OBVIOUS
      <4>. QED
        BY <4>1, Zenon
    <3>. QED
      BY <2>1, <3>3, <3>4, Zenon
  <2>. QED
    BY <1>3, <1>4, <1>6, <2>1
<1>. QED
  BY <1>5, <1>6

(* A name merged behind a loop is one of its locations, and is renamed to  *)
(* the copy of the loops around.                                           *)
LEMMA MergedNameIs ==
    ASSUME ProgramOK, NamesOfLoop, NEW e \in Loops, NEW n \in MergedNames(e)
    PROVE  IsNameAt(n, n.loc) /\ n.loc \in Span(e)
<1>1. PICK l \in Exits(e) : n \in ExitNames(e, l)
  BY DEF MergedNames
<1>2. l \in Body(e) /\ l \in Span(e) /\ l \in Nat
  BY <1>1, HeadIsLoc DEF Exits, Body, Span
<1>3. CASE n = Cond(l)
  BY <1>2, <1>3, NameIsNameAt DEF Cond, IsNameAt
<1>4. CASE \E v \in Modified(e) : n = Read(v, l)
  <2>1. n.loc \in Span(e)
    BY <1>1, <1>4 DEF NamesOfLoop
  <2>2. \E obj, kind, loc : n = Name(obj, kind, loc)
    BY <1>4 DEF Read
  <2>. QED
    BY <2>1, <2>2, NameIsNameAt DEF IsNameAt
<1>5. CASE n = Guard(l)
  <2>1. GuardSource(l) \in Span(e)
    <3>1. HeadOf(e) \in Nat /\ HeadOf(e) >= 1 /\ HeadOf(e) <= l /\ l <= e /\ e \in Nat
      BY <1>2, HeadIsLoc DEF Span
    <3>. DEFINE G == {g \in 1..l : HasGuard(g)}
    <3>2. HeadOf(e) \in G
      BY <1>2, <3>1, HeadGuardIs
    <3>3. PICK m \in G : \A g \in G : g <= m
      <4>1. G \in SUBSET (0..l) /\ G # {}
        BY <3>2
      <4>. HIDE DEF G
      <4>. QED
        BY <1>2, <4>1, GreatestNumber
    <3>4. GuardSource(l) = m
      <4>1. G \subseteq Nat
        BY <1>2
      <4>. QED
        BY <3>3, <4>1 DEF GuardSource, Max
    <3>5. m \in Nat /\ HeadOf(e) <= m /\ m <= l
      BY <1>2, <3>2, <3>3
    <3>. QED
      BY <1>2, <3>1, <3>4, <3>5 DEF Span
  <2>2. IsNameAt(n, GuardSource(l))
    BY <1>5, NameIsNameAt DEF Guard
  <2>. QED
    BY <2>1, <2>2 DEF IsNameAt
<1>. QED
  BY <1>1, <1>3, <1>4, <1>5 DEF ExitNames

LEMMA MergeName ==
    ASSUME ProgramOK, NamesOfLoop, NEW e \in Loops, NEW n \in MergedNames(e), NEW k \in Nat,
           NEW p \in Odometers(Depth(e) - 1, k)
    PROVE  /\ ExitMerge(e, n, p, k).lhs = Suffixed(n, p)
           /\ Suffixed(n, p).loc = n.loc /\ Suffixed(n, p).odo = p
<1>1. IsNameAt(n, n.loc) /\ n.loc \in Span(e)
  BY MergedNameIs
<1>2. n.loc # 0 /\ Level(n.loc) \in Nat /\ Level(n.loc) >= Depth(e) /\ Around(n.loc) # {}
  BY <1>1, SpanDepth
<1>3. Depth(e) \in Nat /\ Depth(e) >= 1 /\ Depth(e) - 1 \in Nat
  BY DepthIs
<1>4. p \in [1..(Depth(e) - 1) -> Int]
  BY <1>3, OdometersAre
<1>5. DefLevel(n.loc, HeadOf(e)) \in Nat /\ DefLevel(n.loc, HeadOf(e)) >= Depth(e) - 1
  BY <1>2, <1>3 DEF DefLevel
<1>6. Prefix(p, DefLevel(n.loc, HeadOf(e))) = p
  BY <1>3, <1>4, <1>5, PrefixIs
<1>7. Renamed(n, HeadOf(e), p) = Suffixed(n, p)
  BY <1>2, <1>6 DEF Renamed, Suffixed
<1>8. ExitMerge(e, n, p, k).lhs = Renamed(n, HeadOf(e), p)
  BY DEF ExitMerge, Equation
<1>. QED
  BY <1>1, <1>7, <1>8, SuffixedIs

LEMMA MergeDefines ==
    ASSUME ProgramOK, NamesOfLoop, NEW e \in Loops, NEW k \in Nat,
           NEW p \in Odometers(Depth(e) - 1, k), NEW q \in MergeEquations(e, p, k)
    PROVE  /\ q.lhs.loc \in Span(e) /\ q.lhs.odo = p /\ Len(q.lhs.odo) = Depth(e) - 1
           /\ \A r \in MergeEquations(e, p, k) : q.lhs = r.lhs => q = r
<1>1. PICK n \in MergedNames(e) : q = ExitMerge(e, n, p, k)
  BY DEF MergeEquations
<1>2. q.lhs = Suffixed(n, p) /\ q.lhs.loc \in Span(e) /\ q.lhs.odo = p
  BY <1>1, MergeName, MergedNameIs
<1>3. Len(p) = Depth(e) - 1
  BY DepthIs, OdometersAre
<1>4. ASSUME NEW r \in MergeEquations(e, p, k), q.lhs = r.lhs PROVE q = r
  <2>1. PICK m \in MergedNames(e) : r = ExitMerge(e, m, p, k)
    BY DEF MergeEquations
  <2>2. Suffixed(n, p) = Suffixed(m, p)
    BY <1>2, <1>4, <2>1, MergeName
  <2>3. IsNameAt(n, n.loc) /\ IsNameAt(m, m.loc)
    BY MergedNameIs
  <2>4. n = m
    BY <2>2, <2>3, SuffixedIs
  <2>. QED
    BY <1>1, <2>1, <2>4
<1>. QED
  BY <1>2, <1>3, <1>4

-----------------------------------------------------------------------------
(* Where the names of a round are: those of the copies, of the connectors, *)
(* and those merged behind a loop.                                         *)

NameOfCopy(x, e, o) == x.loc \in Body(e) /\ x.odo = o
NameOfMerge(x, e, p) == x.loc \in Span(e) /\ x.odo = p

(* An odometer as long as its location is deep belongs to one copy.        *)
LEMMA CopyIsUnique ==
    ASSUME ProgramOK, NEW e \in Loops, NEW f \in Loops, NEW k \in Nat, NEW j \in Nat,
           NEW o \in Odometers(Depth(e), k), NEW p \in Odometers(Depth(f), j), NEW x,
           NameOfCopy(x, e, o), NameOfCopy(x, f, p)
    PROVE  e = f /\ o = p
BY BodyIs DEF NameOfCopy

LEMMA MergeIsNotCopy ==
    ASSUME ProgramOK, NEW e \in Loops, NEW f \in Loops, NEW k \in Nat, NEW j \in Nat,
           NEW o \in Odometers(Depth(e), k), NEW p \in Odometers(Depth(f) - 1, j), NEW x,
           NameOfCopy(x, e, o), NameOfMerge(x, f, p)
    PROVE  FALSE
<1>1. Len(o) = Depth(e) /\ Len(p) = Depth(f) - 1
  BY DepthIs, OdometersAre
<1>2. Level(x.loc) = Depth(e)
  BY BodyIs DEF NameOfCopy
<1>3. Level(x.loc) >= Depth(f)
  BY SpanDepth DEF NameOfMerge
<1>. QED
  BY <1>1, <1>2, <1>3, DepthIs DEF NameOfCopy, NameOfMerge

LEMMA MergeIsUnique ==
    ASSUME ProgramOK, NEW e \in Loops, NEW f \in Loops, NEW k \in Nat, NEW j \in Nat,
           NEW o \in Odometers(Depth(e) - 1, k), NEW p \in Odometers(Depth(f) - 1, j), NEW x,
           NameOfMerge(x, e, o), NameOfMerge(x, f, p)
    PROVE  e = f /\ o = p
<1>1. Len(o) = Depth(e) - 1 /\ Len(p) = Depth(f) - 1 /\ o = p
  BY DepthIs, OdometersAre DEF NameOfMerge
<1>2. Depth(e) = Depth(f)
  BY <1>1, DepthIs
<1>. QED
  BY <1>1, <1>2, SameDepth DEF NameOfMerge

LEMMA AddedAre ==
    ASSUME ProgramOK, NEW e \in Loops, NEW k \in Nat, NEW o \in Added(Depth(e), k)
    PROVE  o \in Odometers(Depth(e), k) /\ \E i \in 1..Depth(e) : o[i] = k
BY DEF Added

LEMMA EntryIs ==
    ASSUME ProgramOK, NEW e \in Loops, NEW k \in Nat, NEW p \in Odometers(Depth(e) - 1, k)
    PROVE  Append(p, k) \in Odometers(Depth(e), k) /\ Append(p, k)[Depth(e)] = k
BY DepthIs, AppendIs

LEMMA BodyAtIs ==
    ASSUME ProgramOK, NEW e \in Loops, NEW k \in Nat, NEW q, NEW o, BodyAt(q, k, e, o)
    PROVE  /\ o \in Odometers(Depth(e), k) /\ \E i \in 1..Depth(e) : o[i] = k
           /\ NameOfCopy(q.lhs, e, o) /\ q.lhs.loc # HeadOf(e)
           /\ \A r : BodyAt(r, k, e, o) /\ q.lhs = r.lhs => q = r
<1>1. PICK l \in Body(e) \ {HeadOf(e)} : o \in Added(Depth(e), k) /\ q \in CopyEquations(l, o)
  BY DEF BodyAt
<1>2. o \in Odometers(Depth(e), k) /\ \E i \in 1..Depth(e) : o[i] = k
  BY <1>1, AddedAre
<1>3. q.lhs.loc = l /\ q.lhs.odo = o
  BY <1>1, <1>2, CopyDefines
<1>4. ASSUME NEW r, BodyAt(r, k, e, o), q.lhs = r.lhs PROVE q = r
  <2>1. PICK m \in Body(e) \ {HeadOf(e)} : r \in CopyEquations(m, o)
    BY <1>4 DEF BodyAt
  <2>2. m = l
    BY <1>2, <1>3, <1>4, <2>1, CopyDefines
  <2>. QED
    BY <1>1, <1>2, <1>4, <2>1, <2>2, CopyDefines
<1>. QED
  BY <1>1, <1>2, <1>3, <1>4 DEF NameOfCopy

LEMMA EntryAtIs ==
    ASSUME ProgramOK, NEW e \in Loops, NEW k \in Nat, NEW q, NEW o, EntryAt(q, k, e, o)
    PROVE  /\ o \in Odometers(Depth(e), k) /\ o[Depth(e)] = k
           /\ NameOfCopy(q.lhs, e, o) /\ q.lhs.loc = HeadOf(e)
           /\ \A r : EntryAt(r, k, e, o) /\ q.lhs = r.lhs => q = r
<1>1. o \in Odometers(Depth(e), k) /\ o[Depth(e)] = k /\ q \in CopyEquations(HeadOf(e), o)
  BY EntryIs DEF EntryAt
<1>2. HeadOf(e) \in Body(e)
  BY HeadInBody
<1>3. q.lhs.loc = HeadOf(e) /\ q.lhs.odo = o
  BY <1>1, <1>2, CopyDefines
<1>4. ASSUME NEW r, EntryAt(r, k, e, o), q.lhs = r.lhs PROVE q = r
  <2>1. r \in CopyEquations(HeadOf(e), o)
    BY <1>4 DEF EntryAt
  <2>. QED
    BY <1>1, <1>2, <1>4, <2>1, CopyDefines
<1>. QED
  BY <1>1, <1>2, <1>3, <1>4 DEF NameOfCopy

LEMMA ConnectorAtIs ==
    ASSUME ProgramOK, NEW e \in Loops, NEW k \in Nat, NEW q, NEW o, ConnectorAt(q, k, e, o)
    PROVE  /\ o \in Odometers(Depth(e), k) /\ o[Depth(e)] > 0 /\ \E i \in 1..Depth(e) : o[i] = k
           /\ Successor(o) \in Odometers(Depth(e), k)
           /\ Successor(o)[Depth(e)] = o[Depth(e)] - 1 /\ Successor(o)[Depth(e)] < k
           /\ NameOfCopy(q.lhs, e, Successor(o)) /\ q.lhs.loc = HeadOf(e)
           /\ \A r : ConnectorAt(r, k, e, o) /\ q.lhs = r.lhs => q = r
<1>1. o \in Added(Depth(e), k) /\ o[Depth(e)] > 0 /\ q \in ConnectorEquations(e, o)
  BY DEF ConnectorAt
<1>2. o \in Odometers(Depth(e), k) /\ \E i \in 1..Depth(e) : o[i] = k
  BY <1>1, AddedAre
<1>3. Depth(e) \in Nat /\ Depth(e) >= 1
  BY DepthIs
<1>4. Successor(o) \in Odometers(Depth(e), k) /\ Successor(o)[Depth(e)] = o[Depth(e)] - 1
  BY <1>1, <1>2, <1>3, SuccessorIs
<1>5. o[Depth(e)] \in 0..k
  BY <1>2, <1>3, OdometersAre
<1>6. HeadOf(e) \in Body(e)
  BY HeadInBody
<1>7. q.lhs.loc = HeadOf(e) /\ q.lhs.odo = Successor(o)
  BY <1>1, <1>2, ConnectorDefines
<1>8. ASSUME NEW r, ConnectorAt(r, k, e, o), q.lhs = r.lhs PROVE q = r
  <2>1. r \in ConnectorEquations(e, o)
    BY <1>8 DEF ConnectorAt
  <2>. QED
    BY <1>1, <1>2, <1>8, <2>1, ConnectorDefines
<1>9. Successor(o)[Depth(e)] < k
  BY <1>4, <1>5
<1>. QED
  BY <1>1, <1>2, <1>4, <1>6, <1>7, <1>8, <1>9 DEF NameOfCopy

LEMMA MergeAtIs ==
    ASSUME ProgramOK, NamesOfLoop, NEW e \in Loops, NEW k \in Nat, NEW q, NEW p,
           MergeAt(q, k, e, p)
    PROVE  /\ p \in Odometers(Depth(e) - 1, k)
           /\ NameOfMerge(q.lhs, e, p)
           /\ \A r : MergeAt(r, k, e, p) /\ q.lhs = r.lhs => q = r
BY MergeDefines DEF MergeAt, NameOfMerge

(* The equations of a round define every name once.                        *)
LEMMA RoundDefinesOnce ==
    ASSUME ProgramOK, NamesOfLoop, NEW k \in Nat, NEW q, Forever(q, k) \/ InRound(q, k),
           NEW r, Forever(r, k) \/ InRound(r, k),
           q.lhs = r.lhs
    PROVE  q = r
<1>1. PICK e \in Loops : \E o :
        BodyAt(q, k, e, o) \/ EntryAt(q, k, e, o) \/ ConnectorAt(q, k, e, o) \/ MergeAt(q, k, e, o)
  BY DEF Forever, InRound
<1>2. PICK f \in Loops : \E o :
        BodyAt(r, k, f, o) \/ EntryAt(r, k, f, o) \/ ConnectorAt(r, k, f, o) \/ MergeAt(r, k, f, o)
  BY DEF Forever, InRound
<1>3. PICK o :
        BodyAt(q, k, e, o) \/ EntryAt(q, k, e, o) \/ ConnectorAt(q, k, e, o) \/ MergeAt(q, k, e, o)
  BY <1>1
<1>4. PICK p :
        BodyAt(r, k, f, p) \/ EntryAt(r, k, f, p) \/ ConnectorAt(r, k, f, p) \/ MergeAt(r, k, f, p)
  BY <1>2
<1>5. CASE MergeAt(q, k, e, o)
  <2>1. NameOfMerge(q.lhs, e, o) /\ o \in Odometers(Depth(e) - 1, k)
    BY <1>5, MergeAtIs
  <2>2. CASE MergeAt(r, k, f, p)
    <3>1. NameOfMerge(q.lhs, f, p) /\ p \in Odometers(Depth(f) - 1, k)
      BY <2>2, MergeAtIs
    <3>2. e = f /\ o = p
      BY <2>1, <3>1, MergeIsUnique
    <3>. QED
      BY <1>5, <2>2, <3>2, MergeAtIs
  <2>3. CASE ~MergeAt(r, k, f, p)
    <3>1. \E u \in Odometers(Depth(f), k) : NameOfCopy(q.lhs, f, u)
      BY <1>4, <2>3, BodyAtIs, EntryAtIs, ConnectorAtIs
    <3>. QED
      BY <2>1, <3>1, MergeIsNotCopy
  <2>. QED
    BY <2>2, <2>3
<1>6. CASE MergeAt(r, k, f, p) /\ ~MergeAt(q, k, e, o)
  <2>1. NameOfMerge(q.lhs, f, p) /\ p \in Odometers(Depth(f) - 1, k)
    BY <1>6, MergeAtIs
  <2>2. \E u \in Odometers(Depth(e), k) : NameOfCopy(q.lhs, e, u)
    BY <1>3, <1>6, BodyAtIs, EntryAtIs, ConnectorAtIs
  <2>. QED
    BY <2>1, <2>2, MergeIsNotCopy
<1>7. CASE BodyAt(q, k, e, o)
  <2>1. /\ o \in Odometers(Depth(e), k) /\ NameOfCopy(q.lhs, e, o) /\ q.lhs.loc # HeadOf(e)
        /\ \A s : BodyAt(s, k, e, o) /\ q.lhs = s.lhs => q = s
    BY <1>7, BodyAtIs
  <2>2. CASE BodyAt(r, k, f, p)
    <3>1. p \in Odometers(Depth(f), k) /\ NameOfCopy(q.lhs, f, p)
      BY <2>2, BodyAtIs
    <3>2. e = f /\ o = p
      BY <2>1, <3>1, CopyIsUnique
    <3>. QED
      BY <2>1, <2>2, <3>2
  <2>3. CASE EntryAt(r, k, f, p) \/ ConnectorAt(r, k, f, p)
    <3>1. q.lhs.loc = HeadOf(f) /\ \E u \in Odometers(Depth(f), k) : NameOfCopy(q.lhs, f, u)
      BY <2>3, EntryAtIs, ConnectorAtIs
    <3>2. e = f
      BY <2>1, <3>1, CopyIsUnique
    <3>. QED
      BY <2>1, <3>1, <3>2
  <2>. QED
    BY <1>4, <1>6, <1>7, <1>5, <2>2, <2>3
<1>8. CASE EntryAt(q, k, e, o)
  <2>1. /\ o \in Odometers(Depth(e), k) /\ NameOfCopy(q.lhs, e, o) /\ q.lhs.loc = HeadOf(e)
        /\ o[Depth(e)] = k
        /\ \A s : EntryAt(s, k, e, o) /\ q.lhs = s.lhs => q = s
    BY <1>8, EntryAtIs
  <2>2. CASE BodyAt(r, k, f, p)
    <3>1. p \in Odometers(Depth(f), k) /\ NameOfCopy(q.lhs, f, p) /\ q.lhs.loc # HeadOf(f)
      BY <2>2, BodyAtIs
    <3>2. e = f
      BY <2>1, <3>1, CopyIsUnique
    <3>. QED
      BY <2>1, <3>1, <3>2
  <2>3. CASE EntryAt(r, k, f, p)
    <3>1. p \in Odometers(Depth(f), k) /\ NameOfCopy(q.lhs, f, p)
      BY <2>3, EntryAtIs
    <3>2. e = f /\ o = p
      BY <2>1, <3>1, CopyIsUnique
    <3>. QED
      BY <2>1, <2>3, <3>2
  <2>4. CASE ConnectorAt(r, k, f, p)
    <3>1. /\ Successor(p) \in Odometers(Depth(f), k) /\ NameOfCopy(q.lhs, f, Successor(p))
          /\ Successor(p)[Depth(f)] < k
      BY <2>4, ConnectorAtIs
    <3>2. e = f /\ o = Successor(p)
      BY <2>1, <3>1, CopyIsUnique
    <3>. QED
      BY <2>1, <3>1, <3>2
  <2>. QED
    BY <1>4, <1>6, <1>8, <1>5, <2>2, <2>3, <2>4
<1>9. CASE ConnectorAt(q, k, e, o)
  <2>1. /\ o \in Odometers(Depth(e), k) /\ o[Depth(e)] > 0
        /\ Successor(o) \in Odometers(Depth(e), k) /\ NameOfCopy(q.lhs, e, Successor(o))
        /\ q.lhs.loc = HeadOf(e) /\ Successor(o)[Depth(e)] < k
        /\ \A s : ConnectorAt(s, k, e, o) /\ q.lhs = s.lhs => q = s
    BY <1>9, ConnectorAtIs
  <2>2. CASE BodyAt(r, k, f, p)
    <3>1. p \in Odometers(Depth(f), k) /\ NameOfCopy(q.lhs, f, p) /\ q.lhs.loc # HeadOf(f)
      BY <2>2, BodyAtIs
    <3>2. e = f
      BY <2>1, <3>1, CopyIsUnique
    <3>. QED
      BY <2>1, <3>1, <3>2
  <2>3. CASE EntryAt(r, k, f, p)
    <3>1. p \in Odometers(Depth(f), k) /\ NameOfCopy(q.lhs, f, p) /\ p[Depth(f)] = k
      BY <2>3, EntryAtIs
    <3>2. e = f /\ Successor(o) = p
      BY <2>1, <3>1, CopyIsUnique
    <3>. QED
      BY <2>1, <3>1, <3>2
  <2>4. CASE ConnectorAt(r, k, f, p)
    <3>1. /\ p \in Odometers(Depth(f), k) /\ p[Depth(f)] > 0
          /\ Successor(p) \in Odometers(Depth(f), k) /\ NameOfCopy(q.lhs, f, Successor(p))
      BY <2>4, ConnectorAtIs
    <3>2. e = f /\ Successor(o) = Successor(p)
      BY <2>1, <3>1, CopyIsUnique
    <3>3. o = p
      BY <2>1, <3>1, <3>2, DepthIs, SuccessorInjective
    <3>. QED
      BY <2>1, <2>4, <3>2, <3>3
  <2>. QED
    BY <1>4, <1>6, <1>9, <1>5, <2>2, <2>3, <2>4
<1>. QED
  BY <1>3, <1>5, <1>7, <1>8, <1>9

-----------------------------------------------------------------------------
(* What the rounds up to k have left that stays: names outside of the      *)
(* loops, and those of copies with no index above k; at the head of a loop *)
(* only of copies that are not the first of round k.                       *)
OldName(x, k) ==
    \/ x.loc \in Loc /\ Around(x.loc) = {}
    \/ \E e \in Loops : \E o \in Odometers(Depth(e), k) :
            NameOfCopy(x, e, o) /\ (x.loc = HeadOf(e) => o[Depth(e)] < k)

LEMMA RoundIsInLoop ==
    ASSUME ProgramOK, NamesOfLoop, NEW k \in Nat, NEW q, Forever(q, k) \/ InRound(q, k)
    PROVE  Around(q.lhs.loc) # {}
<1>1. PICK e \in Loops : \E o :
        BodyAt(q, k, e, o) \/ EntryAt(q, k, e, o) \/ ConnectorAt(q, k, e, o) \/ MergeAt(q, k, e, o)
  BY DEF Forever, InRound
<1>2. PICK o : NameOfCopy(q.lhs, e, o) \/ NameOfMerge(q.lhs, e, o)
  BY <1>1, BodyAtIs, EntryAtIs, ConnectorAtIs, MergeAtIs
<1>3. q.lhs.loc \in Span(e)
  BY <1>2 DEF NameOfCopy, NameOfMerge, Body
<1>. QED
  BY <1>3, SpanDepth

LEMMA HasIndexIsNew ==
    ASSUME NEW d \in Nat, NEW k \in Nat, NEW o \in Odometers(d, k), NEW i \in 1..d
    PROVE  o[i] # k + 1
<1>1. o[i] \in 0..k
  BY OdometersAre
<1>. QED
  BY <1>1

LEMMA RoundIsNew ==
    ASSUME ProgramOK, NamesOfLoop, NEW k \in Nat, NEW q,
           Forever(q, k + 1) \/ InRound(q, k + 1), OldName(q.lhs, k)
    PROVE  FALSE
<1>1. PICK e \in Loops : \E o :
        \/ BodyAt(q, k + 1, e, o) \/ EntryAt(q, k + 1, e, o)
        \/ ConnectorAt(q, k + 1, e, o) \/ MergeAt(q, k + 1, e, o)
  BY DEF Forever, InRound
<1>2. PICK o :
        \/ BodyAt(q, k + 1, e, o) \/ EntryAt(q, k + 1, e, o)
        \/ ConnectorAt(q, k + 1, e, o) \/ MergeAt(q, k + 1, e, o)
  BY <1>1
<1>3. k + 1 \in Nat
  OBVIOUS
<1>4. PICK f \in Loops : \E p \in Odometers(Depth(f), k) :
        NameOfCopy(q.lhs, f, p) /\ (q.lhs.loc = HeadOf(f) => p[Depth(f)] < k)
  BY <1>3, RoundIsInLoop DEF OldName
<1>5. PICK p \in Odometers(Depth(f), k) :
        NameOfCopy(q.lhs, f, p) /\ (q.lhs.loc = HeadOf(f) => p[Depth(f)] < k)
  BY <1>4
<1>6. Depth(f) \in Nat /\ Depth(f) >= 1 /\ Depth(f) \in 1..Depth(f)
  BY DepthIs
<1>7. \A i \in 1..Depth(f) : p[i] # k + 1
  BY <1>6, HasIndexIsNew
<1>8. CASE BodyAt(q, k + 1, e, o)
  <2>1. /\ o \in Odometers(Depth(e), k + 1) /\ \E i \in 1..Depth(e) : o[i] = k + 1
        /\ NameOfCopy(q.lhs, e, o)
    BY <1>3, <1>8, BodyAtIs
  <2>2. e = f /\ o = p
    BY <1>3, <1>5, <2>1, CopyIsUnique
  <2>. QED
    BY <1>7, <2>1, <2>2
<1>9. CASE EntryAt(q, k + 1, e, o)
  <2>1. /\ o \in Odometers(Depth(e), k + 1) /\ o[Depth(e)] = k + 1
        /\ NameOfCopy(q.lhs, e, o)
    BY <1>3, <1>9, EntryAtIs
  <2>2. e = f /\ o = p
    BY <1>3, <1>5, <2>1, CopyIsUnique
  <2>. QED
    BY <1>6, <1>7, <2>1, <2>2
<1>10. CASE ConnectorAt(q, k + 1, e, o)
  <2>1. /\ o \in Odometers(Depth(e), k + 1) /\ o[Depth(e)] > 0
        /\ \E i \in 1..Depth(e) : o[i] = k + 1
        /\ Successor(o) \in Odometers(Depth(e), k + 1)
        /\ NameOfCopy(q.lhs, e, Successor(o)) /\ q.lhs.loc = HeadOf(e)
        /\ Successor(o)[Depth(e)] = o[Depth(e)] - 1
    BY <1>3, <1>10, ConnectorAtIs
  <2>2. e = f /\ Successor(o) = p
    BY <1>3, <1>5, <2>1, CopyIsUnique
  <2>3. PICK i \in 1..Depth(e) : o[i] = k + 1
    BY <2>1
  <2>4. CASE i = Depth(e)
    BY <1>5, <2>1, <2>2, <2>3, <2>4
  <2>5. CASE i # Depth(e)
    <3>1. i \in 1..(Depth(e) - 1)
      BY <1>6, <2>2, <2>5
    <3>2. Successor(o)[i] = o[i]
      BY <1>3, <1>6, <2>1, <2>2, <3>1, SuccessorIs
    <3>. QED
      BY <1>7, <2>2, <2>3, <3>2
  <2>. QED
    BY <2>4, <2>5
<1>11. CASE MergeAt(q, k + 1, e, o)
  <2>1. o \in Odometers(Depth(e) - 1, k + 1) /\ NameOfMerge(q.lhs, e, o)
    BY <1>3, <1>11, MergeAtIs
  <2>. QED
    BY <1>3, <1>5, <2>1, MergeIsNotCopy
<1>. QED
  BY <1>2, <1>8, <1>9, <1>10, <1>11

LEMMA ForeverIsOld ==
    ASSUME ProgramOK, NEW k \in Nat, NEW q, Forever(q, k)
    PROVE  OldName(q.lhs, k)
<1>1. PICK e \in Loops : \E o : BodyAt(q, k, e, o) \/ ConnectorAt(q, k, e, o)
  BY DEF Forever
<1>2. PICK o : BodyAt(q, k, e, o) \/ ConnectorAt(q, k, e, o)
  BY <1>1
<1>3. CASE BodyAt(q, k, e, o)
  <2>1. o \in Odometers(Depth(e), k) /\ NameOfCopy(q.lhs, e, o) /\ q.lhs.loc # HeadOf(e)
    BY <1>3, BodyAtIs
  <2>. QED
    BY <2>1 DEF OldName
<1>4. CASE ConnectorAt(q, k, e, o)
  <2>1. /\ Successor(o) \in Odometers(Depth(e), k) /\ NameOfCopy(q.lhs, e, Successor(o))
        /\ Successor(o)[Depth(e)] < k
    BY <1>4, ConnectorAtIs
  <2>. QED
    BY <2>1 DEF OldName
<1>. QED
  BY <1>2, <1>3, <1>4

LEMMA OldStaysOld ==
    ASSUME ProgramOK, NEW k \in Nat, NEW x, OldName(x, k) PROVE OldName(x, k + 1)
<1>1. CASE x.loc \in Loc /\ Around(x.loc) = {}
  BY <1>1 DEF OldName
<1>2. ASSUME NEW e \in Loops, NEW o \in Odometers(Depth(e), k),
             NameOfCopy(x, e, o), x.loc = HeadOf(e) => o[Depth(e)] < k
      PROVE  OldName(x, k + 1)
  <2>1. o \in [1..Depth(e) -> 0..k] /\ 0..k \subseteq 0..(k + 1)
    BY DEF Odometers
  <2>2. o \in Odometers(Depth(e), k + 1)
    BY <2>1 DEF Odometers
  <2>3. Depth(e) \in 1..Depth(e)
    BY DepthIs
  <2>4. o[Depth(e)] \in 0..k
    BY <2>1, <2>3
  <2>5. x.loc = HeadOf(e) => o[Depth(e)] < k + 1
    BY <2>4
  <2>. QED
    BY <1>2, <2>2, <2>5 DEF OldName
<1>. QED
  BY <1>1, <1>2 DEF OldName

-----------------------------------------------------------------------------
(* The nodes in every stage.                                               *)
BuiltNodes ==
    /\ \A n \in nodes : n.round = -1 /\ \A q \in n.equations : n.loc \in Loc /\ q.lhs.loc = n.loc
    /\ \A n, m \in nodes : \A q \in n.equations, r \in m.equations : q.lhs = r.lhs => q = r

UnwoundNodes ==
    /\ current \in Nat
    /\ \A n \in nodes :
        \/ n.round \in 0..current
        \/ n.round = -1 /\ \A q \in n.equations : OldName(q.lhs, current)
    /\ \A q, r \in Equations : q.lhs = r.lhs => q = r

NodesInv ==
    /\ stage = "built" => BuiltNodes
    /\ stage = "unwound" => UnwoundNodes

LEMMA OldNameFixed ==
    ASSUME goto' = goto PROVE \A x, j : OldName(x, j)' <=> OldName(x, j)
BY DEF OldName, NameOfCopy, Around, Loops, Loc, IsBack, IsGoto, HeadOf, Span, Body, LoopOf,
       Min, Depth, Level, Odometers

LEMMA BuildBuilds == ASSUME ProgramOK, Build PROVE BuiltNodes'
<1>1. nodes' = {Node(l) : l \in Loc} /\ goto' = goto /\ Loc' = Loc
  BY DEF Build, Loc
<1>2. \A l \in Loc : Node(l).loc = l /\ Node(l).round = -1
  BY DEF Node
<1>3. \A l \in Loc : \A q \in Node(l).equations : q.lhs.loc = l
  <2>1. \A n, l : IsNameAt(n, l) => n.loc = l
    BY DEF IsNameAt
  <2>. QED
    BY <2>1, NodeNames
<1>4. ASSUME NEW l \in Loc, NEW m \in Loc, NEW q \in Node(l).equations,
             NEW r \in Node(m).equations, q.lhs = r.lhs
      PROVE  q = r
  <2>1. l = m
    BY <1>3, <1>4
  <2>. QED
    BY <1>4, <2>1, NodeDefinesOnce
<1>. QED
  BY <1>1, <1>2, <1>3, <1>4 DEF BuiltNodes

LEMMA InitUnwinds ==
    ASSUME ProgramOK, NamesOfLoop, BuiltNodes, UnwinderInit PROVE UnwoundNodes'
<1>1. /\ nodes' = {n \in nodes : Around(n.loc) = {}} \cup NodesAdded(0)
      /\ current' = 0 /\ goto' = goto
  BY DEF UnwinderInit
<1>2. \A x : OldName(x, 0)' <=> OldName(x, 0)
  BY <1>1, OldNameFixed
<1>3. ASSUME NEW n \in nodes, Around(n.loc) = {}
      PROVE  n.round = -1 /\ \A q \in n.equations : OldName(q.lhs, 0) /\ Around(q.lhs.loc) = {}
  BY <1>3 DEF BuiltNodes, OldName
<1>4. ASSUME NEW n \in NodesAdded(0)
      PROVE  \/ n.round = -1 /\ \A q \in n.equations : Forever(q, 0)
             \/ n.round = 0 /\ \A q \in n.equations : InRound(q, 0)
  BY NodesAddedAre
<1>5. \A n \in nodes' : \/ n.round \in 0..current'
                        \/ n.round = -1 /\ \A q \in n.equations : OldName(q.lhs, 0)
  BY <1>1, <1>3, <1>4, ForeverIsOld
<1>6. ASSUME NEW n \in nodes', NEW m \in nodes', NEW q \in n.equations, NEW r \in m.equations,
             q.lhs = r.lhs
      PROVE  q = r
  <2>1. CASE n \in NodesAdded(0) /\ m \in NodesAdded(0)
    BY <1>4, <1>6, <2>1, RoundDefinesOnce
  <2>2. CASE n \in NodesAdded(0) /\ m \in nodes /\ Around(m.loc) = {}
    BY <1>3, <1>4, <1>6, <2>2, RoundIsInLoop
  <2>3. CASE n \in nodes /\ Around(n.loc) = {} /\ m \in NodesAdded(0)
    BY <1>3, <1>4, <1>6, <2>3, RoundIsInLoop
  <2>4. CASE n \in nodes /\ m \in nodes
    BY <1>6, <2>4 DEF BuiltNodes
  <2>. QED
    BY <1>1, <2>1, <2>2, <2>3, <2>4
<1>7. \A q, r \in Equations' : q.lhs = r.lhs => q = r
  BY <1>6 DEF Equations, Enabled
<1>. QED
  BY <1>1, <1>2, <1>5, <1>7 DEF UnwoundNodes

LEMMA UnwindUnwinds ==
    ASSUME ProgramOK, NamesOfLoop, UnwoundNodes, Unwind PROVE UnwoundNodes'
<1>. DEFINE k == current
<1>1. /\ nodes' = nodes \cup NodesAdded(k + 1)
      /\ current' = k + 1 /\ goto' = goto /\ k \in Nat /\ k + 1 \in Nat
  BY DEF Unwind, UnwoundNodes
<1>2. \A x, j : OldName(x, j)' <=> OldName(x, j)
  BY <1>1, OldNameFixed
<1>3. ASSUME NEW n \in nodes
      PROVE  \/ n.round \in 0..k
             \/ n.round = -1 /\ \A q \in n.equations : OldName(q.lhs, k)
  BY DEF UnwoundNodes
<1>4. ASSUME NEW n \in NodesAdded(k + 1)
      PROVE  \/ n.round = -1 /\ \A q \in n.equations : Forever(q, k + 1)
             \/ n.round = k + 1 /\ \A q \in n.equations : InRound(q, k + 1)
  BY <1>1, NodesAddedAre
<1>5. \A n \in nodes' : \/ n.round \in 0..(k + 1)
                        \/ n.round = -1 /\ \A q \in n.equations : OldName(q.lhs, k + 1)
  BY <1>1, <1>3, <1>4, ForeverIsOld, OldStaysOld
<1>6. ASSUME NEW n \in nodes', NEW m \in nodes', NEW q \in n.equations, NEW r \in m.equations,
             n.round \in {-1, k + 1}, m.round \in {-1, k + 1}, q.lhs = r.lhs
      PROVE  q = r
  <2>1. CASE n \in NodesAdded(k + 1) /\ m \in NodesAdded(k + 1)
    BY <1>1, <1>4, <1>6, <2>1, RoundDefinesOnce
  <2>2. CASE n \in NodesAdded(k + 1) /\ m \in nodes
    <3>1. OldName(r.lhs, k)
      BY <1>1, <1>3, <1>6, <2>2
    <3>. QED
      BY <1>1, <1>4, <1>6, <2>2, <3>1, RoundIsNew
  <2>3. CASE n \in nodes /\ m \in NodesAdded(k + 1)
    <3>1. OldName(q.lhs, k)
      BY <1>1, <1>3, <1>6, <2>3
    <3>. QED
      BY <1>1, <1>4, <1>6, <2>3, <3>1, RoundIsNew
  <2>4. CASE n \in nodes /\ m \in nodes
    <3>1. n.round = -1 /\ m.round = -1
      BY <1>1, <1>3, <1>6, <2>4
    <3>2. q \in Equations /\ r \in Equations
      BY <2>4, <3>1 DEF Equations, Enabled
    <3>. QED
      BY <1>6, <3>2 DEF UnwoundNodes
  <2>. QED
    BY <1>1, <2>1, <2>2, <2>3, <2>4
<1>7. \A q, r \in Equations' : q.lhs = r.lhs => q = r
  BY <1>1, <1>6 DEF Equations, Enabled
<1>. QED
  BY <1>1, <1>2, <1>5, <1>7 DEF UnwoundNodes

(* No name has two definitions: not in the first round, and not in any     *)
(* later one, as long as the function is one the passes make (it has the   *)
(* structure the runs check) - whatever the mode, the number of loops and  *)
(* how they nest.                                                          *)
THEOREM NamesAreDefinedOnce == ExecutionSpec /\ []Structured => []SingleAssignment
<1>1. Init => NodesInv
  BY DEF Init, AnalysisInit, NodesInv
<1>2. NodesInv /\ Structured /\ [ExecutionNext]_vars => NodesInv'
  <2>1. SUFFICES ASSUME NodesInv, Structured, [ExecutionNext]_vars PROVE NodesInv'
    OBVIOUS
  <2>2. CASE Analyse
    BY <2>2 DEF Analyse, Visit, NodesInv
  <2>3. CASE BuildSSA
    BY <2>1, <2>3, BuildBuilds DEF BuildSSA, Build, Structured, NodesInv
  <2>4. CASE InitUnwinder
    BY <2>1, <2>4, InitUnwinds DEF InitUnwinder, UnwinderInit, Structured, NodesInv
  <2>5. CASE UnwindAll
    BY <2>1, <2>5, UnwindUnwinds DEF UnwindAll, Unwind, Structured, NodesInv
  <2>6. CASE StartWalk
    BY <2>6 DEF StartWalk, NodesInv
  <2>7. CASE Step
    BY <2>7 DEF Step, NodesInv
  <2>8. CASE Return
    BY <2>8 DEF Return, NodesInv
  <2>9. CASE UNCHANGED vars
    <3>1. UNCHANGED <<goto, nodes, stage, current>>
      BY <2>9 DEF vars, unwinderVars, ssaVars
    <3>2. BuiltNodes => BuiltNodes'
      BY <3>1 DEF BuiltNodes, Loc
    <3>3. \A x, j : OldName(x, j)' <=> OldName(x, j)
      BY <3>1, OldNameFixed
    <3>4. Equations' = Equations
      BY <3>1 DEF Equations, Enabled
    <3>5. UnwoundNodes => UnwoundNodes'
      BY <3>1, <3>3, <3>4 DEF UnwoundNodes
    <3>. QED
      BY <2>1, <3>1, <3>2, <3>5 DEF NodesInv
  <2>. QED
    BY <2>1, <2>2, <2>3, <2>4, <2>5, <2>6, <2>7, <2>8, <2>9 DEF ExecutionNext
<1>3. NodesInv => SingleAssignment
  BY DEF NodesInv, UnwoundNodes, SingleAssignment
<1>. QED
  BY <1>1, <1>2, <1>3, PTL DEF ExecutionSpec

-----------------------------------------------------------------------------
(* The types.  Around a location there is exactly one loop at every depth. *)

LEMMA LoopAtIs ==
    ASSUME ProgramOK, NEW t \in Loc, NEW d \in 1..Level(t)
    PROVE  LoopAt(t, d) \in Around(t) /\ Depth(LoopAt(t, d)) = d
<1>1. /\ IsFiniteSet(Around(t)) /\ Level(t) \in Nat /\ Around(t) \subseteq Nat
      /\ Level(t) = Cardinality(Around(t))
  BY AroundIsFinite DEF Level
<1>2. ASSUME NEW e \in Around(t)
      PROVE  /\ e \in Loops /\ t \in Span(e)
             /\ {f \in Around(t) : f >= e} = Around(e)
             /\ Cardinality({f \in Around(t) : f >= e}) = Depth(e)
             /\ Depth(e) \in 1..Level(t)
  <2>1. e \in Loops /\ t \in Span(e)
    BY DEF Around
  <2>2. /\ Around(e) \subseteq Around(t)
        /\ \A f \in Around(t) : f >= e => f \in Around(e)
    BY <2>1, AroundOuter
  <2>3. \A f \in Around(e) : f >= e
    BY <2>1, HeadIsLoc DEF Around, Span
  <2>4. {f \in Around(t) : f >= e} = Around(e)
    BY <2>2, <2>3
  <2>. QED
    BY <2>1, <2>4, SpanDepth, DepthIs DEF Depth, Level
<1>3. \E e \in Around(t) : Depth(e) = d
  <2>. DEFINE T == (1..Level(t)) \ {d}
              g == [e \in Around(t) |-> Depth(e)]
  <2>1. SUFFICES ASSUME ~(\E e \in Around(t) : Depth(e) = d) PROVE FALSE
    OBVIOUS
  <2>2. g \in [Around(t) -> T]
    BY <1>2, <2>1
  <2>3. IsFiniteSet(T) /\ Cardinality(T) = Level(t) - 1
    <3>1. 1 \in Int /\ Level(t) \in Int /\ Level(t) >= 1
      BY <1>1
    <3>2. IsFiniteSet(1..Level(t)) /\ Cardinality(1..Level(t)) = Level(t)
      BY <3>1, FS_Interval
    <3>. QED
      BY <3>2, FS_RemoveElement
  <2>4. Cardinality(T) < Cardinality(Around(t))
    BY <1>1, <2>3
  <2>5. PICK a, b \in Around(t) : a # b /\ g[a] = g[b]
    <3>. HIDE DEF T, g
    <3>. QED
      BY <1>1, <2>2, <2>3, <2>4, FS_PigeonHole
  <2>6. Depth(a) = Depth(b)
    BY <2>5
  <2>. QED
    BY <1>2, <2>5, <2>6, SameDepth
<1>4. \E e \in Around(t) : Cardinality({f \in Around(t) : f >= e}) = d
  BY <1>2, <1>3
<1>5. /\ LoopAt(t, d) \in Around(t)
      /\ Cardinality({f \in Around(t) : f >= LoopAt(t, d)}) = d
  BY <1>4 DEF LoopAt
<1>. QED
  BY <1>2, <1>5

LEMMA EntryIsOutside == ASSUME ProgramOK PROVE Around(1) = {} /\ Level(1) = 0
<1>1. \A e \in Loops : 1 \notin Span(e)
  BY HeadIsLoc DEF Span
<1>2. Around(1) = {}
  BY <1>1 DEF Around
<1>. QED
  BY <1>2, FS_EmptySet DEF Level

LEMMA FunctionIs ==
    ASSUME NEW D, NEW R, NEW f, f = [x \in D |-> f[x]], \A x \in D : f[x] \in R
    PROVE  f \in [D -> R]
OBVIOUS

(* Where the walk does not run out of copies the odometer stays in range.  *)
LEMMA MovedIs ==
    ASSUME ProgramOK, NEW l \in Loc, NEW t \in Loc, MaxUnwind \in Nat, current \in 0..MaxUnwind,
           odo \in Seq(0..MaxUnwind), Len(odo) = Level(l), ~RunsOut(l, t)
    PROVE  Moved(l, t) \in Seq(0..MaxUnwind) /\ Len(Moved(l, t)) = Level(t)
<1>0. Level(t) \in Nat
  BY AroundIsFinite
<1>1. ASSUME NEW d \in 1..Level(t)
      PROVE  Moved(l, t)[d] \in Int /\ Moved(l, t)[d] <= MaxUnwind
  <2>. DEFINE e == LoopAt(t, d)
  <2>1. e \in Around(t) /\ Depth(e) = d
    BY LoopAtIs
  <2>2. CASE e \notin Around(l)
    <3>1. Moved(l, t)[d] = current
      BY <2>2 DEF Moved
    <3>. QED
      BY <3>1
  <2>3. CASE e \in Around(l)
    <3>1. e \in Loops /\ l \in Span(e)
      BY <2>3 DEF Around
    <3>2. d <= Level(l)
      BY <2>1, <3>1, SpanDepth
    <3>3. d \in 1..Len(odo)
      BY <1>0, <3>2, AroundIsFinite
    <3>4. odo[d] \in 0..MaxUnwind
      BY <3>3, ElementOfSeq
    <3>5. Moved(l, t)[d] = odo[d] \/ Moved(l, t)[d] = odo[d] - 1
      BY <2>3 DEF Moved
    <3>. QED
      BY <3>4, <3>5
  <2>. QED
    BY <2>2, <2>3
<1>2. DOMAIN Moved(l, t) = 1..Level(t)
  BY DEF Moved
<1>3. \A d \in 1..Level(t) : Moved(l, t)[d] \in 0..MaxUnwind
  BY <1>1, <1>2 DEF RunsOut
<1>4. Moved(l, t) = [d \in 1..Level(t) |-> Moved(l, t)[d]]
  BY DEF Moved
<1>5. Moved(l, t) \in [1..Level(t) -> 0..MaxUnwind]
  BY <1>3, <1>4, FunctionIs
<1>6. Moved(l, t) \in Seq(0..MaxUnwind)
  BY <1>0, <1>5, SeqDef
<1>. QED
  BY <1>0, <1>2, <1>6, LenProperties

TypeInv ==
    /\ function \in Functions /\ mode \in Modes
    /\ current \in -1..MaxUnwind /\ (stage \in {"unwound", "walk"} => current >= 0)
    /\ at \in Loc /\ odo \in Seq(0..MaxUnwind)
    /\ stage \in {"analyse", "built", "unwound"} => at = 1 /\ odo = <<>>
    /\ stage = "walk" => Len(odo) = Level(at)
    /\ env \in [Var -> Value]
    /\ \A l \in Loc : DOMAIN defs[l] \subseteq Var /\ DOMAIN phis[l] \subseteq Var
    /\ work \subseteq Loc

LEMMA InitTypes == ASSUME Init, ProgramOK PROVE TypeInv
<1>1. function \in Functions /\ mode \in Modes /\ current = -1 /\ stage = "analyse"
  BY ExecutionAssumption DEF Init, AnalysisInit
<1>2. at = 1 /\ at \in Loc /\ odo = <<>> /\ work \subseteq Loc
  BY LocIs DEF Init, AnalysisInit
<1>3. odo \in Seq(0..MaxUnwind)
  BY <1>2, EmptySeq
<1>4. env \in [Var -> Value]
  BY ExecutionAssumption DEF Init
<1>5. \A l \in Loc : DOMAIN defs[l] \subseteq Var /\ DOMAIN phis[l] \subseteq Var
  <2>1. DOMAIN EntryDefs = Var /\ DOMAIN Empty = {}
    BY DEF EntryDefs, Empty
  <2>. QED
    BY <2>1 DEF Init, AnalysisInit
<1>. QED
  BY <1>1, <1>2, <1>3, <1>4, <1>5, ExecutionAssumption DEF TypeInv

(* The analysis gives definitions to variables only.                       *)
LEMMA VisitTypes ==
    ASSUME ProgramOK, TypeInv, Visit
    PROVE  /\ \A l \in Loc : DOMAIN defs'[l] \subseteq Var /\ DOMAIN phis'[l] \subseteq Var
           /\ work' \subseteq Loc
<1>1. work \subseteq Nat /\ work # {} /\ work \subseteq Loc
  BY LocIs DEF TypeInv, Visit
<1>2. Min(work) \in Loc
  <2>1. PICK m \in work : \A y \in work : m <= y
    BY <1>1, LeastNumber
  <2>. QED
    BY <1>1, <2>1 DEF Min
<1>. DEFINE l == Min(work)
            b == Transform(l)
<1>3. DOMAIN b \subseteq Var
  <2>1. goto[l].op \in {"assign", "decl"} => goto[l].lhs \in Var
    BY <1>2 DEF ProgramOK
  <2>2. DOMAIN b = (DOMAIN defs[l] \ (IF goto[l].op = "dead" THEN {goto[l].lhs} ELSE {}))
                   \cup (IF goto[l].op \in {"assign", "decl"} THEN {goto[l].lhs} ELSE {})
    BY DEF Transform
  <2>3. DOMAIN defs[l] \subseteq Var
    BY <1>2 DEF TypeInv
  <2>. QED
    BY <2>1, <2>2, <2>3
<1>4. /\ defs' = [t \in Loc |-> IF t \in Next(l) THEN MergedDefs(t, b) ELSE defs[t]]
      /\ phis' = [t \in Loc |-> IF t \in Next(l) THEN MergedPhis(t, b) ELSE phis[t]]
      /\ work' = (work \ {l}) \cup {t \in Next(l) : Changed(l, t, b)}
  BY DEF Visit
<1>. HIDE DEF b
<1>5. ASSUME NEW t \in Loc
      PROVE  DOMAIN defs'[t] \subseteq Var /\ DOMAIN phis'[t] \subseteq Var
  <2>1. DOMAIN defs[t] \subseteq Var /\ DOMAIN phis[t] \subseteq Var
    BY DEF TypeInv
  <2>2. DOMAIN MergedDefs(t, b) = DOMAIN defs[t] \cup (DOMAIN b \ DOMAIN phis[t])
    BY DEF MergedDefs
  <2>3. DOMAIN MergedPhis(t, b) = DOMAIN phis[t] \cup {v \in DOMAIN b : Conflict(t, b, v)}
    BY DEF MergedPhis
  <2>4. defs'[t] = IF t \in Next(l) THEN MergedDefs(t, b) ELSE defs[t]
    BY <1>4
  <2>5. phis'[t] = IF t \in Next(l) THEN MergedPhis(t, b) ELSE phis[t]
    BY <1>4
  <2>. QED
    BY <1>3, <2>1, <2>2, <2>3, <2>4, <2>5
<1>6. Next(l) \subseteq Loc
  BY <1>2 DEF ProgramOK
<1>. QED
  BY <1>1, <1>4, <1>5, <1>6

LEMMA OperandIs ==
    ASSUME ProgramOK, TypeInv, goto[at].op = "assign", NEW v \in Operands(at)
    PROVE  v \in Value /\ goto[at].lhs \in Var
<1>1. goto[at].lhs \in Var /\ goto[at].rhs # "" /\ at \in Loc
  BY DEF ProgramOK, TypeInv
<1>2. goto[at] \in Instruction
  <2>1. goto \in Seq(Instruction) /\ at \in 1..Len(goto)
    BY <1>1, LenProperties DEF ProgramOK, Loc
  <2>. QED
    BY <2>1, ElementOfSeq
<1>3. goto[at].rhs \in Var \cup Value \cup {Nondet, ""}
  BY <1>2 DEF Instruction
<1>4. CASE goto[at].rhs = Nondet
  BY <1>1, <1>4, GotoProgramAssumption DEF Operands
<1>5. CASE goto[at].rhs # Nondet /\ goto[at].rhs \in Var
  BY <1>1, <1>5 DEF Operands, TypeInv
<1>6. CASE goto[at].rhs # Nondet /\ goto[at].rhs \notin Var
  BY <1>1, <1>3, <1>6 DEF Operands
<1>. QED
  BY <1>1, <1>4, <1>5, <1>6

LEMMA TargetIs ==
    ASSUME ProgramOK, TypeInv, goto[at].op # "end", NEW v
    PROVE  Target(at, v) \in Loc
<1>1. Next(at) \subseteq Loc
  BY DEF ProgramOK, TypeInv
<1>2. Target(at, v) \in Next(at)
  BY DEF Target, Next, Holds
<1>. QED
  BY <1>1, <1>2

LEMMA StepTypes == ASSUME ProgramOK, TypeInv, Step PROVE TypeInv'
<1>1. /\ stage = "walk" /\ goto[at].op # "end"
      /\ UNCHANGED <<goto, defs, phis, work, mode, current, function>>
  BY DEF Step
<1>2. Loc' = Loc /\ \A l : Level(l)' = Level(l)
  BY <1>1 DEF Loc, Level, Around, Loops, IsBack, IsGoto, Span, HeadOf
<1>3. PICK v \in Operands(at) :
        LET t == Target(at, v)
            blocked == goto[at].op = "assume" /\ ~Holds(goto[at], v)
            stuck == blocked \/ RunsOut(at, t)
        IN  /\ env' = IF goto[at].op = "assign" THEN [env EXCEPT ![goto[at].lhs] = v] ELSE env
            /\ at' = IF stuck THEN at ELSE t
            /\ odo' = IF stuck THEN odo ELSE Moved(at, t)
            /\ stage' = IF blocked THEN "blocked" ELSE IF stuck THEN "unfinished" ELSE stage
  BY DEF Step
<1>. DEFINE t == Target(at, v)
            blocked == goto[at].op = "assume" /\ ~Holds(goto[at], v)
            stuck == blocked \/ RunsOut(at, t)
<1>4. t \in Loc
  BY <1>1, TargetIs
<1>5. env' \in [Var -> Value]
  BY <1>3, OperandIs DEF TypeInv
<1>6. CASE stuck
  <2>1. at' = at /\ odo' = odo /\ stage' \in {"blocked", "unfinished"}
    BY <1>3, <1>6
  <2>. QED
    BY <1>1, <1>2, <1>5, <2>1 DEF TypeInv
<1>7. CASE ~stuck
  <2>1. at' = t /\ odo' = Moved(at, t) /\ stage' = "walk"
    BY <1>1, <1>3, <1>7
  <2>2. /\ MaxUnwind \in Nat /\ current \in 0..MaxUnwind /\ at \in Loc
        /\ odo \in Seq(0..MaxUnwind) /\ Len(odo) = Level(at)
    BY <1>1, ExecutionAssumption DEF TypeInv
  <2>3. Moved(at, t) \in Seq(0..MaxUnwind) /\ Len(Moved(at, t)) = Level(t)
    <3>1. ~RunsOut(at, t)
      BY <1>7
    <3>. HIDE DEF t
    <3>. QED
      BY <1>4, <2>2, <3>1, MovedIs
  <2>. QED
    BY <1>1, <1>2, <1>4, <1>5, <2>1, <2>3 DEF TypeInv
<1>. QED
  BY <1>6, <1>7

LEMMA NextTypes == ASSUME TypeInv, Structured, [ExecutionNext]_vars PROVE TypeInv'
<1>2. ProgramOK /\ MaxUnwind \in Nat
  BY ExecutionAssumption DEF Structured
<1>. DEFINE Fixed == Loc' = Loc /\ \A l : Level(l)' = Level(l)
<1>3. goto' = goto => Fixed
  BY DEF Loc, Level, Around, Loops, IsBack, IsGoto, Span, HeadOf
<1>4. CASE Analyse
  <2>1. /\ stage = "analyse" /\ UNCHANGED <<goto, stage, mode, current, function, at, odo, env>>
        /\ Visit
    BY <1>4 DEF Analyse, Visit, walkVars
  <2>. QED
    BY <1>2, <1>3, <2>1, VisitTypes DEF TypeInv
<1>5. CASE BuildSSA
  BY <1>2, <1>3, <1>5 DEF BuildSSA, Build, walkVars, TypeInv
<1>6. CASE InitUnwinder
  BY <1>2, <1>3, <1>6 DEF InitUnwinder, UnwinderInit, walkVars, TypeInv
<1>7. CASE UnwindAll
  BY <1>2, <1>3, <1>7 DEF UnwindAll, Unwind, walkVars, TypeInv
<1>8. CASE StartWalk
  <2>1. Len(odo) = 0 /\ Level(at) = 0
    BY <1>2, <1>8, EntryIsOutside, EmptySeq DEF StartWalk, TypeInv
  <2>. QED
    BY <1>2, <1>3, <1>8, <2>1 DEF StartWalk, TypeInv
<1>9. CASE Step
  BY <1>2, <1>9, StepTypes
<1>10. CASE Return
  BY <1>2, <1>3, <1>10 DEF Return, TypeInv
<1>11. CASE UNCHANGED vars
  BY <1>2, <1>3, <1>11 DEF vars, unwinderVars, ssaVars, walkVars, TypeInv
<1>. QED
  BY <1>4, <1>5, <1>6, <1>7, <1>8, <1>9, <1>10, <1>11 DEF ExecutionNext

(* The variables keep their types, and on its walk an execution has one    *)
(* index, between 0 and the last round, for every loop it is in.           *)
THEOREM ExecutionTypes == ExecutionSpec /\ []Structured /\ []JumpsOK => []ExecutionTypeOK
<1>1. Init /\ Structured => TypeInv
  BY InitTypes DEF Structured
<1>2. TypeInv /\ Structured /\ [ExecutionNext]_vars => TypeInv'
  BY NextTypes
<1>3. TypeInv /\ Structured /\ JumpsOK => ExecutionTypeOK
  BY DEF TypeInv, ExecutionTypeOK
<1>. QED
  BY <1>1, <1>2, <1>3, PTL DEF ExecutionSpec

-----------------------------------------------------------------------------
(* Prefixes of odometers.                                                  *)

LEMMA PrefixTo ==
    ASSUME NEW D \in Nat, NEW k \in Nat, NEW o \in Odometers(D, k), NEW d \in 0..D
    PROVE  /\ Prefix(o, d) \in Odometers(d, k)
           /\ \A i \in 1..d : Prefix(o, d)[i] = o[i]
<1>1. Len(o) = D /\ \A i \in 1..D : o[i] \in 0..k
  BY OdometersAre
<1>2. Prefix(o, d) = SubSeq(o, 1, d)
  BY <1>1 DEF Prefix
<1>3. /\ SubSeq(o, 1, d) \in Seq(0..k)
      /\ Len(SubSeq(o, 1, d)) = d
      /\ \A i \in 1..d : SubSeq(o, 1, d)[i] = o[i]
  <2>1. \A i \in 1..d : o[i] \in 0..k
    BY <1>1
  <2>2. /\ SubSeq(o, 1, d) \in Seq(0..k)
        /\ Len(SubSeq(o, 1, d)) = IF 1 <= d THEN d - 1 + 1 ELSE 0
        /\ \A i \in 1..(d - 1 + 1) : SubSeq(o, 1, d)[i] = o[1 + i - 1]
    BY <2>1, SubSeqProperties
  <2>3. d - 1 + 1 = d /\ \A i \in 1..d : 1 + i - 1 = i
    OBVIOUS
  <2>. QED
    BY <2>2, <2>3
<1>4. SubSeq(o, 1, d) \in [1..d -> 0..k]
  BY <1>3, LenProperties
<1>. QED
  BY <1>2, <1>3, <1>4 DEF Odometers

LEMMA SameOdometers ==
    ASSUME NEW d \in Nat, NEW k \in Nat, NEW o \in Odometers(d, k), NEW p \in Odometers(d, k),
           \A i \in 1..d : o[i] = p[i]
    PROVE  o = p
BY DEF Odometers

LEMMA ParentOf ==
    ASSUME NEW D \in Nat, NEW k \in Nat, NEW o \in Odometers(D, k), NEW d \in 1..D
    PROVE  /\ Parent(Prefix(o, d)) = Prefix(o, d - 1)
           /\ Parent(Prefix(o, d)) \in Odometers(d - 1, k)
<1>1. d \in 0..D /\ d - 1 \in 0..D /\ d \in Nat /\ d - 1 \in 0..d
  OBVIOUS
<1>2. Prefix(o, d) \in Odometers(d, k) /\ \A i \in 1..d : Prefix(o, d)[i] = o[i]
  BY <1>1, PrefixTo
<1>3. /\ Prefix(o, d - 1) \in Odometers(d - 1, k)
      /\ \A i \in 1..(d - 1) : Prefix(o, d - 1)[i] = o[i]
  BY <1>1, PrefixTo
<1>4. Parent(Prefix(o, d)) = Prefix(Prefix(o, d), d - 1)
  BY <1>1, <1>2, OdometersAre DEF Parent
<1>5. /\ Prefix(Prefix(o, d), d - 1) \in Odometers(d - 1, k)
      /\ \A i \in 1..(d - 1) : Prefix(Prefix(o, d), d - 1)[i] = Prefix(o, d)[i]
  BY <1>1, <1>2, PrefixTo
<1>6. \A i \in 1..(d - 1) : Prefix(Prefix(o, d), d - 1)[i] = Prefix(o, d - 1)[i]
  BY <1>1, <1>2, <1>3, <1>5
<1>7. Prefix(Prefix(o, d), d - 1) = Prefix(o, d - 1)
  BY <1>1, <1>3, <1>5, <1>6, SameOdometers
<1>. QED
  BY <1>3, <1>4, <1>7

(* The first copy that was not left: the last index is 0.                  *)
LEMMA AppendParent ==
    ASSUME NEW d \in Nat, d >= 1, NEW k \in Nat, NEW o \in Odometers(d, k)
    PROVE  \E p \in Odometers(d - 1, k) : Append(p, o[d]) = o
<1>1. d - 1 \in 0..d
  OBVIOUS
<1>2. /\ Prefix(o, d - 1) \in Odometers(d - 1, k)
      /\ \A i \in 1..(d - 1) : Prefix(o, d - 1)[i] = o[i]
  BY <1>1, PrefixTo
<1>. DEFINE p == Prefix(o, d - 1)
<1>3. o[d] \in 0..k
  BY OdometersAre
<1>4. p \in Seq(0..k) /\ Len(p) = d - 1
  <2>1. p \in [1..(d - 1) -> 0..k]
    BY <1>2 DEF Odometers
  <2>. HIDE DEF p
  <2>2. p \in Seq(0..k)
    BY <2>1, SeqDef
  <2>3. d - 1 \in Nat
    OBVIOUS
  <2>4. p \in Odometers(d - 1, k)
    BY <2>1 DEF Odometers
  <2>5. Len(p) = d - 1
    BY <2>3, <2>4, OdometersAre
  <2>. QED
    BY <2>2, <2>5
<1>. HIDE DEF p
<1>5. /\ Append(p, o[d]) \in Seq(0..k) /\ Len(Append(p, o[d])) = d
      /\ Append(p, o[d])[d] = o[d]
      /\ \A i \in 1..(d - 1) : Append(p, o[d])[i] = p[i]
  BY <1>3, <1>4, AppendProperties
<1>6. Append(p, o[d]) \in Odometers(d, k)
  <2>1. Append(p, o[d]) \in [1..d -> 0..k]
    BY <1>5, LenProperties
  <2>. QED
    BY <2>1 DEF Odometers
<1>7. \A i \in 1..d : Append(p, o[d])[i] = o[i]
  BY <1>2, <1>5 DEF p
<1>8. Append(p, o[d]) = o
  BY <1>6, <1>7, SameOdometers
<1>. QED
  BY <1>2, <1>8 DEF p

-----------------------------------------------------------------------------
(* Blocks: a location runs under the guard of the last location at or      *)
(* before it that has one, and is in the same loops as that.               *)

LEMMA GuardSourceBlock ==
    ASSUME ProgramOK, NEW l \in Loc
    PROVE  /\ GuardSource(l) \in Loc /\ GuardSource(l) \in 1..l
           /\ HasGuard(GuardSource(l))
           /\ \A g \in (GuardSource(l) + 1)..l : ~HasGuard(g)
<1>1. PICK n \in Nat : Loc = 1..n
  BY LocIs
<1>2. l \in Nat /\ l >= 1 /\ l <= n
  BY <1>1
<1>. DEFINE G == {g \in 1..l : HasGuard(g)}
<1>3. 1 \in G
  BY <1>2 DEF HasGuard
<1>4. PICK m \in G : \A g \in G : g <= m
  <2>1. G \in SUBSET (0..l) /\ G # {}
    BY <1>2, <1>3
  <2>. HIDE DEF G
  <2>. QED
    BY <1>2, <2>1, GreatestNumber
<1>5. GuardSource(l) = m
  <2>1. G \subseteq Nat
    BY <1>2
  <2>. QED
    BY <1>4, <2>1 DEF GuardSource, Max
<1>6. m \in Nat /\ m \in 1..l /\ HasGuard(m)
  BY <1>2, <1>4
<1>7. ASSUME NEW g \in (m + 1)..l, HasGuard(g) PROVE FALSE
  <2>1. g \in G /\ g > m
    BY <1>2, <1>6, <1>7
  <2>. QED
    BY <1>2, <1>4, <1>6, <2>1
<1>. QED
  BY <1>1, <1>2, <1>5, <1>6, <1>7

LEMMA BlockIsInLoops ==
    ASSUME ProgramOK, NEW l \in Loc, NEW h \in 1..l, \A g \in (h + 1)..l : ~HasGuard(g)
    PROVE  Around(h) = Around(l)
<1>1. l \in Nat /\ h \in Nat /\ h <= l
  BY LocIs
<1>2. ASSUME NEW e \in Loops
      PROVE  /\ e \in Nat /\ HeadOf(e) \in Nat /\ HeadOf(e) <= e /\ e \in Loc /\ IsGoto(goto[e])
             /\ HasGuard(HeadOf(e)) /\ HasGuard(e + 1)
  <2>1. e \in Loc /\ e \in Nat /\ HeadOf(e) \in 2..e /\ IsGoto(goto[e]) /\ HasGuard(HeadOf(e))
    BY HeadIsLoc, HeadGuardIs DEF Loops, IsBack
  <2>2. HasGuard(e + 1)
    BY <2>1 DEF HasGuard
  <2>. QED
    BY <2>1, <2>2
<1>3. ASSUME NEW e \in Around(h) PROVE e \in Around(l)
  <2>1. e \in Loops /\ HeadOf(e) <= h /\ h <= e
    BY <1>1, <1>2 DEF Around, Span
  <2>2. e >= l
    <3>1. SUFFICES ASSUME e < l PROVE FALSE
      BY <1>1, <1>2, <2>1
    <3>2. e + 1 \in (h + 1)..l
      BY <1>1, <1>2, <2>1, <3>1
    <3>. QED
      BY <1>2, <2>1, <3>2
  <2>. QED
    BY <1>1, <1>2, <2>1, <2>2 DEF Around, Span
<1>4. ASSUME NEW e \in Around(l) PROVE e \in Around(h)
  <2>1. e \in Loops /\ HeadOf(e) <= l /\ l <= e
    BY <1>1, <1>2 DEF Around, Span
  <2>2. HeadOf(e) <= h
    <3>1. SUFFICES ASSUME h < HeadOf(e) PROVE FALSE
      BY <1>1, <1>2, <2>1
    <3>2. HeadOf(e) \in (h + 1)..l
      BY <1>1, <1>2, <2>1, <3>1
    <3>. QED
      BY <1>2, <2>1, <3>2
  <2>. QED
    BY <1>1, <1>2, <2>1, <2>2 DEF Around, Span
<1>. QED
  BY <1>3, <1>4

LEMMA GuardOf ==
    ASSUME ProgramOK, NEW l \in Loc
    PROVE  /\ Around(GuardSource(l)) = Around(l) /\ Level(GuardSource(l)) = Level(l)
           /\ IsNameAt(Guard(l), GuardSource(l)) /\ Guard(l).obj = "$guard"
           /\ Guard(l).kind = "out"
<1>1. Around(GuardSource(l)) = Around(l)
  BY GuardSourceBlock, BlockIsInLoops
<1>. QED
  BY <1>1, NameIsNameAt DEF Guard, Name, Level

(* Renamed where it is used, the guard of a location is the one of the     *)
(* same copy.                                                              *)
LEMMA GuardRenamed ==
    ASSUME ProgramOK, NEW l \in Loc, NEW o \in [1..Level(l) -> Int]
    PROVE  Renamed(Guard(l), l, o) = Suffixed(Guard(l), o)
<1>. DEFINE h == GuardSource(l)
<1>1. h \in Loc /\ h # 0 /\ Around(h) = Around(l) /\ Level(h) = Level(l) /\ IsNameAt(Guard(l), h)
      /\ Guard(l).obj = "$guard"
  BY GuardSourceBlock, GuardOf, LocIs
<1>2. Guard(l).loc = h
  BY <1>1 DEF IsNameAt
<1>3. Renamed(Guard(l), l, o) = Renamed(Guard(l), h, o)
  BY <1>1, <1>2 DEF Renamed, DefLevel, LoopOf
<1>. QED
  BY <1>1, <1>3, RenamedIs

-----------------------------------------------------------------------------
(* The names the execution defines.                                        *)

LEMMA UpdatedIs ==
    ASSUME NEW f, NEW g
    PROVE  /\ DOMAIN Updated(f, g) = DOMAIN f \cup DOMAIN g
           /\ \A x \in DOMAIN f \cup DOMAIN g :
                Updated(f, g)[x] = IF x \in DOMAIN g THEN g[x] ELSE f[x]
BY DEF Updated

(* The names a location defines in one copy.                               *)
LEMMA DefinedNames ==
    ASSUME ProgramOK, TypeInv, NEW l \in Loc, NEW v
    PROVE  /\ DOMAIN Defined(l, v) = PhisAt(l) \cup GuardAt(l) \cup CondAt(l) \cup OutAt(l)
           /\ \A n \in DOMAIN Defined(l, v) : n.loc = l /\ n.odo = odo
           /\ \A n \in PhisAt(l) : n.obj \in Var /\ n.kind = "phi"
           /\ \A n \in GuardAt(l) : n.obj = "$guard" /\ n.kind = "out"
           /\ \A n \in CondAt(l) : n.obj = "$cond" /\ n.kind = "out"
           /\ \A n \in OutAt(l) : n.obj \in Var \cup {"$nondet"} /\ n.kind = "out"
<1>1. \A obj, kind : /\ Named(Name(obj, kind, l)).loc = l /\ Named(Name(obj, kind, l)).odo = odo
                     /\ Named(Name(obj, kind, l)).obj = obj /\ Named(Name(obj, kind, l)).kind = kind
  BY DEF Named, Name
<1>2. DOMAIN phis[l] \subseteq Var /\ (goto[l].op \in {"assign", "decl"} => goto[l].lhs \in Var)
  BY DEF TypeInv, ProgramOK
<1>3. ASSUME NEW n \in PhisAt(l) PROVE n.loc = l /\ n.odo = odo /\ n.obj \in Var /\ n.kind = "phi"
  BY <1>1, <1>2 DEF PhisAt
<1>4. ASSUME NEW n \in GuardAt(l)
      PROVE  n.loc = l /\ n.odo = odo /\ n.obj = "$guard" /\ n.kind = "out"
  <2>1. HasGuard(l) /\ n = Named(Guard(l))
    BY DEF GuardAt
  <2>2. Guard(l) = Name("$guard", "out", l)
    BY <2>1, GuardSourceIs DEF Guard
  <2>. QED
    BY <1>1, <2>1, <2>2
<1>5. ASSUME NEW n \in CondAt(l)
      PROVE  n.loc = l /\ n.odo = odo /\ n.obj = "$cond" /\ n.kind = "out"
  BY <1>1 DEF CondAt, Cond
<1>6. ASSUME NEW n \in OutAt(l)
      PROVE  n.loc = l /\ n.odo = odo /\ n.obj \in Var \cup {"$nondet"} /\ n.kind = "out"
  BY <1>1, <1>2 DEF OutAt
<1>7. DOMAIN Defined(l, v) = PhisAt(l) \cup GuardAt(l) \cup CondAt(l) \cup OutAt(l)
  BY DEF Defined
<1>. QED
  BY <1>3, <1>4, <1>5, <1>6, <1>7

LEMMA DefinedHere ==
    ASSUME ProgramOK, TypeInv, NEW l \in Loc, NEW v, NEW n \in DOMAIN Defined(l, v)
    PROVE  n.loc = l /\ n.odo = odo
<1>. DEFINE D == Defined(l, v)
<1>1. DOMAIN D = PhisAt(l) \cup GuardAt(l) \cup CondAt(l) \cup OutAt(l)
      /\ \A m \in DOMAIN D : m.loc = l /\ m.odo = odo
  BY DefinedNames
<1>. QED
  BY <1>1

LEMMA DefinedIs ==
    ASSUME ProgramOK, TypeInv, NEW l \in Loc, NEW v
    PROVE  /\ \A n \in PhisAt(l) : Defined(l, v)[n] = env[n.obj]
           /\ \A n \in GuardAt(l) : Defined(l, v)[n] = True
           /\ \A n \in CondAt(l) : Defined(l, v)[n] = Truth(Holds(goto[l], v))
           /\ \A n \in OutAt(l) : Defined(l, v)[n] = v
<1>1. Var \cap {"$guard", "$cond", "$nondet"} = {}
  BY GotoProgramAssumption
<1>2. /\ PhisAt(l) \cap GuardAt(l) = {} /\ PhisAt(l) \cap CondAt(l) = {}
      /\ PhisAt(l) \cap OutAt(l) = {} /\ GuardAt(l) \cap CondAt(l) = {}
      /\ GuardAt(l) \cap OutAt(l) = {} /\ CondAt(l) \cap OutAt(l) = {}
  <2>1. /\ \A n \in PhisAt(l) : n.obj \in Var /\ n.kind = "phi"
        /\ \A n \in GuardAt(l) : n.obj = "$guard" /\ n.kind = "out"
        /\ \A n \in CondAt(l) : n.obj = "$cond" /\ n.kind = "out"
        /\ \A n \in OutAt(l) : n.obj \in Var \cup {"$nondet"} /\ n.kind = "out"
    BY DefinedNames
  <2>2. \A n \in PhisAt(l) : n \notin GuardAt(l) /\ n \notin CondAt(l) /\ n \notin OutAt(l)
    BY <2>1
  <2>3. \A n \in GuardAt(l) : n \notin CondAt(l) /\ n \notin OutAt(l)
    BY <1>1, <2>1
  <2>4. \A n \in CondAt(l) : n \notin OutAt(l)
    BY <1>1, <2>1
  <2>. QED
    BY <2>2, <2>3, <2>4
<1>3. ASSUME NEW n \in PhisAt(l) \cup GuardAt(l) \cup CondAt(l) \cup OutAt(l)
      PROVE  Defined(l, v)[n] = CASE n \in PhisAt(l) -> env[n.obj]
                                  [] n \in GuardAt(l) -> True
                                  [] n \in CondAt(l) -> Truth(Holds(goto[l], v))
                                  [] n \in OutAt(l) -> v
  BY DEF Defined
<1>4. ASSUME NEW n \in PhisAt(l) PROVE Defined(l, v)[n] = env[n.obj]
  <2>1. n \notin GuardAt(l) /\ n \notin CondAt(l) /\ n \notin OutAt(l)
    BY <1>2
  <2>. QED
    BY <1>3, <2>1
<1>5. ASSUME NEW n \in GuardAt(l) PROVE Defined(l, v)[n] = True
  <2>1. n \notin PhisAt(l) /\ n \notin CondAt(l) /\ n \notin OutAt(l)
    BY <1>2
  <2>. QED
    BY <1>3, <2>1
<1>6. ASSUME NEW n \in CondAt(l) PROVE Defined(l, v)[n] = Truth(Holds(goto[l], v))
  <2>1. n \notin PhisAt(l) /\ n \notin GuardAt(l) /\ n \notin OutAt(l)
    BY <1>2
  <2>. QED
    BY <1>3, <2>1
<1>7. ASSUME NEW n \in OutAt(l) PROVE Defined(l, v)[n] = v
  <2>1. n \notin PhisAt(l) /\ n \notin GuardAt(l) /\ n \notin CondAt(l)
    BY <1>2
  <2>. QED
    BY <1>3, <2>1
<1>. QED
  BY <1>4, <1>5, <1>6, <1>7

-----------------------------------------------------------------------------
(* The merges.  A merged name has a shorter odometer than the copies of    *)
(* its location; the names of the copies stay what they are.               *)

OfCopy(n) == Len(n.odo) = Level(n.loc)

Keeps(f, g) ==
    /\ DOMAIN f \subseteq DOMAIN g
    /\ \A n \in DOMAIN g : OfCopy(n) => n \in DOMAIN f /\ g[n] = f[n]

LEMMA MergesAre ==
    ASSUME NEW e, NEW o
    PROVE  Merges(e, o) = MergeEquations(e, Parent(o), current)
BY DEF Merges, ExitMerges, NodeOf, MergeEquations, MergedNames

LEMMA MergedIsShorter ==
    ASSUME ProgramOK, NamesOfLoop, NEW e \in Loops, NEW k \in Nat,
           NEW p \in Odometers(Depth(e) - 1, k), NEW q \in MergeEquations(e, p, k)
    PROVE  ~OfCopy(q.lhs)
<1>1. q.lhs.loc \in Span(e) /\ Len(q.lhs.odo) = Depth(e) - 1
  BY MergeDefines
<1>2. Level(q.lhs.loc) >= Depth(e) /\ Depth(e) \in Nat /\ Level(q.lhs.loc) \in Nat
  BY <1>1, SpanDepth, DepthIs
<1>. QED
  BY <1>1, <1>2 DEF OfCopy

LEMMA WithMergesKeeps ==
    ASSUME ProgramOK, NamesOfLoop, current \in Nat, NEW e \in Loops, NEW f, NEW o,
           Parent(o) \in Odometers(Depth(e) - 1, current)
    PROVE  Keeps(f, WithMerges(f, e, o))
<1>. DEFINE M == {q \in Merges(e, o) : RightSide(f, q) # Unknown}
            N == {q.lhs : q \in M}
            m == [n \in N |-> RightSide(f, CHOOSE q \in Merges(e, o) : q.lhs = n)]
<1>1. WithMerges(f, e, o) = Updated(f, m)
  BY DEF WithMerges
<1>2. DOMAIN m = N
  OBVIOUS
<1>3. \A n \in N : ~OfCopy(n)
  BY MergesAre, MergedIsShorter
<1>. HIDE DEF m, N
<1>4. /\ DOMAIN Updated(f, m) = DOMAIN f \cup N
      /\ \A n \in DOMAIN f \cup N : Updated(f, m)[n] = IF n \in N THEN m[n] ELSE f[n]
  BY <1>2, Zenon DEF Updated
<1>5. ASSUME NEW n \in DOMAIN Updated(f, m), OfCopy(n)
      PROVE  n \in DOMAIN f /\ Updated(f, m)[n] = f[n]
  <2>1. n \notin N
    BY <1>3, <1>5
  <2>. QED
    BY <1>4, <2>1
<1>6. DOMAIN f \subseteq DOMAIN Updated(f, m)
  BY <1>4
<1>. QED
  BY <1>1, <1>5, <1>6 DEF Keeps

(* Leaving several loops, one after the other.                             *)
Behind(f, l, N, g) ==
    g = [d \in 0..N |-> IF d = N THEN f
                        ELSE WithMerges(g[d + 1], LoopAt(l, d + 1), Prefix(odo, d + 1))]

LEMMA BehindExists == ASSUME NEW f, NEW l, NEW N \in Nat PROVE \E g : Behind(f, l, N, g)
<1>. DEFINE Rule(g, d) == IF d = N THEN f
                          ELSE WithMerges(g[d + 1], LoopAt(l, d + 1), Prefix(odo, d + 1))
            Upto(m) == \E g : DOMAIN g = 0..N /\ g = [d \in 0..N |-> g[d]]
                              /\ \A d \in (N - m)..N : g[d] = Rule(g, d)
            Fails == {m \in 0..N : ~Upto(m)}
<1>1. Fails = {}
  <2>1. SUFFICES ASSUME Fails # {} PROVE FALSE
    OBVIOUS
  <2>2. PICK m \in Fails : \A y \in Fails : m <= y
    <3>1. Fails \in SUBSET Nat
      OBVIOUS
    <3>. HIDE DEF Fails
    <3>. QED
      BY <2>1, <3>1, LeastNumber
  <2>3. m \in 0..N /\ ~Upto(m)
    BY DEF Fails
  <2>4. CASE m = 0
    <3>. DEFINE g == [d \in 0..N |-> f]
    <3>1. \A d \in (N - 0)..N : g[d] = Rule(g, d)
      OBVIOUS
    <3>2. DOMAIN g = 0..N /\ g = [d \in 0..N |-> g[d]]
      OBVIOUS
    <3>. QED
      BY <2>3, <2>4, <3>1, <3>2
  <2>5. CASE m # 0
    <3>1. m - 1 \in 0..N /\ m - 1 < m
      BY <2>3, <2>5
    <3>2. Upto(m - 1)
      <4>1. m - 1 \notin Fails
        <5>. HIDE DEF Fails
        <5>. QED
          BY <2>2, <2>3, <3>1
      <4>. HIDE DEF Upto
      <4>. QED
        BY <3>1, <4>1
    <3>3. PICK g : /\ DOMAIN g = 0..N /\ g = [d \in 0..N |-> g[d]]
                   /\ \A d \in (N - (m - 1))..N : g[d] = Rule(g, d)
      BY <3>2
    <3>. DEFINE h == [d \in 0..N |-> IF d = N - m THEN Rule(g, d) ELSE g[d]]
    <3>4. ASSUME NEW d \in (N - m)..N PROVE h[d] = Rule(h, d)
      <4>1. d \in 0..N
        BY <2>3
      <4>2. h[d] = Rule(g, d)
        <5>1. CASE d = N - m
          BY <4>1, <5>1
        <5>2. CASE d # N - m
          <6>1. d \in (N - (m - 1))..N
            BY <2>3, <5>2
          <6>2. g[d] = Rule(g, d)
            BY <3>3, <6>1
          <6>. QED
            BY <4>1, <5>2, <6>2
        <5>. QED
          BY <5>1, <5>2
      <4>3. d # N => h[d + 1] = g[d + 1]
        BY <2>3, <4>1
      <4>. QED
        BY <4>2, <4>3
    <3>5. DOMAIN h = 0..N /\ h = [d \in 0..N |-> h[d]]
      OBVIOUS
    <3>. HIDE DEF h
    <3>. QED
      BY <2>3, <3>4, <3>5
  <2>. QED
    BY <2>4, <2>5
<1>2. Upto(N)
  BY <1>1
<1>3. PICK g : /\ DOMAIN g = 0..N /\ g = [d \in 0..N |-> g[d]]
               /\ \A d \in (N - N)..N : g[d] = Rule(g, d)
  BY <1>2
<1>4. \A d \in 0..N : g[d] = Rule(g, d)
  <2>1. N - N = 0
    OBVIOUS
  <2>. HIDE DEF Rule
  <2>. QED
    BY <1>3, <2>1
<1>5. g = [d \in 0..N |-> Rule(g, d)]
  BY <1>3, <1>4
<1>. QED
  BY <1>5 DEF Behind

LEMMA AllMergesAre ==
    ASSUME ProgramOK, NEW f, NEW l, NEW t
    PROVE  \E g : /\ Behind(f, l, Level(l), g)
                  /\ WithAllMerges(f, l, t) = g[Cardinality(Around(l) \cap Around(t))]
<1>. DEFINE g == CHOOSE g : Behind(f, l, Level(l), g)
<1>1. Behind(f, l, Level(l), g)
  BY BehindExists, AroundIsFinite
<1>2. WithAllMerges(f, l, t) = g[Cardinality(Around(l) \cap Around(t))]
  BY DEF WithAllMerges, Behind
<1>. QED
  BY <1>1, <1>2

LEMMA SharedIs ==
    ASSUME ProgramOK, NEW l, NEW t
    PROVE  /\ Cardinality(Around(l) \cap Around(t)) \in 0..Level(l)
           /\ Around(l) \subseteq Around(t) => Cardinality(Around(l) \cap Around(t)) = Level(l)
<1>1. IsFiniteSet(Around(l)) /\ Level(l) \in Nat
  BY AroundIsFinite
<1>2. Around(l) \cap Around(t) \in SUBSET Around(l)
  OBVIOUS
<1>3. /\ Cardinality(Around(l) \cap Around(t)) \in Nat
      /\ Cardinality(Around(l) \cap Around(t)) <= Level(l)
  BY <1>1, <1>2, FS_Subset, FS_CardinalityType DEF Level
<1>4. Around(l) \subseteq Around(t) => Around(l) \cap Around(t) = Around(l)
  OBVIOUS
<1>. QED
  BY <1>1, <1>3, <1>4 DEF Level

LEMMA AllMergesKeep ==
    ASSUME ProgramOK, NamesOfLoop, current \in Nat, NEW f, NEW l \in Loc, NEW t,
           odo \in Odometers(Level(l), current)
    PROVE  /\ Keeps(f, WithAllMerges(f, l, t))
           /\ Around(l) \subseteq Around(t) => WithAllMerges(f, l, t) = f
<1>. DEFINE N == Level(l)
            c == Cardinality(Around(l) \cap Around(t))
<1>1. N \in Nat /\ c \in 0..N /\ (Around(l) \subseteq Around(t) => c = N)
  BY AroundIsFinite, SharedIs
<1>2. PICK g : Behind(f, l, N, g) /\ WithAllMerges(f, l, t) = g[c]
  BY AllMergesAre
<1>3. \A d \in 0..N : g[d] = IF d = N THEN f
                             ELSE WithMerges(g[d + 1], LoopAt(l, d + 1), Prefix(odo, d + 1))
  BY <1>2 DEF Behind
<1>. DEFINE Fails == {m \in 0..N : ~Keeps(f, g[N - m])}
<1>4. Fails = {}
  <2>1. SUFFICES ASSUME Fails # {} PROVE FALSE
    OBVIOUS
  <2>2. PICK m \in Fails : \A y \in Fails : m <= y
    <3>1. Fails \in SUBSET Nat
      BY <1>1
    <3>. HIDE DEF Fails
    <3>. QED
      BY <2>1, <3>1, LeastNumber
  <2>3. m \in 0..N /\ ~Keeps(f, g[N - m])
    BY DEF Fails
  <2>4. CASE m = 0
    <3>1. g[N - m] = f
      BY <1>1, <1>3, <2>4
    <3>. QED
      BY <2>3, <3>1 DEF Keeps
  <2>5. CASE m # 0
    <3>. DEFINE d == N - m
    <3>1. m - 1 \in 0..N /\ m - 1 < m /\ d \in 0..N /\ d # N /\ d + 1 \in 1..N /\ N - (m - 1) = d + 1
      BY <1>1, <2>3, <2>5
    <3>2. Keeps(f, g[N - (m - 1)])
      BY <1>1, <2>2, <3>1
    <3>3. Keeps(f, g[d + 1])
      BY <3>1, <3>2
    <3>. DEFINE e == LoopAt(l, d + 1)
    <3>4. e \in Loops /\ Depth(e) = d + 1
      BY <3>1, LoopAtIs DEF Around
    <3>5. Parent(Prefix(odo, d + 1)) \in Odometers(Depth(e) - 1, current)
      BY <1>1, <3>1, <3>4, ParentOf
    <3>6. g[d] = WithMerges(g[d + 1], e, Prefix(odo, d + 1))
      BY <1>3, <3>1
    <3>. HIDE DEF e, d
    <3>7. Keeps(g[d + 1], g[d])
      BY <3>4, <3>5, <3>6, WithMergesKeeps
    <3>8. Keeps(f, g[d])
      BY <3>3, <3>7 DEF Keeps
    <3>. QED
      BY <2>3, <3>8 DEF d
  <2>. QED
    BY <2>4, <2>5
<1>5. Keeps(f, g[c])
  <2>1. N - c \in 0..N /\ N - (N - c) = c
    BY <1>1
  <2>2. N - c \notin Fails
    BY <1>4
  <2>. HIDE DEF c
  <2>. QED
    BY <2>1, <2>2
<1>6. c = N => g[c] = f
  BY <1>1, <1>3
<1>. QED
  BY <1>1, <1>2, <1>5, <1>6

-----------------------------------------------------------------------------
(* One step of the execution.                                              *)

LEMMA TruthIs == \A b \in BOOLEAN : (Truth(b) = True) <=> b
BY DEF Truth, True, False

LEMMA TargetIsNext ==
    ASSUME ProgramOK, NEW l \in Loc, goto[l].op # "end", NEW v
    PROVE  Target(l, v) \in Next(l) /\ Target(l, v) \in Loc
<1>1. Next(l) \subseteq Loc
  BY DEF ProgramOK
<1>2. Target(l, v) \in Next(l)
  BY DEF Target, Next, Holds
<1>. QED
  BY <1>1, <1>2

(* Into a location without a guard of its own there is one way, and on it  *)
(* no loop is entered or left.                                             *)
LEMMA FallsThrough ==
    ASSUME ProgramOK, NEW l \in Loc, NEW t \in Next(l), ~HasGuard(t)
    PROVE  /\ t = l + 1 /\ ~IsGoto(goto[l]) /\ Around(t) = Around(l) /\ Level(t) = Level(l)
           /\ GuardSource(t) = GuardSource(l) /\ Guard(t) = Guard(l)
<1>1. PICK n \in Nat : Loc = 1..n
  BY LocIs
<1>2. t \in Loc /\ l \in Nat /\ l >= 1
  <2>1. Next(l) \subseteq Loc
    BY DEF ProgramOK
  <2>. QED
    BY <1>1, <2>1
<1>3. ~IsGoto(goto[l])
  BY DEF HasGuard, Next
<1>4. t = l + 1
  BY <1>3 DEF Next
<1>5. Around(l) = Around(t)
  <2>1. l \in 1..t /\ \A g \in (l + 1)..t : ~HasGuard(g)
    BY <1>2, <1>4
  <2>. QED
    BY <1>2, <2>1, BlockIsInLoops
<1>6. {g \in 1..t : HasGuard(g)} = {g \in 1..l : HasGuard(g)}
  BY <1>2, <1>4
<1>7. GuardSource(t) = GuardSource(l)
  BY <1>6 DEF GuardSource
<1>. QED
  BY <1>3, <1>4, <1>5, <1>7 DEF Level, Guard

(* The odometer does not change where the loops around do not, unless the  *)
(* step goes back.                                                         *)
LEMMA MovedWithin ==
    ASSUME ProgramOK, NEW l \in Loc, NEW t \in Loc, Around(t) = Around(l), ~IsBack(l),
           odo \in Odometers(Level(l), current)
    PROVE  Moved(l, t) = odo
<1>1. Level(t) = Level(l) /\ odo \in [1..Level(t) -> 0..current]
  BY DEF Level, Odometers
<1>2. ASSUME NEW d \in 1..Level(t) PROVE Moved(l, t)[d] = odo[d]
  <2>1. LoopAt(t, d) \in Around(l) /\ LoopAt(t, d) \in Loops
    BY LoopAtIs DEF Around
  <2>2. l # LoopAt(t, d)
    BY <2>1 DEF Loops
  <2>. QED
    BY <2>1, <2>2 DEF Moved
<1>3. Moved(l, t) = [d \in 1..Level(t) |-> Moved(l, t)[d]]
  BY DEF Moved
<1>. QED
  BY <1>1, <1>2, <1>3

LEMMA MovedInRange ==
    ASSUME ProgramOK, NEW l \in Loc, NEW t \in Loc, current \in Nat,
           odo \in Odometers(Level(l), current), ~RunsOut(l, t)
    PROVE  Moved(l, t) \in Odometers(Level(t), current)
<1>0. Level(t) \in Nat /\ Level(l) \in Nat
  BY AroundIsFinite
<1>1. ASSUME NEW d \in 1..Level(t)
      PROVE  Moved(l, t)[d] \in 0..current
  <2>. DEFINE e == LoopAt(t, d)
  <2>1. e \in Around(t) /\ Depth(e) = d
    BY LoopAtIs
  <2>2. Moved(l, t)[d] >= 0 \/ Moved(l, t)[d] \notin Int
    BY DEF RunsOut, Moved
  <2>3. CASE e \notin Around(l)
    <3>1. Moved(l, t)[d] = current
      BY <2>3 DEF Moved
    <3>. QED
      BY <3>1
  <2>4. CASE e \in Around(l)
    <3>1. e \in Loops /\ l \in Span(e)
      BY <2>4 DEF Around
    <3>2. d <= Level(l)
      BY <2>1, <3>1, SpanDepth
    <3>3. odo[d] \in 0..current
      BY <1>0, <3>2, OdometersAre
    <3>4. Moved(l, t)[d] = odo[d] \/ Moved(l, t)[d] = odo[d] - 1
      BY <2>4 DEF Moved
    <3>. QED
      BY <2>2, <3>3, <3>4
  <2>. QED
    BY <2>3, <2>4
<1>2. Moved(l, t) = [d \in 1..Level(t) |-> Moved(l, t)[d]]
  BY DEF Moved
<1>. QED
  BY <1>1, <1>2, FunctionIs DEF Odometers

(* Where the execution runs out of copies it goes back from the last one.  *)
LEMMA RunsOutAtBack ==
    ASSUME ProgramOK, NEW l \in Loc, NEW t \in Loc, current \in Nat,
           odo \in Odometers(Level(l), current), RunsOut(l, t)
    PROVE  l \in Loops /\ t = HeadOf(l) /\ odo[Depth(l)] = 0
<1>0. Level(t) \in Nat /\ Level(l) \in Nat
  BY AroundIsFinite
<1>1. PICK d \in DOMAIN Moved(l, t) : Moved(l, t)[d] < 0
  BY DEF RunsOut
<1>2. d \in 1..Level(t)
  BY DEF Moved
<1>. DEFINE e == LoopAt(t, d)
<1>3. e \in Around(t) /\ Depth(e) = d
  BY <1>2, LoopAtIs
<1>4. e \in Around(l)
  <2>1. SUFFICES ASSUME e \notin Around(l) PROVE FALSE
    OBVIOUS
  <2>2. Moved(l, t)[d] = current
    BY <1>2, <2>1 DEF Moved
  <2>. QED
    BY <1>1, <2>2
<1>5. e \in Loops /\ l \in Span(e) /\ d <= Level(l) /\ odo[d] \in 0..current
  <2>1. e \in Loops /\ l \in Span(e)
    BY <1>4 DEF Around
  <2>2. d <= Level(l)
    BY <1>3, <2>1, SpanDepth
  <2>. QED
    BY <1>0, <1>2, <2>1, <2>2, OdometersAre
<1>6. l = e /\ t = HeadOf(e)
  <2>1. SUFFICES ASSUME ~(l = e /\ t = HeadOf(e)) PROVE FALSE
    OBVIOUS
  <2>2. Moved(l, t)[d] = odo[d]
    BY <1>2, <1>4, <2>1 DEF Moved
  <2>. QED
    BY <1>1, <1>5, <2>2
<1>7. Moved(l, t)[d] = odo[d] - 1
  BY <1>2, <1>4, <1>6 DEF Moved
<1>. QED
  BY <1>1, <1>3, <1>5, <1>6, <1>7

(* And from the last copy it cannot go back.                               *)
LEMMA BackRunsOut ==
    ASSUME ProgramOK, NEW l \in Loops, current \in Nat,
           odo \in Odometers(Depth(l), current), odo[Depth(l)] = 0
    PROVE  RunsOut(l, HeadOf(l))
<1>. DEFINE t == HeadOf(l)
            d == Depth(l)
<1>1. t \in Body(l) /\ t \in Span(l) /\ l \in Span(l)
  BY HeadInBody, HeadIsLoc DEF Span
<1>2. t \in Loc /\ Level(t) = d /\ l \in Around(t) /\ l \in Around(l)
  BY <1>1, BodyIs DEF Around
<1>3. d \in 1..Level(t)
  BY <1>2, DepthIs
<1>4. LoopAt(t, d) = l
  <2>1. LoopAt(t, d) \in Around(t) /\ Depth(LoopAt(t, d)) = d
    BY <1>2, <1>3, LoopAtIs
  <2>. QED
    BY <1>1, <2>1, SameDepth DEF Around
<1>5. Moved(l, t)[d] = odo[d] - 1 /\ d \in DOMAIN Moved(l, t)
  BY <1>2, <1>3, <1>4 DEF Moved
<1>. QED
  BY <1>5 DEF RunsOut

-----------------------------------------------------------------------------
(* The continuation conditions.                                            *)

(* While the execution goes on the odometer has an index for every loop    *)
(* around; the guard of a location that has none of its own has been found *)
(* true in this copy; and no last copy has gone back.                      *)
GuardTrue(l, f) == LET n == Suffixed(Guard(l), odo) IN n \in DOMAIN f /\ f[n] = True
GoesBack(e, o, f) == LET n == Suffixed(Cond(e), o) IN n \in DOMAIN f /\ f[n] = True
LastOf(e) == {o \in Odometers(Depth(e), current) : o[Depth(e)] = 0}

NoneGoesBack(f) == \A e \in Loops : \A o \in LastOf(e) : ~GoesBack(e, o, f)
WalkCopies ==
    /\ odo \in Odometers(Level(at), current)
    /\ ~HasGuard(at) => GuardTrue(at, val)
    /\ NoneGoesBack(val)
CopiesInv ==
    /\ stage \in {"analyse", "built", "unwound"} => odo = <<>> /\ at = 1
    /\ stage = "walk" => WalkCopies
    /\ ContinuationExact

LEMMA ContinuationsAre ==
    ASSUME ProgramOK, current \in Nat, NEW f
    PROVE  (\E c \in ContinuationConditions : AllHold(f, c))
           <=> \E e \in Loops : \E o \in LastOf(e) :
                    /\ LET n == Suffixed(Guard(e), o) IN n \in DOMAIN f /\ f[n] = True
                    /\ GoesBack(e, o, f)
<1>. DEFINE Of2(e, o) == RenamedLiterals({Is(Guard(e)), Is(Cond(e))}, e, o)
            Both(e, o) == /\ LET n == Suffixed(Guard(e), o) IN n \in DOMAIN f /\ f[n] = True
                          /\ GoesBack(e, o, f)
<1>1. ASSUME NEW e \in Loops, NEW o \in Odometers(Depth(e), current)
      PROVE  AllHold(f, Of2(e, o)) <=> Both(e, o)
  <2>1. e \in Loc /\ o \in [1..Level(e) -> Int] /\ Level(e) = Depth(e)
    BY HeadIsLoc, DepthIs, OdometersAre DEF Depth
  <2>2. Renamed(Guard(e), e, o) = Suffixed(Guard(e), o)
    BY <2>1, GuardRenamed
  <2>3. Renamed(Cond(e), e, o) = Suffixed(Cond(e), o)
    BY <2>1, RenamedIs, NameIsNameAt DEF Cond
  <2>4. Of2(e, o) = {<<Suffixed(Guard(e), o), TRUE>>, <<Suffixed(Cond(e), o), TRUE>>}
    <3>1. RenamedLiterals({Is(Guard(e)), Is(Cond(e))}, e, o)
            = {<<Renamed(Guard(e), e, o), TRUE>>, <<Renamed(Cond(e), e, o), TRUE>>}
      <4>1. RenamedLiterals({Is(Guard(e)), Is(Cond(e))}, e, o)
              = {<<Renamed(Is(Guard(e))[1], e, o), Is(Guard(e))[2]>>,
                 <<Renamed(Is(Cond(e))[1], e, o), Is(Cond(e))[2]>>}
        BY DEF RenamedLiterals
      <4>2. \A n : Is(n)[1] = n /\ Is(n)[2] = TRUE
        BY DEF Is
      <4>. QED
        BY <4>1, <4>2
    <3>. QED
      BY <2>2, <2>3, <3>1
  <2>5. ASSUME NEW n PROVE LiteralHolds(f, <<n, TRUE>>) <=> n \in DOMAIN f /\ f[n] = True
    BY DEF LiteralHolds
  <2>. QED
    BY <2>4, <2>5 DEF AllHold, GoesBack
<1>2. ASSUME NEW e \in Loops
      PROVE  {Append(p, 0) : p \in Odometers(Depth(e) - 1, current)} = LastOf(e)
  <2>1. Depth(e) \in Nat /\ Depth(e) >= 1
    BY DepthIs
  <2>2. ASSUME NEW p \in Odometers(Depth(e) - 1, current)
        PROVE  Append(p, 0) \in LastOf(e)
    <3>1. /\ p \in Seq(0..current) /\ Len(p) = Depth(e) - 1
      <4>1. p \in [1..(Depth(e) - 1) -> 0..current]
        BY DEF Odometers
      <4>. QED
        BY <2>1, <4>1, SeqDef, OdometersAre
    <3>2. /\ Append(p, 0) \in Seq(0..current) /\ Len(Append(p, 0)) = Depth(e)
          /\ Append(p, 0)[Depth(e)] = 0
      BY <2>1, <3>1, AppendProperties
    <3>3. Append(p, 0) \in [1..Depth(e) -> 0..current]
      BY <3>2, LenProperties
    <3>. QED
      BY <3>2, <3>3 DEF LastOf, Odometers
  <2>3. ASSUME NEW o \in LastOf(e)
        PROVE  o \in {Append(p, 0) : p \in Odometers(Depth(e) - 1, current)}
    <3>1. o \in Odometers(Depth(e), current) /\ o[Depth(e)] = 0
      BY DEF LastOf
    <3>. QED
      BY <2>1, <3>1, AppendParent
  <2>. QED
    BY <2>2, <2>3
<1>3. ContinuationConditions
        = UNION {{Of2(e, Append(p, 0)) : p \in Odometers(Depth(e) - 1, current)} : e \in Loops}
  BY DEF ContinuationConditions
<1>. HIDE DEF Of2, Both
<1>4. ASSUME NEW c \in ContinuationConditions, AllHold(f, c)
      PROVE  \E e \in Loops : \E o \in LastOf(e) : Both(e, o)
  <2>1. PICK e \in Loops : \E p \in Odometers(Depth(e) - 1, current) : c = Of2(e, Append(p, 0))
    BY <1>3
  <2>3. PICK p \in Odometers(Depth(e) - 1, current) : c = Of2(e, Append(p, 0))
    BY <2>1
  <2>2. Append(p, 0) \in LastOf(e)
    BY <1>2
  <2>. QED
    BY <1>1, <1>4, <2>2, <2>3 DEF LastOf
<1>5. ASSUME NEW e \in Loops, NEW o \in LastOf(e), Both(e, o)
      PROVE  \E c \in ContinuationConditions : AllHold(f, c)
  <2>1. PICK p \in Odometers(Depth(e) - 1, current) : o = Append(p, 0)
    BY <1>2
  <2>2. Of2(e, o) \in ContinuationConditions
    BY <1>3, <2>1
  <2>. QED
    BY <1>1, <1>5, <2>2 DEF LastOf
<1>. QED
  BY <1>4, <1>5 DEF Both

LEMMA StepCopies ==
    ASSUME ProgramOK, NamesOfLoop, TypeInv, CopiesInv, Step PROVE CopiesInv'
<1>1. /\ stage = "walk" /\ goto[at].op # "end"
      /\ UNCHANGED <<goto, defs, phis, work, mode, current, function>>
  BY DEF Step
<1>2. PICK v \in Operands(at) :
        LET f == Updated(val, Defined(at, v))
            t == Target(at, v)
            blocked == goto[at].op = "assume" /\ ~Holds(goto[at], v)
            stuck == blocked \/ RunsOut(at, t)
        IN  /\ at' = IF stuck THEN at ELSE t
            /\ odo' = IF stuck THEN odo ELSE Moved(at, t)
            /\ val' = IF stuck THEN f ELSE WithAllMerges(f, at, t)
            /\ stage' = IF blocked THEN "blocked" ELSE IF stuck THEN "unfinished" ELSE stage
  BY DEF Step
<1>. DEFINE f == Updated(val, Defined(at, v))
            t == Target(at, v)
            blocked == goto[at].op = "assume" /\ ~Holds(goto[at], v)
            stuck == blocked \/ RunsOut(at, t)
<1>3. at \in Loc /\ current \in Nat /\ WalkCopies
  BY <1>1 DEF TypeInv, CopiesInv
<1>4. t \in Loc /\ t \in Next(at)
  BY <1>1, <1>3, TargetIsNext
<1>5. odo \in Odometers(Level(at), current)
  BY <1>3 DEF WalkCopies
<1>. DEFINE D == Defined(at, v)
<1>a. /\ DOMAIN D = PhisAt(at) \cup GuardAt(at) \cup CondAt(at) \cup OutAt(at)
      /\ \A n \in DOMAIN D : n.loc = at /\ n.odo = odo
      /\ \A n \in PhisAt(at) : n.obj \in Var
      /\ \A n \in GuardAt(at) : n.obj = "$guard"
      /\ \A n \in OutAt(at) : n.obj \in Var \cup {"$nondet"}
  <2>. HIDE DEF t, f
  <2>. QED
    BY <1>3, DefinedNames
<1>b. /\ \A n \in GuardAt(at) : D[n] = True
      /\ \A n \in CondAt(at) : D[n] = Truth(Holds(goto[at], v))
  <2>. HIDE DEF t, f
  <2>. QED
    BY <1>3, DefinedIs
<1>c. /\ DOMAIN f = DOMAIN val \cup DOMAIN D
      /\ \A x \in DOMAIN f : f[x] = IF x \in DOMAIN D THEN D[x] ELSE val[x]
  BY DEF Updated
<1>. HIDE DEF f, t, D
<1>6. GuardTrue(at, f)
  <2>. DEFINE n == Suffixed(Guard(at), odo)
  <2>2. CASE HasGuard(at)
    <3>1. n \in GuardAt(at)
      BY <2>2 DEF GuardAt, Named, Suffixed
    <3>. QED
      BY <1>a, <1>b, <1>c, <3>1 DEF GuardTrue
  <2>3. CASE ~HasGuard(at)
    <3>1. n \in DOMAIN val /\ val[n] = True
      BY <1>3, <2>3 DEF WalkCopies, GuardTrue
    <3>2. GuardSource(at) # at
      BY <1>3, <2>3, GuardSourceBlock
    <3>3. n.loc # at
      BY <1>3, <3>2, GuardOf, SuffixedIs
    <3>4. n \notin DOMAIN D
      BY <1>a, <3>3
    <3>. QED
      BY <1>c, <3>1, <3>4 DEF GuardTrue
  <2>. QED
    BY <2>2, <2>3
<1>7. ASSUME NEW e \in Loops, NEW o \in LastOf(e), GoesBack(e, o, f)
      PROVE  e = at /\ o = odo /\ Holds(goto[at], v)
  <2>. DEFINE n == Suffixed(Cond(e), o)
  <2>1. n.loc = e /\ n.odo = o /\ n.obj = "$cond"
    <3>1. IsNameAt(Cond(e), e) /\ Cond(e).obj = "$cond"
      BY NameIsNameAt DEF Cond, Name
    <3>. QED
      BY <3>1, SuffixedIs
  <2>2. n \in DOMAIN f /\ f[n] = True
    BY <1>7 DEF GoesBack
  <2>3. n \notin DOMAIN val \/ val[n] # True
    BY <1>3 DEF WalkCopies, NoneGoesBack, GoesBack
  <2>4. n \in DOMAIN D /\ D[n] = True
    BY <1>c, <2>2, <2>3
  <2>5. e = at /\ o = odo
    BY <1>a, <2>1, <2>4
  <2>6. n \in CondAt(at)
    <3>1. "$cond" \notin Var \cup {"$guard", "$nondet"}
      BY GotoProgramAssumption
    <3>. QED
      BY <1>a, <2>1, <2>4, <3>1
  <2>7. Truth(Holds(goto[at], v)) = True
    BY <1>b, <2>4, <2>6
  <2>. QED
    BY <2>5, <2>7 DEF Truth, True, False
<1>8. ASSUME NEW e \in Loops, NEW o \in LastOf(e), GoesBack(e, o, f)
      PROVE  RunsOut(at, t) /\ ~blocked
  <2>1. e = at /\ o = odo /\ Holds(goto[at], v)
    BY <1>7, <1>8
  <2>2. at \in Loops /\ IsGoto(goto[at])
    BY <2>1 DEF Loops, IsBack
  <2>3. t = HeadOf(at)
    BY <2>1, <2>2 DEF t, Target, HeadOf
  <2>4. RunsOut(at, HeadOf(at))
    BY <1>3, <2>1, BackRunsOut DEF LastOf
  <2>. QED
    BY <2>2, <2>3, <2>4 DEF IsGoto
<1>9. RunsOut(at, t) => \E e \in Loops : \E o \in LastOf(e) :
            /\ LET n == Suffixed(Guard(e), o) IN n \in DOMAIN f /\ f[n] = True
            /\ GoesBack(e, o, f)
  <2>1. SUFFICES ASSUME RunsOut(at, t)
                 PROVE  at \in Loops /\ odo \in LastOf(at) /\ GoesBack(at, odo, f)
    BY <1>6 DEF GuardTrue
  <2>2. at \in Loops /\ t = HeadOf(at) /\ odo[Depth(at)] = 0
    BY <1>3, <1>4, <1>5, <2>1, RunsOutAtBack
  <2>3. odo \in LastOf(at)
    BY <1>5, <2>2 DEF LastOf, Depth
  <2>4. IsGoto(goto[at]) /\ Holds(goto[at], v)
    <3>1. IsGoto(goto[at]) /\ HeadOf(at) <= at /\ HeadOf(at) \in Nat /\ at \in Nat
      BY <2>2, HeadIsLoc DEF Loops, IsBack
    <3>2. t # at + 1
      BY <2>2, <3>1
    <3>. QED
      BY <3>1, <3>2 DEF t, Target
  <2>. DEFINE n == Suffixed(Cond(at), odo)
  <2>5. n \in CondAt(at)
    BY <2>4 DEF CondAt, Named, Suffixed, IsGoto
  <2>6. n \in DOMAIN D /\ D[n] = True
    BY <1>a, <1>b, <2>4, <2>5 DEF Truth
  <2>7. n \in DOMAIN f /\ f[n] = True
    BY <1>c, <2>6
  <2>. QED
    BY <2>2, <2>3, <2>7 DEF GoesBack
<1>10. /\ Loops' = Loops /\ \A l : Level(l)' = Level(l) /\ HasGuard(l)' = HasGuard(l)
       /\ \A l : Guard(l)' = Guard(l) /\ Cond(l)' = Cond(l)
  BY <1>1 DEF Loops, Loc, IsBack, Level, Around, Span, HeadOf, HasGuard, Blocks, Guard, GuardSource, Cond
<1>11. CASE stuck
  <2>1. val' = f /\ stage' = IF blocked THEN "blocked" ELSE "unfinished"
    BY <1>2, <1>11 DEF f, t
  <2>2. ContinuationConditions' = ContinuationConditions
    BY <1>1 DEF ContinuationConditions, Guard, GuardSource, HasGuard, Blocks, Cond, Loops, Loc,
                IsBack, Depth, Level, Around, Span, HeadOf, RenamedLiterals, Renamed, DefLevel, LoopOf
  <2>3. \A c : AllHold(val, c)' <=> AllHold(f, c)
    BY <2>1 DEF AllHold, LiteralHolds
  <2>4. (\E c \in ContinuationConditions : AllHold(f, c)) <=> stage' = "unfinished"
    <3>1. CASE blocked
      <4>1. stage' = "blocked"
        BY <2>1, <3>1
      <4>. QED
        BY <1>3, <1>8, <3>1, <4>1, ContinuationsAre
    <3>2. CASE ~blocked
      <4>1. stage' = "unfinished" /\ RunsOut(at, t)
        BY <1>11, <2>1, <3>2
      <4>. QED
        BY <1>3, <1>9, <4>1, ContinuationsAre
    <3>. QED
      BY <3>1, <3>2
  <2>. QED
    BY <2>1, <2>2, <2>3, <2>4 DEF CopiesInv, ContinuationExact, Over
<1>12. CASE ~stuck
  <2>1. at' = t /\ odo' = Moved(at, t) /\ val' = WithAllMerges(f, at, t) /\ stage' = "walk"
    BY <1>1, <1>2, <1>12 DEF f, t
  <2>2. Moved(at, t) \in Odometers(Level(t), current)
    BY <1>3, <1>4, <1>5, <1>12, MovedInRange
  <2>3. /\ Keeps(f, WithAllMerges(f, at, t))
        /\ Around(at) \subseteq Around(t) => WithAllMerges(f, at, t) = f
    BY <1>3, <1>5, AllMergesKeep
  <2>4. ASSUME ~HasGuard(t)
        PROVE  LET n == Suffixed(Guard(t), Moved(at, t)) IN n \in DOMAIN val' /\ val'[n] = True
    <3>1. Around(t) = Around(at) /\ ~IsGoto(goto[at]) /\ Guard(t) = Guard(at)
      BY <1>3, <1>4, <2>4, FallsThrough
    <3>2. Moved(at, t) = odo
      BY <1>3, <1>4, <1>5, <3>1, MovedWithin DEF IsBack
    <3>3. val' = f
      BY <2>1, <2>3, <3>1
    <3>. QED
      BY <1>6, <3>1, <3>2, <3>3 DEF GuardTrue
  <2>5. ASSUME NEW e \in Loops, NEW o \in LastOf(e), GoesBack(e, o, val') PROVE FALSE
    <3>. DEFINE n == Suffixed(Cond(e), o)
    <3>1. n.loc = e /\ n.odo = o
      BY SuffixedIs, NameIsNameAt DEF Cond
    <3>2. OfCopy(n)
      <4>1. Depth(e) \in Nat /\ o \in Odometers(Depth(e), current)
        BY DepthIs DEF LastOf
      <4>. QED
        BY <1>3, <3>1, <4>1, OdometersAre DEF OfCopy, Depth
    <3>3. n \in DOMAIN val' /\ val'[n] = True
      BY <2>5 DEF GoesBack
    <3>4. n \in DOMAIN f /\ f[n] = True
      BY <2>1, <2>3, <3>2, <3>3 DEF Keeps
    <3>5. GoesBack(e, o, f)
      BY <3>4 DEF GoesBack
    <3>. QED
      BY <1>8, <1>12, <3>5
  <2>6. WalkCopies'
    <3>1. odo' \in Odometers(Level(at)', current') /\ (HasGuard(at)' <=> HasGuard(t))
      BY <1>1, <1>10, <2>1, <2>2
    <3>2. ~HasGuard(at)' => GuardTrue(at, val)'
      BY <1>10, <2>1, <2>4 DEF GuardTrue, Suffixed
    <3>3. NoneGoesBack(val)'
      <4>1. \A e : LastOf(e)' = LastOf(e)
        BY <1>1, <1>10 DEF LastOf, Depth, Odometers
      <4>. QED
        BY <1>10, <2>5, <4>1 DEF NoneGoesBack, GoesBack
    <3>. QED
      BY <3>1, <3>2, <3>3 DEF WalkCopies
  <2>. QED
    BY <2>1, <2>6 DEF CopiesInv, ContinuationExact, Over
<1>. QED
  BY <1>11, <1>12

LEMMA ReturnCopies ==
    ASSUME ProgramOK, TypeInv, CopiesInv, Return PROVE CopiesInv'
<1>1. /\ stage = "walk" /\ stage' = "returned" /\ goto[at].op = "end"
      /\ UNCHANGED <<goto, current>> /\ val' = Updated(val, Defined(at, True))
      /\ at \in Loc /\ current \in Nat /\ NoneGoesBack(val)
  BY DEF Return, TypeInv, CopiesInv, WalkCopies
<1>a. \A n \in DOMAIN Defined(at, True) : n.loc = at
  <2>1. at \in Loc /\ ProgramOK /\ TypeInv
    BY <1>1
  <2>. QED
    BY <2>1, DefinedHere
<1>2. ASSUME NEW e \in Loops, NEW o \in LastOf(e), GoesBack(e, o, val') PROVE FALSE
  <2>. DEFINE n == Suffixed(Cond(e), o)
  <2>1. n.loc = e
    BY SuffixedIs, NameIsNameAt DEF Cond
  <2>2. e # at
    BY <1>1 DEF Loops, IsBack, IsGoto
  <2>3. n \notin DOMAIN Defined(at, True)
    BY <2>1, <2>2, <1>a
  <2>4. n \in DOMAIN val' /\ val'[n] = True
    BY <1>2 DEF GoesBack
  <2>5. n \in DOMAIN val /\ val[n] = True
    BY <1>1, <2>3, <2>4 DEF Updated
  <2>. QED
    BY <1>1, <2>5 DEF NoneGoesBack, GoesBack
<1>3. ~(\E c \in ContinuationConditions : AllHold(val', c))
  BY <1>1, <1>2, ContinuationsAre
<1>4. ContinuationConditions' = ContinuationConditions
  BY <1>1 DEF ContinuationConditions, Guard, GuardSource, HasGuard, Blocks, Cond, Loops, Loc,
              IsBack, Depth, Level, Around, Span, HeadOf, RenamedLiterals, Renamed, DefLevel, LoopOf
<1>5. \A c : AllHold(val, c)' <=> AllHold(val', c)
  BY DEF AllHold, LiteralHolds
<1>. QED
  BY <1>1, <1>3, <1>4, <1>5 DEF CopiesInv, ContinuationExact, Over

LEMMA NextCopies ==
    ASSUME TypeInv, CopiesInv, Structured, [ExecutionNext]_vars PROVE CopiesInv'
<1>2. ProgramOK /\ MaxUnwind \in Nat
  BY ExecutionAssumption DEF Structured
<1>3. TypeInv'
  BY NextTypes
<1>4. CASE Analyse
  BY <1>3, <1>4 DEF Analyse, Visit, walkVars, CopiesInv, ContinuationExact, Over
<1>5. CASE BuildSSA
  BY <1>3, <1>5 DEF BuildSSA, Build, walkVars, CopiesInv, ContinuationExact, Over
<1>6. CASE InitUnwinder
  BY <1>3, <1>6 DEF InitUnwinder, UnwinderInit, walkVars, CopiesInv, ContinuationExact, Over
<1>7. CASE UnwindAll
  BY <1>3, <1>7 DEF UnwindAll, Unwind, walkVars, CopiesInv, ContinuationExact, Over
<1>8. CASE StartWalk
  <2>1. /\ odo' = <<>> /\ at' = 1 /\ stage' = "walk" /\ UNCHANGED <<goto, current>>
        /\ val' = [n \in {Name(v, "in", 0) : v \in Var} |-> env[n.obj]]
    BY <1>8 DEF StartWalk, CopiesInv
  <2>2. <<>> \in Odometers(Level(1), current)
    BY <1>2, EntryIsOutside DEF Odometers
  <2>3. HasGuard(1)
    BY DEF HasGuard
  <2>4. \A n \in DOMAIN val' : n.obj \in Var
    BY <2>1 DEF Name
  <2>5. NoneGoesBack(val')
    <3>1. \A e, o : Suffixed(Cond(e), o).obj = "$cond"
      BY DEF Suffixed, Cond, Name
    <3>. QED
      BY <2>4, <3>1, GotoProgramAssumption DEF NoneGoesBack, GoesBack
  <2>6. WalkCopies'
    <3>1. Level(1)' = Level(1) /\ HasGuard(1)'
      BY <2>1 DEF Level, Around, Loops, Loc, IsBack, Span, HeadOf, HasGuard
    <3>2. NoneGoesBack(val)'
      <4>1. Loops' = Loops /\ \A e : LastOf(e)' = LastOf(e) /\ Cond(e)' = Cond(e)
        BY <2>1 DEF LastOf, Odometers, Depth, Cond, Loops, Loc, IsBack, Level, Around, Span, HeadOf
      <4>. QED
        BY <2>5, <4>1 DEF NoneGoesBack, GoesBack
    <3>. QED
      BY <2>1, <2>2, <3>1, <3>2 DEF WalkCopies, Odometers
  <2>. QED
    BY <1>3, <2>1, <2>6 DEF CopiesInv, ContinuationExact, Over
<1>9. CASE Step
  BY <1>2, <1>3, <1>9, StepCopies DEF Structured, Step
<1>10. CASE Return
  BY <1>2, <1>3, <1>10, ReturnCopies
<1>11. CASE UNCHANGED vars
  <2>1. UNCHANGED <<goto, current, stage, at, odo, val>>
    BY <1>11 DEF vars, unwinderVars, ssaVars, walkVars
  <2>2. ContinuationConditions' = ContinuationConditions
    BY <2>1 DEF ContinuationConditions, Guard, GuardSource, HasGuard, Blocks, Cond, Loops, Loc,
                IsBack, Depth, Level, Around, Span, HeadOf, RenamedLiterals, Renamed, DefLevel, LoopOf
  <2>3. WalkCopies' <=> WalkCopies
    BY <2>1 DEF WalkCopies, NoneGoesBack, GoesBack, GuardTrue, LastOf, Odometers, Depth, Cond, Guard, GuardSource, Loops, Loc, IsBack, Level, Around, Span, HeadOf, HasGuard, Blocks
  <2>4. ContinuationExact' <=> ContinuationExact
    BY <2>1, <2>2 DEF ContinuationExact, Over, AllHold, LiteralHolds
  <2>. QED
    BY <1>3, <2>1, <2>3, <2>4 DEF CopiesInv
<1>. QED
  BY <1>4, <1>5, <1>6, <1>7, <1>8, <1>9, <1>10, <1>11 DEF ExecutionNext

(* One of the continuation conditions holds exactly in the executions that *)
(* run out of copies: what is_fully_unwound asks the solver for is what it *)
(* has to know, for all functions and rounds.                              *)
THEOREM ContinuationsAreExact == ExecutionSpec /\ []Structured => []ContinuationExact
<1>. DEFINE Inv == TypeInv /\ CopiesInv
<1>1. Init /\ Structured => Inv
  <2>1. Init => CopiesInv
    BY DEF Init, AnalysisInit, CopiesInv, ContinuationExact, Over
  <2>. QED
    BY <2>1, InitTypes DEF Structured
<1>2. Inv /\ Structured /\ [ExecutionNext]_vars => Inv'
  BY NextTypes, NextCopies
<1>3. Inv => ContinuationExact
  BY DEF CopiesInv
<1>. QED
  BY <1>1, <1>2, <1>3, PTL DEF ExecutionSpec

-----------------------------------------------------------------------------
(* The order of the walk.  Location m in copy p comes before location l in *)
(* copy o: of the loops of A around both the outermost one whose indices   *)
(* differ has the higher index on the left, or they agree and m < l.       *)
Earlier(A, m, p, l, o) ==
    \/ \E e \in A \cap Around(l) :
        /\ p[Depth(e)] > o[Depth(e)]
        /\ \A g \in A \cap Around(l) : g > e => p[Depth(g)] = o[Depth(g)]
    \/ m < l /\ \A g \in A \cap Around(l) : p[Depth(g)] = o[Depth(g)]
CopyBefore(m, p, l, o) == Earlier(Around(m), m, p, l, o)
LoopBefore(e, q, l, o) == Earlier(Around(e) \ {e}, e, q, l, o)

(* The walk at l in copy o has given values to inputs, to names of copies  *)
(* it has been in, and to names merged behind loops it has left.           *)
IsInput(n) == \E v \in Var : n = Name(v, "in", 0)
PlacedCopy(n, l, o) ==
    /\ n.loc \in Loc /\ n.odo \in Odometers(Level(n.loc), current)
    /\ CopyBefore(n.loc, n.odo, l, o)
PlacedMerge(n, l, o) ==
    \E e \in Loops : /\ n.loc \in Span(e) /\ n.odo \in Odometers(Depth(e) - 1, current)
                     /\ LoopBefore(e, n.odo, l, o)
NamesPlaced(f, l, o) ==
    \A n \in DOMAIN f : IsInput(n) \/ PlacedCopy(n, l, o) \/ PlacedMerge(n, l, o)

GuardsAreTrue(f) ==
    \A n \in DOMAIN f : OfCopy(n) => /\ n.obj = "$guard" => f[n] = True
                                     /\ n.obj = "$cond" => f[n] \in {True, False}

LitsAt(L, p) == {<<Suffixed(lit[1], p), lit[2]>> : lit \in L}
SameUpto(d, p, q) == \A i \in 1..d : p[i] = q[i]

(* The conditions of the ways from g to t, and the copy of t they lead to. *)
Ways(g, t) ==
    (IF IsGoto(goto[g]) /\ goto[g].to = t THEN {{Is(Guard(g)), Is(Cond(g))}} ELSE {})
    \cup (IF t # g + 1 THEN {}
          ELSE IF IsGoto(goto[g])
          THEN IF Always(goto[g]) THEN {} ELSE {{Is(Guard(g)), IsNot(Cond(g))}}
          ELSE IF Blocks(g) THEN {{Is(Guard(g)), Is(Cond(g))}}
          ELSE {{Is(Guard(g))}})
Onwards(g, p, t) ==
    [d \in 1..Level(t) |->
        LET e == LoopAt(t, d) IN
        IF e \notin Around(g) THEN current
        ELSE IF g = e /\ t = HeadOf(e) THEN p[d] - 1
        ELSE p[d]]
Reached(f, t, u) == Suffixed(Guard(t), u) \in DOMAIN f
Arrived(f, t, u, l, o) == Reached(f, t, u) \/ (t = l /\ u = o)
InBlock(g, p, l, o) == ~IsGoto(goto[g]) /\ ~Blocks(g) /\ l \in GuardSource(g)..g /\ o = p

(* A way whose condition holds has been taken, to its end or nearly so.    *)
Followed(f, l, o) ==
    \A g \in Loc : \A p \in Odometers(Level(g), current) : \A t \in Next(g) :
        HasGuard(t) => \A L \in Ways(g, t) : AllHold(f, LitsAt(L, p)) =>
            Arrived(f, t, Onwards(g, p, t), l, o) \/ InBlock(g, p, l, o)

(* What is merged behind a loop is what one of its copies was left with.   *)
MergedExits(f) ==
    \A e \in Loops : \A q \in Odometers(Depth(e) - 1, current) : \A g \in Exits(e) :
        AllHold(f, LitsAt(ExitCondition(e, g), q)) =>
            \E p \in Odometers(Depth(e), current) :
                SameUpto(Depth(e) - 1, p, q) /\ AllHold(f, LitsAt(ExitCondition(e, g), p))

(* The walk has come to where it is and has been on one of the ways there. *)
CameBy(f, g, p, t, u, L) ==
    /\ Onwards(g, p, t) = u
    /\ AllHold(f, LitsAt(L, p))
    /\ \A e \in Around(g) \ Around(t) : AllHold(f, LitsAt(L, Prefix(p, Depth(e) - 1)))
Came(f, t, u) ==
    t = 1 \/ \E g \in Loc : t \in Next(g) /\ \E p \in Odometers(Level(g), current) :
                \E L \in Ways(g, t) : CameBy(f, g, p, t, u, L)
AllCame(f, l, o) ==
    \A t \in Loc : HasGuard(t) => \A u \in Odometers(Level(t), current) :
        Arrived(f, t, u, l, o) => Came(f, t, u)

-----------------------------------------------------------------------------
(* The order.                                                              *)

LEMMA LoopIs ==
    ASSUME ProgramOK, NEW e \in Loops
    PROVE  /\ e \in Loc /\ e \in Nat /\ HeadOf(e) \in Loc /\ HeadOf(e) \in Nat /\ HeadOf(e) <= e
           /\ Depth(e) \in Nat /\ Depth(e) >= 1 /\ Level(e) = Depth(e) /\ e \in Around(e)
           /\ IsGoto(goto[e]) /\ goto[e].to = HeadOf(e)
<1>1. e \in Loc /\ e \in Nat /\ HeadOf(e) \in Loc /\ HeadOf(e) \in 2..e
  BY HeadIsLoc
<1>2. e \in Around(e)
  BY <1>1 DEF Around, Span
<1>. QED
  BY <1>1, <1>2, DepthIs DEF Depth, Loops, IsBack, HeadOf

LEMMA AroundIs ==
    ASSUME ProgramOK, NEW l, NEW e \in Around(l)
    PROVE  /\ e \in Loops /\ l \in Span(e) /\ l \in Nat /\ HeadOf(e) <= l /\ l <= e
           /\ Around(e) \subseteq Around(l) /\ Depth(e) \in 1..Level(l)
<1>1. e \in Loops /\ l \in Span(e)
  BY DEF Around
<1>2. Depth(e) >= 1 /\ Depth(e) \in Nat /\ Level(l) >= Depth(e) /\ Level(l) \in Nat
  BY <1>1, DepthIs, SpanDepth
<1>. QED
  BY <1>1, <1>2, LoopIs, AroundOuter DEF Span

(* Those around a location are around each other.                          *)
LEMMA ChainIs ==
    ASSUME ProgramOK, NEW l, NEW e \in Around(l), NEW f \in Around(l), e < f
    PROVE  f \in Around(e) /\ e \notin Around(f) /\ Depth(f) < Depth(e)
<1>1. e \in Loops /\ f \in Loops /\ l \in Span(e) /\ l \in Span(f)
  BY DEF Around
<1>2. e \in Nat /\ f \in Nat
  BY <1>1, LoopIs
<1>3. f \in Around(e)
  BY <1>1, <1>2, AroundOuter
<1>4. e \notin Around(f)
  BY <1>2, AroundIs
<1>5. Around(f) \subseteq Around(e) /\ e \in Around(e)
  BY <1>1, <1>3, AroundIs, LoopIs
<1>6. Depth(f) < Depth(e)
  <2>1. IsFiniteSet(Around(e)) /\ Around(f) \in SUBSET Around(e) /\ Around(e) # Around(f)
    BY <1>4, <1>5, AroundIsFinite
  <2>2. Depth(e) \in Nat /\ Depth(f) \in Nat
    BY <1>1, LoopIs
  <2>. QED
    BY <2>1, <2>2, FS_Subset DEF Depth, Level
<1>. QED
  BY <1>3, <1>4, <1>6

Closed(A, m) ==
    /\ m \in Loc /\ A \subseteq Around(m) /\ Around(m) \ A \subseteq {m}
    /\ \A f \in A : Around(f) \subseteq A

LEMMA ClosedCopy == ASSUME ProgramOK, NEW m \in Loc PROVE Closed(Around(m), m)
BY AroundIs DEF Closed

LEMMA ClosedLoop == ASSUME ProgramOK, NEW e \in Loops PROVE Closed(Around(e) \ {e}, e)
<1>1. e \in Loc /\ e \in Nat /\ e \in Around(e)
  BY LoopIs
<1>2. ASSUME NEW f \in Around(e) \ {e} PROVE Around(f) \subseteq Around(e) \ {e}
  <2>1. e < f
    <3>1. e <= f /\ f \in Loops
      BY AroundIs
    <3>. QED
      BY <1>1, <3>1, LoopIs
  <2>. QED
    BY <1>1, <2>1, ChainIs, AroundIs
<1>. QED
  BY <1>1, <1>2 DEF Closed

IntAt(A, p) == \A g \in A : p[Depth(g)] \in Int

LEMMA BeforeTransitive ==
    ASSUME ProgramOK, NEW A, NEW m, Closed(A, m), NEW l \in Loc, NEW t \in Loc,
           NEW p, NEW o, NEW u, IntAt(A, p), IntAt(Around(l), o), IntAt(Around(t), u),
           Earlier(A, m, p, l, o), Earlier(Around(l), l, o, t, u)
    PROVE  Earlier(A, m, p, t, u)
<1>. DEFINE C == A \cap Around(l) \cap Around(t)
<1>0. m \in Nat /\ l \in Nat /\ t \in Nat
  BY LocIs DEF Closed
<1>1. \A f \in A : f \in Around(m) /\ f \in Loops /\ f \in Nat /\ HeadOf(f) \in Nat
                   /\ HeadOf(f) <= m /\ m <= f /\ Around(f) \subseteq A
  BY AroundIs, LoopIs DEF Closed
<1>2. \A f \in Around(l) : f \in Loops /\ f \in Nat /\ HeadOf(f) \in Nat /\ HeadOf(f) <= l /\ l <= f
                           /\ Around(f) \subseteq Around(l)
  BY AroundIs, LoopIs
<1>3. \A f \in Around(t) : f \in Loops /\ f \in Nat /\ HeadOf(f) \in Nat /\ HeadOf(f) <= t /\ t <= f
                           /\ Around(f) \subseteq Around(t)
  BY AroundIs, LoopIs
<1>4. /\ \A f, g \in Around(l) : f < g => g \in Around(f)
      /\ \A f, g \in Around(t) : f < g => g \in Around(f)
      /\ \A f, g \in A : f < g => g \in Around(f)
  BY <1>1, ChainIs
<1>5. /\ \A g \in A : p[Depth(g)] \in Int
      /\ \A g \in Around(l) : o[Depth(g)] \in Int
      /\ \A g \in Around(t) : u[Depth(g)] \in Int
  BY DEF IntAt
<1>6. ASSUME NEW e \in C, p[Depth(e)] > u[Depth(e)],
             \A g \in C : g > e => p[Depth(g)] = u[Depth(g)]
      PROVE  Earlier(A, m, p, t, u)
  <2>1. ASSUME NEW g \in A \cap Around(t), g > e PROVE g \in C
    BY <1>2, <1>3, <1>4, <2>1
  <2>. QED
    BY <1>6, <2>1 DEF Earlier
<1>7. ASSUME NEW e \in A \cap Around(l), p[Depth(e)] > o[Depth(e)],
             \A g \in A \cap Around(l) : g > e => p[Depth(g)] = o[Depth(g)]
      PROVE  Earlier(A, m, p, t, u)
  <2>1. CASE e \in Around(t)
    <3>1. ASSUME NEW d \in Around(l) \cap Around(t), o[Depth(d)] > u[Depth(d)],
                 \A g \in Around(l) \cap Around(t) : g > d => o[Depth(g)] = u[Depth(g)]
          PROVE  Earlier(A, m, p, t, u)
      <4>1. CASE d > e
        <5>1. d \in C
          BY <1>1, <1>4, <2>1, <4>1
        <5>2. p[Depth(d)] > u[Depth(d)]
          BY <1>7, <3>1, <4>1, <5>1
        <5>3. \A g \in C : g > d => p[Depth(g)] = u[Depth(g)]
          BY <1>2, <1>7, <3>1, <4>1
        <5>. QED
          BY <1>6, <5>1, <5>2, <5>3
      <4>2. CASE d <= e
        <5>1. e \in C
          BY <2>1
        <5>2. o[Depth(e)] >= u[Depth(e)]
          <6>1. d < e \/ d = e
            BY <1>2, <4>2
          <6>. QED
            BY <1>5, <2>1, <3>1, <6>1
        <5>3. p[Depth(e)] > u[Depth(e)]
          BY <1>5, <1>7, <2>1, <5>2
        <5>4. \A g \in C : g > e => p[Depth(g)] = u[Depth(g)]
          BY <1>2, <1>7, <3>1, <4>2
        <5>. QED
          BY <1>6, <5>1, <5>3, <5>4
      <4>. QED
        BY <1>2, <4>1, <4>2
    <3>2. ASSUME \A g \in Around(l) \cap Around(t) : o[Depth(g)] = u[Depth(g)]
          PROVE  Earlier(A, m, p, t, u)
      <4>1. e \in C /\ p[Depth(e)] > u[Depth(e)] /\ \A g \in C : g > e => p[Depth(g)] = u[Depth(g)]
        BY <1>7, <2>1, <3>2
      <4>. QED
        BY <1>6, <4>1
    <3>. QED
      BY <3>1, <3>2 DEF Earlier
  <2>2. CASE e \notin Around(t)
    <3>1. ASSUME NEW d \in Around(l) \cap Around(t) PROVE d > e /\ d \in C
      <4>1. d > e
        BY <1>2, <1>3, <1>4, <2>2
      <4>. QED
        BY <1>1, <1>4, <4>1
    <3>2. ASSUME NEW d \in Around(l) \cap Around(t), o[Depth(d)] > u[Depth(d)],
                 \A g \in Around(l) \cap Around(t) : g > d => o[Depth(g)] = u[Depth(g)]
          PROVE  Earlier(A, m, p, t, u)
      <4>1. d \in C /\ d > e /\ p[Depth(d)] > u[Depth(d)]
        BY <1>7, <3>1, <3>2
      <4>2. \A g \in C : g > d => p[Depth(g)] = u[Depth(g)]
        BY <1>2, <1>7, <3>1, <3>2
      <4>. QED
        BY <1>6, <4>1, <4>2
    <3>3. ASSUME l < t, \A g \in Around(l) \cap Around(t) : o[Depth(g)] = u[Depth(g)]
          PROVE  Earlier(A, m, p, t, u)
      <4>1. e < t
        <5>1. SUFFICES ASSUME t <= e PROVE FALSE
          BY <1>0, <1>2
        <5>2. t \in Span(e)
          BY <1>0, <1>2, <3>3, <5>1 DEF Span
        <5>. QED
          BY <1>2, <2>2, <5>2 DEF Around
      <4>2. m < t
        BY <1>0, <1>1, <1>2, <4>1
      <4>3. ASSUME NEW g \in A \cap Around(t) PROVE p[Depth(g)] = u[Depth(g)]
        <5>1. g > e
          BY <1>0, <1>2, <1>3, <4>1
        <5>2. g \in Around(l)
          BY <1>1, <1>2, <1>4, <5>1
        <5>. QED
          BY <1>7, <3>3, <5>1, <5>2
      <4>. QED
        BY <4>2, <4>3 DEF Earlier
    <3>. QED
      BY <3>2, <3>3 DEF Earlier
  <2>. QED
    BY <2>1, <2>2
<1>8. ASSUME m < l, \A g \in A \cap Around(l) : p[Depth(g)] = o[Depth(g)]
      PROVE  Earlier(A, m, p, t, u)
  <2>1. ASSUME NEW d \in Around(l) \cap Around(t), o[Depth(d)] > u[Depth(d)],
               \A g \in Around(l) \cap Around(t) : g > d => o[Depth(g)] = u[Depth(g)]
        PROVE  Earlier(A, m, p, t, u)
    <3>1. CASE d \in A
      <4>1. d \in C /\ p[Depth(d)] > u[Depth(d)] /\ \A g \in C : g > d => p[Depth(g)] = u[Depth(g)]
        BY <1>8, <2>1, <3>1
      <4>. QED
        BY <1>6, <4>1
    <3>2. CASE d \notin A
      <4>1. m < HeadOf(d)
        <5>1. SUFFICES ASSUME HeadOf(d) <= m PROVE FALSE
          BY <1>0, <1>2
        <5>2. m \in Span(d)
          BY <1>0, <1>2, <1>8, <5>1 DEF Span
        <5>3. d \in Around(m)
          BY <1>2, <5>2 DEF Around
        <5>4. d = m
          BY <3>2, <5>3 DEF Closed
        <5>. QED
          BY <1>0, <1>2, <1>8, <5>4
      <4>2. m < t
        BY <1>0, <1>3, <4>1
      <4>3. ASSUME NEW g \in A \cap Around(t) PROVE p[Depth(g)] = u[Depth(g)]
        <5>1. g > d
          BY <1>1, <1>3, <1>4, <3>2
        <5>2. g \in Around(l)
          BY <1>2, <1>4, <5>1
        <5>. QED
          BY <1>8, <2>1, <5>1, <5>2
      <4>. QED
        BY <4>2, <4>3 DEF Earlier
    <3>. QED
      BY <3>1, <3>2
  <2>2. ASSUME l < t, \A g \in Around(l) \cap Around(t) : o[Depth(g)] = u[Depth(g)]
        PROVE  Earlier(A, m, p, t, u)
    <3>1. m < t
      BY <1>0, <1>8, <2>2
    <3>2. ASSUME NEW g \in A \cap Around(t) PROVE p[Depth(g)] = u[Depth(g)]
      <4>1. l \in Span(g)
        BY <1>0, <1>1, <1>3, <1>8, <2>2 DEF Span
      <4>2. g \in Around(l)
        BY <1>1, <4>1 DEF Around
      <4>. QED
        BY <1>8, <2>2, <4>2
    <3>. QED
      BY <3>1, <3>2 DEF Earlier
  <2>. QED
    BY <2>1, <2>2 DEF Earlier
<1>. QED
  BY <1>7, <1>8 DEF Earlier

(* What has been left behind is not entered again: before l in its copy    *)
(* there is no l in the same copy, and no loop around it that was left.    *)
LEMMA NotBeforeItself ==
    ASSUME ProgramOK, NEW l \in Loc, NEW o, IntAt(Around(l), o)
    PROVE  ~CopyBefore(l, o, l, o)
<1>1. l \in Nat
  BY LocIs
<1>. QED
  BY <1>1 DEF CopyBefore, Earlier, IntAt

LEMMA NotBeforeInside ==
    ASSUME ProgramOK, NEW l \in Loc, NEW o, IntAt(Around(l), o), NEW e \in Around(l), NEW q,
           SameUpto(Depth(e) - 1, q, o)
    PROVE  ~LoopBefore(e, q, l, o)
<1>1. l \in Nat /\ e \in Nat /\ e \in Loops /\ l <= e /\ Depth(e) \in Nat
  BY AroundIs, LoopIs
<1>2. \A f \in Around(e) \ {e} : f \in Around(l) /\ Depth(f) \in 1..(Depth(e) - 1)
  <2>1. ASSUME NEW f \in Around(e) \ {e} PROVE f \in Around(l) /\ Depth(f) \in 1..(Depth(e) - 1)
    <3>1. f \in Around(l) /\ e \in Around(e) /\ f \in Loops /\ e <= f
      BY <1>1, AroundIs, LoopIs
    <3>2. e < f /\ Depth(f) \in Nat /\ Depth(f) >= 1
      BY <1>1, <3>1, LoopIs
    <3>3. Depth(f) < Depth(e)
      BY <3>1, <3>2, ChainIs
    <3>. QED
      BY <1>1, <3>1, <3>2, <3>3
  <2>. QED
    BY <2>1
<1>3. \A f \in Around(e) \ {e} : q[Depth(f)] = o[Depth(f)] /\ o[Depth(f)] \in Int
  BY <1>2 DEF SameUpto, IntAt
<1>. QED
  BY <1>1, <1>3 DEF LoopBefore, Earlier

LEMMA OdometerInts ==
    ASSUME ProgramOK, current \in Nat, NEW l, NEW o \in Odometers(Level(l), current)
    PROVE  IntAt(Around(l), o) /\ \A e \in Around(l) : o[Depth(e)] \in 0..current
<1>1. \A i \in 1..Level(l) : o[i] \in 0..current
  BY AroundIsFinite, OdometersAre
<1>2. \A e \in Around(l) : o[Depth(e)] \in 0..current
  BY <1>1, AroundIs
<1>. QED
  BY <1>2 DEF IntAt

(* The way from g to t: the indices of the loops that stay around.         *)
LEMMA LoopAtDepth ==
    ASSUME ProgramOK, NEW t \in Loc, NEW e \in Around(t)
    PROVE  LoopAt(t, Depth(e)) = e
<1>1. Depth(e) \in 1..Level(t) /\ e \in Loops /\ t \in Span(e)
  BY AroundIs
<1>2. LoopAt(t, Depth(e)) \in Around(t) /\ Depth(LoopAt(t, Depth(e))) = Depth(e)
  BY <1>1, LoopAtIs
<1>. QED
  BY <1>1, <1>2, SameDepth DEF Around

LEMMA OnwardsAt ==
    ASSUME ProgramOK, NEW g, NEW t \in Loc, NEW p, NEW e \in Around(t)
    PROVE  Onwards(g, p, t)[Depth(e)]
             = IF e \notin Around(g) THEN current
               ELSE IF g = e /\ t = HeadOf(e) THEN p[Depth(e)] - 1 ELSE p[Depth(e)]
<1>1. Depth(e) \in 1..Level(t) /\ LoopAt(t, Depth(e)) = e
  BY AroundIs, LoopAtDepth
<1>. QED
  BY <1>1 DEF Onwards

LEMMA MovedIsOnwards == \A l, t : Moved(l, t) = Onwards(l, odo, t)
BY DEF Moved, Onwards

(* A way goes forward, or back to the head of a loop.                      *)
LEMMA WayIs ==
    ASSUME ProgramOK, NEW g \in Loc, NEW t \in Next(g)
    PROVE  /\ t \in Loc /\ g \in Nat /\ t \in Nat
           /\ g < t \/ (g \in Loops /\ t = HeadOf(g))
<1>1. PICK n \in Nat : Loc = 1..n
  BY LocIs
<1>2. Next(g) \subseteq Loc
  BY DEF ProgramOK
<1>3. t \in Loc /\ g \in Nat /\ t \in Nat
  BY <1>1, <1>2
<1>4. ASSUME ~(g < t) PROVE g \in Loops /\ t = HeadOf(g)
  <2>1. IsGoto(goto[g]) /\ t = goto[g].to
    BY <1>3, <1>4 DEF Next
  <2>. QED
    BY <1>3, <1>4, <2>1 DEF Loops, IsBack, HeadOf
<1>. QED
  BY <1>3, <1>4

(* On a way back no loop is entered or left.                               *)
LEMMA BackStays ==
    ASSUME ProgramOK, NEW g \in Loops PROVE Around(HeadOf(g)) = Around(g) /\ HeadOf(g) \in Loc
<1>1. HeadOf(g) \in Body(g) /\ HeadOf(g) \in Loc
  BY HeadInBody, LoopIs
<1>. QED
  BY <1>1, BodyIs

(* A loop left is left behind, one that is entered lies ahead.             *)
LEMMA CrossedLoop ==
    ASSUME ProgramOK, NEW g \in Loc, NEW t \in Next(g)
    PROVE  /\ \A e \in Around(g) \ Around(t) : g < t /\ e < t
           /\ \A e \in Around(t) \ Around(g) : g < t /\ g < HeadOf(e)
<1>1. t \in Loc /\ g \in Nat /\ t \in Nat
      /\ (g < t \/ (g \in Loops /\ t = HeadOf(g)))
  BY WayIs
<1>2. Around(g) = Around(t) \/ g < t
  BY <1>1, BackStays
<1>3. ASSUME NEW e \in Around(g) \ Around(t) PROVE g < t /\ e < t
  <2>1. e \in Loops /\ e \in Nat /\ HeadOf(e) \in Nat /\ HeadOf(e) <= g /\ g <= e
    BY AroundIs, LoopIs
  <2>2. t \notin Span(e)
    BY <2>1 DEF Around
  <2>. QED
    BY <1>1, <1>2, <2>1, <2>2 DEF Span
<1>4. ASSUME NEW e \in Around(t) \ Around(g) PROVE g < t /\ g < HeadOf(e)
  <2>1. e \in Loops /\ e \in Nat /\ HeadOf(e) \in Nat /\ HeadOf(e) <= t /\ t <= e
    BY AroundIs, LoopIs
  <2>2. g \notin Span(e)
    BY <2>1 DEF Around
  <2>. QED
    BY <1>1, <1>2, <2>1, <2>2 DEF Span
<1>. QED
  BY <1>3, <1>4

LEMMA OnwardsIsAfter ==
    ASSUME ProgramOK, NEW g \in Loc, NEW t \in Next(g), NEW p, IntAt(Around(g), p)
    PROVE  /\ CopyBefore(g, p, t, Onwards(g, p, t))
           /\ \A e \in Around(g) \ Around(t) : LoopBefore(e, p, t, Onwards(g, p, t))
<1>. DEFINE u == Onwards(g, p, t)
<1>1. t \in Loc /\ g \in Nat /\ t \in Nat
      /\ (g < t \/ (g \in Loops /\ t = HeadOf(g)))
  BY WayIs
<1>2. \A e \in Around(g) \cap Around(t) :
        u[Depth(e)] = IF g = e /\ t = HeadOf(e) THEN p[Depth(e)] - 1 ELSE p[Depth(e)]
  BY <1>1, OnwardsAt
<1>. HIDE DEF u
<1>3. CASE g < t
  <2>1. \A e \in Around(g) \cap Around(t) : u[Depth(e)] = p[Depth(e)]
    <3>1. \A e \in Around(t) : t <= e
      BY AroundIs
    <3>. QED
      BY <1>1, <1>2, <1>3, <3>1
  <2>2. CopyBefore(g, p, t, u)
    BY <1>3, <2>1 DEF CopyBefore, Earlier
  <2>3. ASSUME NEW e \in Around(g) \ Around(t) PROVE LoopBefore(e, p, t, u)
    <3>1. e < t /\ Around(e) \subseteq Around(g)
      BY CrossedLoop, AroundIs
    <3>. QED
      BY <2>1, <3>1 DEF LoopBefore, Earlier
  <2>. QED
    BY <2>2, <2>3 DEF u
<1>4. CASE g \in Loops /\ t = HeadOf(g)
  <2>1. Around(t) = Around(g) /\ g \in Around(g)
    BY <1>4, BackStays, LoopIs
  <2>2. u[Depth(g)] = p[Depth(g)] - 1 /\ p[Depth(g)] \in Int
    BY <1>2, <1>4, <2>1 DEF IntAt
  <2>3. \A f \in Around(g) : f > g => p[Depth(f)] = u[Depth(f)]
    BY <1>1, <1>2, <2>1
  <2>4. CopyBefore(g, p, t, u)
    BY <2>1, <2>2, <2>3 DEF CopyBefore, Earlier
  <2>. QED
    BY <2>1, <2>4 DEF u
<1>. QED
  BY <1>1, <1>3, <1>4

-----------------------------------------------------------------------------
(* What it takes for the conditions of a way to hold.                      *)

IsTrue(f, n) == n \in DOMAIN f /\ f[n] = True
IsNotTrue(f, n) == n \in DOMAIN f /\ f[n] # True

LEMMA WayNames ==
    ASSUME ProgramOK, NEW g \in Loc, NEW p
    PROVE  /\ Suffixed(Guard(g), p).loc = GuardSource(g) /\ Suffixed(Guard(g), p).odo = p
           /\ Suffixed(Guard(g), p).obj = "$guard" /\ Suffixed(Guard(g), p).kind = "out"
           /\ Suffixed(Cond(g), p).loc = g /\ Suffixed(Cond(g), p).odo = p
           /\ Suffixed(Cond(g), p).obj = "$cond" /\ Suffixed(Cond(g), p).kind = "out"
BY DEF Suffixed, Guard, Cond, Name

LEMMA CopyNames ==
    ASSUME ProgramOK, current \in Nat, NEW g \in Loc, NEW p \in Odometers(Level(g), current)
    PROVE  OfCopy(Suffixed(Guard(g), p)) /\ OfCopy(Suffixed(Cond(g), p))
<1>1. Len(p) = Level(g) /\ Level(GuardSource(g)) = Level(g)
  BY AroundIsFinite, OdometersAre, GuardOf
<1>. QED
  BY <1>1, WayNames DEF OfCopy

LEMMA WayCases ==
    ASSUME NEW g, NEW t, NEW L \in Ways(g, t)
    PROVE  \/ L = {Is(Guard(g)), Is(Cond(g))} /\ IsGoto(goto[g]) /\ goto[g].to = t
           \/ L = {Is(Guard(g)), IsNot(Cond(g))} /\ IsGoto(goto[g]) /\ t = g + 1
           \/ L = {Is(Guard(g)), Is(Cond(g))} /\ ~IsGoto(goto[g]) /\ Blocks(g) /\ t = g + 1
           \/ L = {Is(Guard(g))} /\ ~IsGoto(goto[g]) /\ ~Blocks(g) /\ t = g + 1
BY DEF Ways

LEMMA LiteralsHold ==
    ASSUME ProgramOK, NEW g \in Loc, NEW p, NEW f
    PROVE  /\ AllHold(f, LitsAt({Is(Guard(g))}, p)) <=> IsTrue(f, Suffixed(Guard(g), p))
           /\ AllHold(f, LitsAt({Is(Guard(g)), Is(Cond(g))}, p))
                <=> IsTrue(f, Suffixed(Guard(g), p)) /\ IsTrue(f, Suffixed(Cond(g), p))
           /\ AllHold(f, LitsAt({Is(Guard(g)), IsNot(Cond(g))}, p))
                <=> IsTrue(f, Suffixed(Guard(g), p)) /\ IsNotTrue(f, Suffixed(Cond(g), p))
<1>. DEFINE G == Suffixed(Guard(g), p)
            C == Suffixed(Cond(g), p)
<1>1. /\ LitsAt({Is(Guard(g))}, p) = {<<G, TRUE>>}
      /\ LitsAt({Is(Guard(g)), Is(Cond(g))}, p) = {<<G, TRUE>>, <<C, TRUE>>}
      /\ LitsAt({Is(Guard(g)), IsNot(Cond(g))}, p) = {<<G, TRUE>>, <<C, FALSE>>}
  <2>1. /\ LitsAt({Is(Guard(g))}, p) = {<<Suffixed(Is(Guard(g))[1], p), Is(Guard(g))[2]>>}
        /\ LitsAt({Is(Guard(g)), Is(Cond(g))}, p)
              = {<<Suffixed(Is(Guard(g))[1], p), Is(Guard(g))[2]>>,
                 <<Suffixed(Is(Cond(g))[1], p), Is(Cond(g))[2]>>}
        /\ LitsAt({Is(Guard(g)), IsNot(Cond(g))}, p)
              = {<<Suffixed(Is(Guard(g))[1], p), Is(Guard(g))[2]>>,
                 <<Suffixed(IsNot(Cond(g))[1], p), IsNot(Cond(g))[2]>>}
    BY DEF LitsAt
  <2>2. \A n : Is(n)[1] = n /\ Is(n)[2] = TRUE /\ IsNot(n)[1] = n /\ IsNot(n)[2] = FALSE
    BY DEF Is, IsNot
  <2>. QED
    BY <2>1, <2>2
<1>2. C.obj # "$guard"
  BY WayNames
<1>. HIDE DEF G, C
<1>3. LiteralHolds(f, <<G, TRUE>>) <=> IsTrue(f, G)
  BY DEF LiteralHolds, IsTrue
<1>4. LiteralHolds(f, <<C, TRUE>>) <=> IsTrue(f, C)
  BY DEF LiteralHolds, IsTrue
<1>5. LiteralHolds(f, <<C, FALSE>>) <=> IsNotTrue(f, C)
  BY <1>2 DEF LiteralHolds, IsNotTrue
<1>6. /\ AllHold(f, {<<G, TRUE>>}) <=> IsTrue(f, G)
      /\ AllHold(f, {<<G, TRUE>>, <<C, TRUE>>}) <=> IsTrue(f, G) /\ IsTrue(f, C)
      /\ AllHold(f, {<<G, TRUE>>, <<C, FALSE>>}) <=> IsTrue(f, G) /\ IsNotTrue(f, C)
  BY <1>3, <1>4, <1>5 DEF AllHold
<1>. QED
  BY <1>1, <1>6 DEF G, C

Extends(f, g) == DOMAIN f \subseteq DOMAIN g /\ \A n \in DOMAIN f : g[n] = f[n]

LEMMA HoldsStill ==
    ASSUME ProgramOK, NEW g \in Loc, NEW t, NEW L \in Ways(g, t), NEW p, NEW f, NEW h,
           Extends(f, h), AllHold(f, LitsAt(L, p))
    PROVE  AllHold(h, LitsAt(L, p))
<1>1. \A n : (IsTrue(f, n) => IsTrue(h, n)) /\ (IsNotTrue(f, n) => IsNotTrue(h, n))
  BY DEF Extends, IsTrue, IsNotTrue
<1>. QED
  BY <1>1, WayCases, LiteralsHold

(* What is left behind does not change the names of copies.                *)
LEMMA HoldsAlready ==
    ASSUME ProgramOK, current \in Nat, NEW g \in Loc, NEW t, NEW L \in Ways(g, t),
           NEW p \in Odometers(Level(g), current), NEW f, NEW h,
           Keeps(f, h), AllHold(h, LitsAt(L, p))
    PROVE  AllHold(f, LitsAt(L, p))
<1>1. \A n : OfCopy(n) => /\ IsTrue(h, n) => IsTrue(f, n)
                          /\ IsNotTrue(h, n) => IsNotTrue(f, n)
  BY DEF Keeps, IsTrue, IsNotTrue
<1>. QED
  BY <1>1, WayCases, LiteralsHold, CopyNames

(* A name of the copy the walk is in, at its location or behind, has no    *)
(* value yet.                                                              *)
LEMMA NotYet ==
    ASSUME ProgramOK, current \in Nat, NEW l \in Loc, NEW o \in Odometers(Level(l), current),
           NEW f, NamesPlaced(f, l, o), NEW n, n.loc \in Loc, n.loc >= l, n.odo = o, OfCopy(n)
    PROVE  n \notin DOMAIN f
<1>1. SUFFICES ASSUME n \in DOMAIN f PROVE FALSE
  OBVIOUS
<1>2. n.loc \in Nat /\ n.loc # 0 /\ l \in Nat
  BY LocIs
<1>3. ~IsInput(n)
  BY <1>2 DEF IsInput, Name
<1>4. ~PlacedCopy(n, l, o)
  <2>1. \A e \in Around(l) : o[Depth(e)] \in Int
    BY OdometerInts DEF IntAt
  <2>. QED
    BY <1>2, <2>1 DEF PlacedCopy, CopyBefore, Earlier
<1>5. ~PlacedMerge(n, l, o)
  <2>1. SUFFICES ASSUME NEW e \in Loops, n.loc \in Span(e), n.odo \in Odometers(Depth(e) - 1, current)
                 PROVE  FALSE
    BY DEF PlacedMerge
  <2>2. Level(n.loc) \in Nat /\ Level(n.loc) >= Depth(e) /\ Depth(e) \in Nat /\ Depth(e) >= 1
    BY <2>1, SpanDepth, DepthIs
  <2>3. Len(n.odo) = Depth(e) - 1
    BY <2>1, <2>2, OdometersAre
  <2>. QED
    BY <2>2, <2>3 DEF OfCopy
<1>. QED
  BY <1>1, <1>3, <1>4, <1>5 DEF NamesPlaced

-----------------------------------------------------------------------------
(* What one instruction defines.                                           *)

Walking ==
    /\ stage = "walk" /\ at \in Loc /\ current \in Nat
    /\ odo \in Odometers(Level(at), current)
    /\ ~HasGuard(at) => IsTrue(val, Suffixed(Guard(at), odo))
WalkedSoFar(f, l, o) ==
    /\ NamesPlaced(f, l, o)
    /\ Followed(f, l, o)
    /\ MergedExits(f)
    /\ GuardsAreTrue(f)
    /\ AllCame(f, l, o)
    /\ Arrived(f, 1, <<>>, l, o)

After1(v) == Updated(val, Defined(at, v))

LEMMA DefinedAnew ==
    ASSUME ProgramOK, TypeInv, Walking, NamesPlaced(val, at, odo), NEW v
    PROVE  /\ Extends(val, After1(v)) /\ Extends(Defined(at, v), After1(v))
           /\ DOMAIN After1(v) = DOMAIN val \cup DOMAIN Defined(at, v)
           /\ \A n \in DOMAIN Defined(at, v) : n \notin DOMAIN val /\ n.loc = at /\ n.odo = odo
<1>. DEFINE D == Defined(at, v)
<1>0. at \in Loc /\ at \in Nat /\ current \in Nat /\ odo \in Odometers(Level(at), current)
  BY LocIs DEF Walking
<1>1. \A n \in DOMAIN D : n.loc = at /\ n.odo = odo
  BY <1>0, DefinedHere
<1>2. ASSUME NEW n \in DOMAIN D PROVE n \notin DOMAIN val
  <2>1. n.loc \in Loc /\ n.loc >= at /\ n.odo = odo
    BY <1>0, <1>1
  <2>2. OfCopy(n)
    BY <1>0, <1>1, AroundIsFinite, OdometersAre DEF OfCopy
  <2>. QED
    BY <1>0, <2>1, <2>2, NotYet
<1>3. /\ DOMAIN After1(v) = DOMAIN val \cup DOMAIN D
      /\ \A n \in DOMAIN val \cup DOMAIN D :
            After1(v)[n] = IF n \in DOMAIN D THEN D[n] ELSE val[n]
  BY DEF After1, Updated
<1>. QED
  BY <1>1, <1>2, <1>3 DEF Extends

LEMMA GuardDefined ==
    ASSUME ProgramOK, TypeInv, Walking, NamesPlaced(val, at, odo), NEW v
    PROVE  IsTrue(After1(v), Suffixed(Guard(at), odo))
<1>0. at \in Loc /\ Extends(val, After1(v)) /\ Extends(Defined(at, v), After1(v))
  BY DefinedAnew DEF Walking
<1>1. CASE ~HasGuard(at)
  BY <1>0, <1>1 DEF Walking, IsTrue, Extends
<1>2. CASE HasGuard(at)
  <2>1. Suffixed(Guard(at), odo) \in GuardAt(at)
    BY <1>2 DEF GuardAt, Named, Suffixed
  <2>2. Suffixed(Guard(at), odo) \in DOMAIN Defined(at, v)
    BY <2>1 DEF Defined
  <2>3. Defined(at, v)[Suffixed(Guard(at), odo)] = True
    BY <1>0, <2>1, DefinedIs
  <2>. QED
    BY <1>0, <2>2, <2>3 DEF IsTrue, Extends
<1>. QED
  BY <1>1, <1>2

LEMMA CondDefined ==
    ASSUME ProgramOK, TypeInv, Walking, NamesPlaced(val, at, odo), NEW v,
           goto[at].op \in {"goto", "assume", "call"}
    PROVE  /\ Suffixed(Cond(at), odo) \in DOMAIN After1(v)
           /\ After1(v)[Suffixed(Cond(at), odo)] = Truth(Holds(goto[at], v))
<1>0. at \in Loc /\ Extends(Defined(at, v), After1(v))
  BY DefinedAnew DEF Walking
<1>1. Suffixed(Cond(at), odo) \in CondAt(at)
  BY DEF CondAt, Named, Suffixed
<1>2. Suffixed(Cond(at), odo) \in DOMAIN Defined(at, v)
  BY <1>1 DEF Defined
<1>3. Defined(at, v)[Suffixed(Cond(at), odo)] = Truth(Holds(goto[at], v))
  BY <1>0, <1>1, DefinedIs
<1>. QED
  BY <1>0, <1>2, <1>3 DEF Extends

(* A way whose conditions come to hold goes on from where the walk is: it  *)
(* is the one taken, or the one out of the block.                          *)
AheadInBlock(g, l) == ~IsGoto(goto[g]) /\ ~Blocks(g) /\ l \in GuardSource(g)..(g - 1)
Taken(g, t, v) ==
    /\ g = at /\ t = Target(at, v)
    /\ ~(goto[at].op = "assume" /\ ~Holds(goto[at], v))

LEMMA NewWay ==
    ASSUME ProgramOK, TypeInv, Walking, NamesPlaced(val, at, odo), NEW v,
           NEW g \in Loc, NEW t \in Next(g), NEW L \in Ways(g, t),
           NEW p \in Odometers(Level(g), current),
           AllHold(After1(v), LitsAt(L, p)), ~AllHold(val, LitsAt(L, p))
    PROVE  p = odo /\ (Taken(g, t, v) \/ AheadInBlock(g, at))
<1>. DEFINE f == After1(v)
            G == Suffixed(Guard(g), p)
            C == Suffixed(Cond(g), p)
            D == Defined(at, v)
<1>0. /\ at \in Loc /\ at \in Nat /\ g \in Nat /\ GuardSource(g) \in Loc /\ GuardSource(g) \in 1..g
      /\ current \in Nat /\ odo \in Odometers(Level(at), current)
  BY LocIs, GuardSourceBlock DEF Walking
<1>1. /\ G.loc = GuardSource(g) /\ G.odo = p /\ G.obj = "$guard" /\ OfCopy(G)
      /\ C.loc = g /\ C.odo = p /\ C.obj = "$cond" /\ OfCopy(C)
  BY <1>0, WayNames, CopyNames
<1>2. /\ Extends(val, f) /\ DOMAIN f = DOMAIN val \cup DOMAIN D
      /\ \A n \in DOMAIN D : n \notin DOMAIN val /\ n.loc = at /\ n.odo = odo
  BY DefinedAnew
<1>. HIDE DEF f, G, C, D
<1>3. /\ AllHold(f, LitsAt({Is(Guard(g))}, p)) <=> IsTrue(f, G)
      /\ AllHold(f, LitsAt({Is(Guard(g)), Is(Cond(g))}, p)) <=> IsTrue(f, G) /\ IsTrue(f, C)
      /\ AllHold(f, LitsAt({Is(Guard(g)), IsNot(Cond(g))}, p)) <=> IsTrue(f, G) /\ IsNotTrue(f, C)
      /\ AllHold(val, LitsAt({Is(Guard(g))}, p)) <=> IsTrue(val, G)
      /\ AllHold(val, LitsAt({Is(Guard(g)), Is(Cond(g))}, p)) <=> IsTrue(val, G) /\ IsTrue(val, C)
      /\ AllHold(val, LitsAt({Is(Guard(g)), IsNot(Cond(g))}, p)) <=> IsTrue(val, G) /\ IsNotTrue(val, C)
  BY LiteralsHold DEF G, C
<1>4. AllHold(f, LitsAt(L, p)) /\ ~AllHold(val, LitsAt(L, p))
  BY DEF f
<1>5. \A n \in DOMAIN val : /\ IsTrue(f, n) => IsTrue(val, n)
                            /\ IsNotTrue(f, n) => IsNotTrue(val, n)
  BY <1>2 DEF Extends, IsTrue, IsNotTrue
<1>6. G \in DOMAIN f
  BY <1>3, <1>4, WayCases DEF IsTrue
<1>7. CASE L = {Is(Guard(g))} /\ ~IsGoto(goto[g]) /\ ~Blocks(g) /\ t = g + 1
  <2>1. G \in DOMAIN D
    BY <1>2, <1>3, <1>4, <1>5, <1>7 DEF IsTrue
  <2>2. p = odo /\ at = GuardSource(g)
    BY <1>1, <1>2, <2>1
  <2>3. CASE at = g
    BY <1>7, <2>2, <2>3 DEF Taken, Target, Blocks
  <2>4. CASE at # g
    <3>1. at \in GuardSource(g)..(g - 1)
      BY <1>0, <2>2, <2>4
    <3>. QED
      BY <1>7, <2>2, <3>1 DEF AheadInBlock
  <2>. QED
    BY <2>3, <2>4
<1>8. ASSUME C \in DOMAIN f, G \notin DOMAIN val \/ C \notin DOMAIN val
      PROVE  p = odo /\ at = g
  <2>1. C \notin DOMAIN val
    <3>1. SUFFICES ASSUME G \in DOMAIN D, C \in DOMAIN val PROVE FALSE
      BY <1>2, <1>6, <1>8
    <3>2. p = odo /\ at = GuardSource(g)
      BY <1>1, <1>2, <3>1
    <3>3. C.loc \in Loc /\ C.loc >= at /\ C.odo = odo
      BY <1>0, <1>1, <3>2
    <3>. QED
      BY <1>0, <1>1, <3>1, <3>3, NotYet
  <2>2. C \in DOMAIN D
    BY <1>2, <1>8, <2>1
  <2>. QED
    BY <1>1, <1>2, <2>2
<1>9. ASSUME L # {Is(Guard(g))} PROVE p = odo /\ at = g /\ C \in DOMAIN f
  <2>1. C \in DOMAIN f
    BY <1>3, <1>4, <1>9, WayCases DEF IsTrue, IsNotTrue
  <2>2. G \notin DOMAIN val \/ C \notin DOMAIN val
    BY <1>3, <1>4, <1>5, WayCases
  <2>. QED
    BY <1>8, <2>1, <2>2
<1>a. Is(Cond(g)) # Is(Guard(g)) /\ IsNot(Cond(g)) # Is(Guard(g))
  <2>1. Cond(g).obj = "$cond" /\ Guard(g).obj = "$guard"
    BY DEF Cond, Guard, Name
  <2>2. Cond(g) # Guard(g)
    BY <2>1
  <2>. QED
    BY <2>2 DEF Is, IsNot
<1>10. ASSUME p = odo, at = g, goto[g].op \in {"goto", "assume", "call"}
       PROVE  f[C] = Truth(Holds(goto[g], v))
  BY <1>10, CondDefined DEF f, C
<1>11. CASE L = {Is(Guard(g)), Is(Cond(g))} /\ IsGoto(goto[g]) /\ goto[g].to = t
  <2>1. L # {Is(Guard(g))}
    BY <1>a, <1>11
  <2>2. p = odo /\ at = g /\ f[C] = True
    BY <1>3, <1>4, <1>9, <1>11, <2>1 DEF IsTrue
  <2>3. Holds(goto[g], v)
    BY <1>10, <1>11, <2>2, TruthIs DEF IsGoto, Holds
  <2>. QED
    BY <1>11, <2>2, <2>3 DEF Taken, Target
<1>12. CASE L = {Is(Guard(g)), IsNot(Cond(g))} /\ IsGoto(goto[g]) /\ t = g + 1
  <2>1. L # {Is(Guard(g))}
    BY <1>a, <1>12
  <2>2. p = odo /\ at = g /\ f[C] # True
    BY <1>3, <1>4, <1>9, <1>12, <2>1 DEF IsNotTrue
  <2>3. ~Holds(goto[g], v)
    BY <1>10, <1>12, <2>2, TruthIs DEF IsGoto, Holds, Truth
  <2>. QED
    BY <1>12, <2>2, <2>3 DEF Taken, Target, IsGoto
<1>13. CASE L = {Is(Guard(g)), Is(Cond(g))} /\ ~IsGoto(goto[g]) /\ Blocks(g) /\ t = g + 1
  <2>1. L # {Is(Guard(g))}
    BY <1>a, <1>13
  <2>2. p = odo /\ at = g /\ f[C] = True
    BY <1>3, <1>4, <1>9, <1>13, <2>1 DEF IsTrue
  <2>3. Holds(goto[g], v)
    BY <1>10, <1>13, <2>2, TruthIs DEF Blocks, Holds
  <2>. QED
    BY <1>13, <2>2, <2>3 DEF Taken, Target
<1>. QED
  BY <1>7, <1>11, <1>12, <1>13, WayCases

LEMMA ReachedHere ==
    ASSUME ProgramOK, TypeInv, Walking, NamesPlaced(val, at, odo), NEW v,
           NEW t \in Loc, HasGuard(t), NEW u, Arrived(val, t, u, at, odo)
    PROVE  Reached(After1(v), t, u)
<1>1. Extends(val, After1(v)) /\ IsTrue(After1(v), Suffixed(Guard(at), odo))
  BY DefinedAnew, GuardDefined
<1>. QED
  BY <1>1 DEF Arrived, Reached, Extends, IsTrue

LEMMA FollowedHere ==
    ASSUME ProgramOK, TypeInv, Walking, WalkedSoFar(val, at, odo), NEW v,
           NEW g \in Loc, NEW t \in Next(g), HasGuard(t), NEW L \in Ways(g, t),
           NEW p \in Odometers(Level(g), current), AllHold(After1(v), LitsAt(L, p))
    PROVE  \/ Reached(After1(v), t, Onwards(g, p, t))
           \/ p = odo /\ (Taken(g, t, v) \/ AheadInBlock(g, at))
<1>. DEFINE f == After1(v)
            u == Onwards(g, p, t)
<1>0. /\ NamesPlaced(val, at, odo) /\ Followed(val, at, odo)
      /\ at \in Nat /\ g \in Nat /\ t \in Loc
  BY WayIs, LocIs DEF WalkedSoFar, Walking
<1>1. CASE ~AllHold(val, LitsAt(L, p))
  BY <1>0, <1>1, NewWay
<1>2. CASE AllHold(val, LitsAt(L, p))
  <2>1. Arrived(val, t, u, at, odo) \/ InBlock(g, p, at, odo)
    BY <1>0, <1>2 DEF Followed
  <2>2. CASE Arrived(val, t, u, at, odo)
    BY <1>0, <2>2, ReachedHere
  <2>3. CASE InBlock(g, p, at, odo)
    <3>1. p = odo /\ ~IsGoto(goto[g]) /\ ~Blocks(g) /\ at \in GuardSource(g)..g /\ GuardSource(g) \in Nat
      BY <2>3, LocIs, GuardSourceBlock DEF InBlock
    <3>2. CASE at = g
      <4>1. t = g + 1
        BY <3>1 DEF Next
      <4>. QED
        BY <3>1, <3>2, <4>1 DEF Taken, Target, Blocks
    <3>3. CASE at # g
      <4>1. at \in GuardSource(g)..(g - 1)
        BY <1>0, <3>1, <3>3
      <4>. QED
        BY <3>1, <4>1 DEF AheadInBlock
    <3>. QED
      BY <3>2, <3>3
  <2>. QED
    BY <2>1, <2>2, <2>3
<1>. QED
  BY <1>1, <1>2

LEMMA GuardsTrueHere ==
    ASSUME ProgramOK, TypeInv, Walking, NamesPlaced(val, at, odo), GuardsAreTrue(val), NEW v
    PROVE  GuardsAreTrue(After1(v))
<1>. DEFINE D == Defined(at, v)
<1>1. /\ Extends(val, After1(v)) /\ Extends(D, After1(v)) /\ DOMAIN After1(v) = DOMAIN val \cup DOMAIN D
  BY DefinedAnew
<1>2. ASSUME NEW n \in DOMAIN D
      PROVE  (n.obj = "$guard" => D[n] = True) /\ (n.obj = "$cond" => D[n] \in {True, False})
  <2>0. at \in Loc /\ DOMAIN D = PhisAt(at) \cup GuardAt(at) \cup CondAt(at) \cup OutAt(at)
    BY DEF Walking, Defined
  <2>1. /\ \A m \in PhisAt(at) : m.obj \in Var
        /\ \A m \in GuardAt(at) : m.obj = "$guard"
        /\ \A m \in CondAt(at) : m.obj = "$cond"
        /\ \A m \in OutAt(at) : m.obj \in Var \cup {"$nondet"}
    BY <2>0, DefinedNames
  <2>2. "$guard" \notin Var /\ "$cond" \notin Var
    BY GotoProgramAssumption
  <2>3. n.obj = "$guard" => n \in GuardAt(at)
    BY <2>0, <2>1, <2>2
  <2>4. n.obj = "$cond" => n \in CondAt(at)
    BY <2>0, <2>1, <2>2
  <2>5. /\ \A m \in GuardAt(at) : D[m] = True
        /\ \A m \in CondAt(at) : D[m] = Truth(Holds(goto[at], v))
    BY <2>0, DefinedIs
  <2>. QED
    BY <2>3, <2>4, <2>5 DEF Truth
<1>. QED
  BY <1>1, <1>2 DEF GuardsAreTrue, Extends

LEMMA CameStill ==
    ASSUME ProgramOK, NEW f, NEW h, Extends(f, h), NEW t, NEW u, Came(f, t, u)
    PROVE  Came(h, t, u)
<1>1. CASE t = 1
  BY <1>1 DEF Came
<1>2. ASSUME NEW g \in Loc, t \in Next(g), NEW p \in Odometers(Level(g), current),
             NEW L \in Ways(g, t), CameBy(f, g, p, t, u, L)
      PROVE  Came(h, t, u)
  <2>1. \A q : AllHold(f, LitsAt(L, q)) => AllHold(h, LitsAt(L, q))
    BY HoldsStill
  <2>2. CameBy(h, g, p, t, u, L)
    BY <1>2, <2>1 DEF CameBy
  <2>. QED
    BY <1>2, <2>2 DEF Came
<1>. QED
  BY <1>1, <1>2 DEF Came

LEMMA CameHere ==
    ASSUME ProgramOK, TypeInv, Walking, WalkedSoFar(val, at, odo), NEW v,
           NEW t \in Loc, HasGuard(t), NEW u \in Odometers(Level(t), current),
           Reached(After1(v), t, u)
    PROVE  Came(After1(v), t, u)
<1>1. NamesPlaced(val, at, odo) /\ AllCame(val, at, odo) /\ at \in Loc
  BY DEF WalkedSoFar, Walking
<1>2. /\ Extends(val, After1(v)) /\ DOMAIN After1(v) = DOMAIN val \cup DOMAIN Defined(at, v)
      /\ \A n \in DOMAIN Defined(at, v) : n.loc = at /\ n.odo = odo
  BY <1>1, DefinedAnew
<1>3. Suffixed(Guard(t), u).loc = t /\ Suffixed(Guard(t), u).odo = u
  BY WayNames, GuardSourceIs
<1>4. Arrived(val, t, u, at, odo)
  BY <1>2, <1>3 DEF Arrived, Reached
<1>5. Came(val, t, u)
  BY <1>1, <1>4 DEF AllCame
<1>. QED
  BY <1>2, <1>5, CameStill

(* The exits of a loop lead out of it.                                     *)
LEMMA ExitIs ==
    ASSUME ProgramOK, NEW e \in Loops, NEW g \in Exits(e)
    PROVE  /\ g \in Loc /\ Around(g) = Around(e) /\ Level(g) = Depth(e) /\ IsGoto(goto[g])
           /\ \E t \in Next(g) : HasGuard(t) /\ e \notin Around(t) /\ ExitCondition(e, g) \in Ways(g, t)
<1>1. g \in Body(e) /\ IsGoto(goto[g]) /\ (goto[g].to > e \/ (g = e /\ IsDoWhile(e)))
  BY DEF Exits
<1>2. g \in Loc /\ Around(g) = Around(e) /\ Level(g) = Depth(e)
  BY <1>1, BodyIs
<1>3. /\ e \in Loc /\ e \in Nat /\ HeadOf(e) \in Nat /\ HeadOf(e) <= e /\ goto[e].to = HeadOf(e)
      /\ IsGoto(goto[e])
  BY LoopIs
<1>4. Next(g) \subseteq Loc
  BY <1>2 DEF ProgramOK
<1>5. CASE g = e
  <2>1. e + 1 \in Next(g) /\ HasGuard(e + 1)
    BY <1>1, <1>3, <1>5 DEF Next, HasGuard, IsDoWhile, IsGoto
  <2>2. e \notin Around(e + 1)
    BY <1>3 DEF Around, Span
  <2>3. ExitCondition(e, g) \in Ways(g, e + 1)
    <3>1. ~Always(goto[e])
      BY <1>1, <1>3, <1>5 DEF IsDoWhile
    <3>. QED
      BY <1>3, <1>5, <3>1 DEF ExitCondition, Ways
  <2>. QED
    BY <1>1, <1>2, <2>1, <2>2, <2>3
<1>6. CASE g # e
  <2>. DEFINE t == goto[g].to
  <2>1. t > e /\ t \in Next(g) /\ HasGuard(t) /\ t \in Loc /\ t \in Nat
    <3>1. t > e /\ t \in Next(g)
      BY <1>1, <1>6 DEF Next
    <3>2. t \in Loc /\ t \in Nat
      BY <1>4, <3>1, LocIs
    <3>. QED
      BY <1>1, <1>2, <3>1, <3>2 DEF HasGuard
  <2>2. e \notin Around(t)
    BY <1>3, <2>1 DEF Around, Span
  <2>3. ExitCondition(e, g) \in Ways(g, t)
    BY <1>1, <1>6 DEF ExitCondition, Ways
  <2>. QED
    BY <1>1, <1>2, <2>1, <2>2, <2>3
<1>. QED
  BY <1>5, <1>6

LEMMA MergedHere ==
    ASSUME ProgramOK, TypeInv, Walking, NamesPlaced(val, at, odo), MergedExits(val), NEW v
    PROVE  MergedExits(After1(v))
<1>1. SUFFICES ASSUME NEW e \in Loops, NEW q \in Odometers(Depth(e) - 1, current), NEW g \in Exits(e),
                      AllHold(After1(v), LitsAt(ExitCondition(e, g), q))
               PROVE  \E p \in Odometers(Depth(e), current) :
                        /\ SameUpto(Depth(e) - 1, p, q)
                        /\ AllHold(After1(v), LitsAt(ExitCondition(e, g), p))
  BY DEF MergedExits
<1>. DEFINE L == ExitCondition(e, g)
            f == After1(v)
            D == Defined(at, v)
<1>2. g \in Loc /\ Level(g) = Depth(e) /\ current \in Nat /\ odo \in Odometers(Level(at), current) /\ at \in Loc
  BY ExitIs DEF Walking
<1>3. PICK t \in Next(g) : L \in Ways(g, t)
  BY ExitIs
<1>4. /\ Extends(val, f) /\ DOMAIN f = DOMAIN val \cup DOMAIN D
      /\ \A n \in DOMAIN D : n.loc = at /\ n.odo = odo
  BY <1>2, DefinedAnew
<1>. DEFINE G == Suffixed(Guard(g), q)
            C == Suffixed(Cond(g), q)
<1>5. G.loc = GuardSource(g) /\ G.odo = q /\ C.loc = g /\ C.odo = q /\ Level(GuardSource(g)) = Level(g)
  BY <1>2, WayNames, GuardOf
<1>6. Depth(e) \in Nat /\ Depth(e) >= 1 /\ Len(q) = Depth(e) - 1 /\ Len(odo) = Level(at)
  BY <1>2, LoopIs, OdometersAre, AroundIsFinite
<1>. HIDE DEF G, C, D, f
<1>7. G \notin DOMAIN D /\ C \notin DOMAIN D
  BY <1>2, <1>4, <1>5, <1>6
<1>8. /\ IsTrue(f, G) => IsTrue(val, G)
      /\ IsTrue(f, C) => IsTrue(val, C)
      /\ IsNotTrue(f, C) => IsNotTrue(val, C)
  BY <1>4, <1>7 DEF Extends, IsTrue, IsNotTrue
<1>9. AllHold(val, LitsAt(L, q))
  <2>1. AllHold(f, LitsAt(L, q))
    BY <1>1 DEF f
  <2>2. \A h : /\ AllHold(h, LitsAt({Is(Guard(g)), Is(Cond(g))}, q)) <=> IsTrue(h, G) /\ IsTrue(h, C)
               /\ AllHold(h, LitsAt({Is(Guard(g)), IsNot(Cond(g))}, q)) <=> IsTrue(h, G) /\ IsNotTrue(h, C)
    BY <1>2, LiteralsHold DEF G, C
  <2>. QED
    BY <1>8, <2>1, <2>2 DEF ExitCondition
<1>10. PICK p \in Odometers(Depth(e), current) :
            SameUpto(Depth(e) - 1, p, q) /\ AllHold(val, LitsAt(L, p))
  BY <1>9 DEF MergedExits
<1>11. AllHold(f, LitsAt(L, p))
  BY <1>2, <1>3, <1>4, <1>10, HoldsStill
<1>. QED
  BY <1>10, <1>11 DEF f

-----------------------------------------------------------------------------
(* The end of the walk.                                                    *)

FollowedToEnd(f) ==
    \A g \in Loc : \A p \in Odometers(Level(g), current) : \A t \in Next(g) :
        HasGuard(t) => \A L \in Ways(g, t) : AllHold(f, LitsAt(L, p)) =>
            \/ Reached(f, t, Onwards(g, p, t))
            \/ g \in Loops /\ t = HeadOf(g) /\ p[Depth(g)] = 0
CameToEnd(f) ==
    \A t \in Loc : HasGuard(t) => \A u \in Odometers(Level(t), current) :
        Reached(f, t, u) => Came(f, t, u)
Ended(f) ==
    /\ FollowedToEnd(f) /\ MergedExits(f) /\ GuardsAreTrue(f) /\ CameToEnd(f)
    /\ Reached(f, 1, <<>>)

Ends(v) ==
    \/ goto[at].op = "end"
    \/ goto[at].op = "assume" /\ ~Holds(goto[at], v)
    \/ goto[at].op # "end" /\ RunsOut(at, Target(at, v))

LEMMA NothingAhead ==
    ASSUME ProgramOK, JumpsOK, Walking, NEW v, Ends(v), NEW g \in Loc, AheadInBlock(g, at)
    PROVE  FALSE
<1>1. PICK n \in Nat : Loc = 1..n
  BY LocIs
<1>2. /\ at \in Loc /\ at \in Nat /\ g \in Nat /\ GuardSource(g) \in 1..g
      /\ at \in GuardSource(g)..(g - 1) /\ \A m \in (GuardSource(g) + 1)..g : ~HasGuard(m)
      /\ current \in Nat /\ odo \in Odometers(Level(at), current)
  BY <1>1, GuardSourceBlock DEF Walking, AheadInBlock
<1>3. at + 1 \in Loc /\ ~HasGuard(at + 1)
  <2>1. at + 1 \in (GuardSource(g) + 1)..g /\ at + 1 \in 1..n
    BY <1>1, <1>2
  <2>. QED
    BY <1>1, <1>2, <2>1
<1>4. goto[at].op # "end"
  BY <1>2, <1>3 DEF JumpsOK
<1>5. CASE goto[at].op = "assume"
  <2>1. (at + 1) - 1 = at
    BY <1>2
  <2>2. Blocks((at + 1) - 1)
    BY <1>5, <2>1 DEF Blocks
  <2>3. HasGuard(at + 1)
    BY <2>2, Zenon DEF HasGuard
  <2>. QED
    BY <1>3, <2>3
<1>6. CASE RunsOut(at, Target(at, v))
  <2>1. Target(at, v) \in Loc
    BY <1>2, <1>4, TargetIsNext
  <2>2. at \in Loops
    BY <1>2, <1>6, <2>1, RunsOutAtBack
  <2>3. IsGoto(goto[at])
    BY <2>2, LoopIs
  <2>. QED
    BY <1>2, <1>3, <2>3 DEF HasGuard
<1>. QED
  BY <1>4, <1>5, <1>6 DEF Ends

LEMMA EndsHere ==
    ASSUME ProgramOK, JumpsOK, TypeInv, Walking, WalkedSoFar(val, at, odo), NEW v, Ends(v)
    PROVE  Ended(After1(v))
<1>. DEFINE f == After1(v)
<1>0. /\ at \in Loc /\ current \in Nat /\ odo \in Odometers(Level(at), current)
      /\ NamesPlaced(val, at, odo) /\ MergedExits(val) /\ GuardsAreTrue(val)
      /\ Arrived(val, 1, <<>>, at, odo) /\ 1 \in Loc /\ HasGuard(1)
  BY LocIs DEF Walking, WalkedSoFar, HasGuard
<1>1. ASSUME NEW g \in Loc, NEW p \in Odometers(Level(g), current), NEW t \in Next(g), HasGuard(t),
             NEW L \in Ways(g, t), AllHold(f, LitsAt(L, p))
      PROVE  Reached(f, t, Onwards(g, p, t)) \/ (g \in Loops /\ t = HeadOf(g) /\ p[Depth(g)] = 0)
  <2>1. \/ Reached(f, t, Onwards(g, p, t))
        \/ p = odo /\ (Taken(g, t, v) \/ AheadInBlock(g, at))
    BY <1>1, FollowedHere
  <2>2. ~AheadInBlock(g, at)
    BY NothingAhead
  <2>3. ASSUME p = odo, Taken(g, t, v)
        PROVE  g \in Loops /\ t = HeadOf(g) /\ p[Depth(g)] = 0
    <3>1. g = at /\ t = Target(at, v) /\ ~(goto[at].op = "assume" /\ ~Holds(goto[at], v)) /\ t \in Loc
      BY <2>3, WayIs DEF Taken
    <3>2. goto[at].op # "end"
      BY <3>1 DEF Next, IsGoto
    <3>3. RunsOut(at, t)
      BY <3>1, <3>2 DEF Ends
    <3>. QED
      BY <1>0, <2>3, <3>1, <3>3, RunsOutAtBack
  <2>. QED
    BY <2>1, <2>2, <2>3
<1>2. FollowedToEnd(f)
  BY <1>1 DEF FollowedToEnd
<1>3. CameToEnd(f)
  BY CameHere DEF CameToEnd
<1>4. MergedExits(f) /\ GuardsAreTrue(f)
  BY <1>0, MergedHere, GuardsTrueHere
<1>5. Reached(f, 1, <<>>)
  BY <1>0, ReachedHere
<1>. QED
  BY <1>2, <1>3, <1>4, <1>5 DEF Ended

-----------------------------------------------------------------------------
(* The value of an equation: that of the last alternative that holds.      *)

LEMMA SeqOfSet ==
    ASSUME NEW S, IsFiniteSet(S)
    PROVE  /\ Cardinality(S) \in Nat
           /\ SetToSeq(S) \in [1..Cardinality(S) -> S]
           /\ \A x \in S : \E i \in 1..Cardinality(S) : SetToSeq(S)[i] = x
           /\ SetToSeq(S) \in Seq(S) /\ Len(SetToSeq(S)) = Cardinality(S)
<1>. DEFINE n == Cardinality(S)
            s == SetToSeq(S)
<1>1. n \in Nat /\ ExistsBijection(1..n, S)
  BY FS_CardinalityType
<1>2. \E f \in [1..n -> S] : IsInjective(f)
  BY <1>1 DEF ExistsBijection, Bijection, Injection, IsInjective
<1>3. s \in [1..n -> S] /\ IsInjective(s)
  BY <1>2 DEF SetToSeq
<1>. HIDE DEF s
<1>4. s \in Injection(1..n, S)
  BY <1>3 DEF Injection, IsInjective
<1>5. IsFiniteSet(1..n) /\ Cardinality(1..n) = n
  BY <1>1, FS_Interval
<1>6. s \in Surjection(1..n, S)
  BY <1>4, <1>5, FS_Injection
<1>7. \A x \in S : \E i \in 1..n : s[i] = x
  BY <1>6 DEF Surjection
<1>8. s \in Seq(S)
  BY <1>1, <1>3, SeqDef
<1>9. Len(s) = n
  BY <1>1, <1>3, <1>8, LenProperties
<1>. QED
  BY <1>1, <1>3, <1>7, <1>8, <1>9 DEF s

Chosen(f, e) == Max({i \in DOMAIN e.alts : AllHold(f, e.alts[i].when)})

LEMMA ChosenIs ==
    ASSUME NEW f, NEW e, NEW m \in Nat, m >= 1, DOMAIN e.alts = 1..m, e.alts[1].when = {}
    PROVE  /\ Chosen(f, e) \in 1..m /\ AllHold(f, e.alts[Chosen(f, e)].when)
           /\ \A j \in 1..m : AllHold(f, e.alts[j].when) => j <= Chosen(f, e)
<1>. DEFINE T == {i \in DOMAIN e.alts : AllHold(f, e.alts[i].when)}
<1>1. 1 \in T
  BY DEF AllHold
<1>2. T \in SUBSET (0..m) /\ T # {}
  BY <1>1
<1>. HIDE DEF T
<1>3. PICK x \in T : \A y \in T : y <= x
  BY <1>2, GreatestNumber
<1>4. x \in T /\ \A y \in T : x >= y
  BY <1>2, <1>3
<1>5. Max(T) \in T /\ \A y \in T : Max(T) >= y
  BY <1>4 DEF Max
<1>6. Max(T) = Chosen(f, e)
  BY DEF Chosen, T
<1>7. Chosen(f, e) \in T /\ \A y \in T : Chosen(f, e) >= y
  BY <1>5, <1>6
<1>8. \A i : i \in T <=> i \in 1..m /\ AllHold(f, e.alts[i].when)
  BY DEF T
<1>. QED
  BY <1>7, <1>8

(* A disjunction is true if one of the sources holds.                      *)
LEMMA ConstIs == ASSUME NEW f, NEW v PROVE ValueOf(f, Const(v)) = v /\ Const(v).name.obj = ""
BY DEF ValueOf, Const, Name

LEMMA DecidedBy ==
    ASSUME NEW f, NEW e, NEW m \in Nat, m >= 1, DOMAIN e.alts = 1..m, e.alts[1].when = {},
           e.alts[1].is = Const(False), \A i \in 2..m : e.alts[i].is = Const(True)
    PROVE  RightSide(f, e) = Truth(\E i \in 2..m : AllHold(f, e.alts[i].when))
<1>. DEFINE c == Chosen(f, e)
<1>1. /\ c \in 1..m /\ AllHold(f, e.alts[c].when)
      /\ \A j \in 1..m : AllHold(f, e.alts[j].when) => j <= c
  BY ChosenIs
<1>a. RightSide(f, e) = LET x == e.alts[c].is
                        IN  IF e.lhs.obj = "$cond" /\ x.name.obj # "" /\ x.name.obj # "$cond"
                            THEN TestOf(f, x) ELSE ValueOf(f, x)
  BY DEF RightSide, Chosen
<1>. HIDE DEF c
<1>2. e.alts[c].is.name.obj = "" /\ ValueOf(f, e.alts[c].is) = IF c = 1 THEN False ELSE True
  <2>1. CASE c = 1
    BY <2>1, ConstIs
  <2>2. CASE c # 1
    <3>1. c \in 2..m
      BY <1>1, <2>2
    <3>. QED
      BY <2>2, <3>1, ConstIs
  <2>. QED
    BY <2>1, <2>2
<1>3. RightSide(f, e) = ValueOf(f, e.alts[c].is)
  BY <1>a, <1>2
<1>4. (c # 1) <=> \E i \in 2..m : AllHold(f, e.alts[i].when)
  BY <1>1
<1>. QED
  BY <1>2, <1>3, <1>4 DEF Truth

LEMMA DisjunctionAlternatives ==
    ASSUME NEW S, IsFiniteSet(S), NEW lhs
    PROVE  LET a == Disjunction(lhs, S).alts IN
           /\ Cardinality(S) \in Nat /\ DOMAIN a = 1..(Cardinality(S) + 1)
           /\ a[1] = Alternative({}, Const(False))
           /\ \A i \in 2..(Cardinality(S) + 1) : \E s \in S : a[i] = Alternative(s, Const(True))
           /\ \A s \in S : \E i \in 2..(Cardinality(S) + 1) : a[i] = Alternative(s, Const(True))
<1>. DEFINE n == Cardinality(S)
            s == SetToSeq(S)
            A == Alternative({}, Const(False))
            b == [i \in DOMAIN s |-> Alternative(s[i], Const(True))]
            a == Disjunction(lhs, S).alts
            Alts == {A} \cup {Alternative(x, Const(True)) : x \in S}
<1>1. n \in Nat /\ s \in [1..n -> S] /\ \A x \in S : \E i \in 1..n : s[i] = x
  BY SeqOfSet
<1>2. a = <<A>> \o b
  BY DEF Disjunction, Equation, MapSeq
<1>. HIDE DEF n, s, a
<1>3. b \in [1..n -> Alts] /\ \A i \in 1..n : b[i] = Alternative(s[i], Const(True))
  BY <1>1
<1>. HIDE DEF b, A
<1>4. b \in Seq(Alts) /\ Len(b) = n
  <2>1. b \in Seq(Alts)
    BY <1>1, <1>3, SeqDef
  <2>. QED
    BY <1>1, <1>3, <2>1, LenProperties
<1>5. <<A>> \in Seq(Alts) /\ Len(<<A>>) = 1 /\ <<A>>[1] = A
  OBVIOUS
<1>. HIDE DEF Alts
<1>6. /\ Len(a) = n + 1 /\ DOMAIN a = 1..(n + 1)
      /\ \A i \in 1..(n + 1) : a[i] = IF i <= 1 THEN <<A>>[i] ELSE b[i - 1]
  <2>1. /\ a \in Seq(Alts) /\ Len(a) = Len(<<A>>) + Len(b)
        /\ \A i \in 1..(Len(<<A>>) + Len(b)) :
              a[i] = IF i <= Len(<<A>>) THEN <<A>>[i] ELSE b[i - Len(<<A>>)]
    BY <1>2, <1>4, <1>5, ConcatProperties
  <2>2. DOMAIN a = 1..Len(a)
    BY <2>1, LenProperties
  <2>. QED
    BY <1>1, <1>4, <1>5, <2>1, <2>2
<1>7. ASSUME NEW i \in 2..(n + 1) PROVE i - 1 \in 1..n /\ a[i] = Alternative(s[i - 1], Const(True)) /\ s[i - 1] \in S
  <2>1. i - 1 \in 1..n /\ i \in 1..(n + 1) /\ ~(i <= 1)
    BY <1>1
  <2>. QED
    BY <1>1, <1>3, <1>6, <2>1
<1>8. ASSUME NEW x \in S PROVE \E i \in 2..(n + 1) : a[i] = Alternative(x, Const(True))
  <2>1. PICK j \in 1..n : s[j] = x
    BY <1>1
  <2>2. j + 1 \in 2..(n + 1) /\ (j + 1) - 1 = j
    BY <1>1
  <2>. QED
    BY <1>7, <2>1, <2>2
<1>9. a[1] = A
  <2>1. 1 \in 1..(n + 1)
    BY <1>1
  <2>. QED
    BY <1>5, <1>6, <2>1
<1>. QED
  BY <1>1, <1>6, <1>7, <1>8, <1>9 DEF n, a, A

LEMMA DisjunctionIs ==
    ASSUME NEW S, IsFiniteSet(S), NEW lhs, NEW f
    PROVE  RightSide(f, Disjunction(lhs, S)) = Truth(\E s \in S : AllHold(f, s))
<1>. DEFINE e == Disjunction(lhs, S)
            m == Cardinality(S) + 1
<1>1. /\ m \in Nat /\ m >= 1 /\ DOMAIN e.alts = 1..m
      /\ e.alts[1] = Alternative({}, Const(False))
      /\ \A i \in 2..m : \E s \in S : e.alts[i] = Alternative(s, Const(True))
      /\ \A s \in S : \E i \in 2..m : e.alts[i] = Alternative(s, Const(True))
  <2>1. /\ Cardinality(S) \in Nat /\ DOMAIN e.alts = 1..(Cardinality(S) + 1)
        /\ e.alts[1] = Alternative({}, Const(False))
        /\ \A i \in 2..(Cardinality(S) + 1) : \E s \in S : e.alts[i] = Alternative(s, Const(True))
        /\ \A s \in S : \E i \in 2..(Cardinality(S) + 1) : e.alts[i] = Alternative(s, Const(True))
    BY DisjunctionAlternatives
  <2>. QED
    BY <2>1
<1>. HIDE DEF e, m
<1>2. \A w, x : Alternative(w, x).when = w /\ Alternative(w, x).is = x
  BY DEF Alternative
<1>3. RightSide(f, e) = Truth(\E i \in 2..m : AllHold(f, e.alts[i].when))
  <2>1. e.alts[1].when = {} /\ e.alts[1].is = Const(False) /\ \A i \in 2..m : e.alts[i].is = Const(True)
    BY <1>1, <1>2
  <2>. QED
    BY <1>1, <2>1, DecidedBy
<1>4. (\E i \in 2..m : AllHold(f, e.alts[i].when)) <=> \E s \in S : AllHold(f, s)
  BY <1>1, <1>2
<1>. QED
  BY <1>3, <1>4 DEF e, Truth

LEMMA RenamedConst == \A v, l, o : RenamedOperand(Const(v), l, o) = Const(v)
BY DEF RenamedOperand, Const, Renamed, Name

LEMMA RenamedDisjunctionIs ==
    ASSUME NEW S, IsFiniteSet(S), NEW lhs, NEW f, NEW l, NEW o
    PROVE  RightSide(f, RenamedEquation(Disjunction(lhs, S), l, o))
             = Truth(\E s \in S : AllHold(f, RenamedLiterals(s, l, o)))
<1>. DEFINE d == Disjunction(lhs, S)
            e == RenamedEquation(d, l, o)
            m == Cardinality(S) + 1
<1>1. /\ m \in Nat /\ m >= 1 /\ DOMAIN d.alts = 1..m
      /\ d.alts[1] = Alternative({}, Const(False))
      /\ \A i \in 2..m : \E s \in S : d.alts[i] = Alternative(s, Const(True))
      /\ \A s \in S : \E i \in 2..m : d.alts[i] = Alternative(s, Const(True))
  <2>1. /\ Cardinality(S) \in Nat /\ DOMAIN d.alts = 1..(Cardinality(S) + 1)
        /\ d.alts[1] = Alternative({}, Const(False))
        /\ \A i \in 2..(Cardinality(S) + 1) : \E s \in S : d.alts[i] = Alternative(s, Const(True))
        /\ \A s \in S : \E i \in 2..(Cardinality(S) + 1) : d.alts[i] = Alternative(s, Const(True))
    BY DisjunctionAlternatives
  <2>. QED
    BY <2>1
<1>2. /\ DOMAIN e.alts = DOMAIN d.alts
      /\ \A i \in DOMAIN d.alts : e.alts[i] = Alternative(RenamedLiterals(d.alts[i].when, l, o),
                                                          RenamedOperand(d.alts[i].is, l, o))
  BY DEF RenamedEquation, Equation, MapSeq
<1>. HIDE DEF d, e, m
<1>3. \A w, x : Alternative(w, x).when = w /\ Alternative(w, x).is = x
  BY DEF Alternative
<1>4. \A i \in 1..m : /\ e.alts[i].when = RenamedLiterals(d.alts[i].when, l, o)
                      /\ e.alts[i].is = RenamedOperand(d.alts[i].is, l, o)
  BY <1>1, <1>2, <1>3
<1>5. RightSide(f, e) = Truth(\E i \in 2..m : AllHold(f, e.alts[i].when))
  <2>1. e.alts[1].when = {} /\ e.alts[1].is = Const(False)
    <3>1. RenamedLiterals({}, l, o) = {}
      BY DEF RenamedLiterals
    <3>2. 1 \in 1..m /\ d.alts[1].when = {} /\ d.alts[1].is = Const(False)
      BY <1>1, <1>3
    <3>3. e.alts[1].when = {}
      BY <1>4, <3>1, <3>2
    <3>4. e.alts[1].is = Const(False)
      BY <1>4, <3>2, RenamedConst
    <3>. QED
      BY <3>3, <3>4
  <2>2. ASSUME NEW i \in 2..m PROVE e.alts[i].is = Const(True)
    <3>1. i \in 1..m /\ d.alts[i].is = Const(True)
      BY <1>1, <1>3
    <3>. QED
      BY <1>4, <3>1, RenamedConst
  <2>. QED
    BY <1>1, <1>2, <2>1, <2>2, DecidedBy
<1>6. (\E i \in 2..m : AllHold(f, e.alts[i].when)) <=> \E s \in S : AllHold(f, RenamedLiterals(s, l, o))
  <2>1. \A i \in 2..m : i \in 1..m
    BY <1>1
  <2>. QED
    BY <1>1, <1>3, <1>4, <2>1
<1>. QED
  BY <1>5, <1>6 DEF e, d, Truth

-----------------------------------------------------------------------------
(* What is merged behind a loop for the conditions of its exits.           *)

LEMMA AppendIndex ==
    ASSUME NEW d \in Nat, d >= 1, NEW k \in Nat, NEW q \in Odometers(d - 1, k), NEW i \in 0..k
    PROVE  /\ Append(q, i) \in Odometers(d, k) /\ Append(q, i)[d] = i
           /\ SameUpto(d - 1, Append(q, i), q)
<1>1. q \in Seq(0..k) /\ Len(q) = d - 1
  <2>1. q \in [1..(d - 1) -> 0..k]
    BY DEF Odometers
  <2>. QED
    BY <2>1, SeqDef, OdometersAre
<1>2. /\ Append(q, i) \in Seq(0..k) /\ Len(Append(q, i)) = d /\ Append(q, i)[d] = i
      /\ \A j \in 1..(d - 1) : Append(q, i)[j] = q[j]
  BY <1>1, AppendProperties
<1>3. Append(q, i) \in [1..d -> 0..k]
  BY <1>2, LenProperties
<1>. QED
  BY <1>2, <1>3 DEF Odometers, SameUpto

LEMMA RenamedInBody ==
    ASSUME ProgramOK, NEW e \in Loops, NEW l \in Body(e), NEW m \in Body(e), NEW n, IsNameAt(n, m),
           NEW o \in [1..Depth(e) -> Int]
    PROVE  Renamed(n, l, o) = Suffixed(n, o)
<1>1. /\ m \in Loc /\ m # 0 /\ Around(m) = Around(e) /\ Level(m) = Depth(e) /\ LoopOf(m) = e
      /\ Around(l) = Around(e) /\ e \in Around(e) /\ Depth(e) \in Nat
  BY BodyIs, LoopIs, LocIs
<1>2. DefLevel(m, l) = Depth(e)
  BY <1>1 DEF DefLevel
<1>3. Prefix(o, Depth(e)) = o
  BY <1>1, PrefixIs
<1>4. n.loc = m /\ n.loc # 0
  BY <1>1 DEF IsNameAt
<1>. QED
  BY <1>2, <1>3, <1>4 DEF Renamed, Suffixed

LEMMA RenamedAre ==
    ASSUME NEW L, NEW l, NEW o, NEW p, \A lit \in L : Renamed(lit[1], l, o) = Suffixed(lit[1], p)
    PROVE  RenamedLiterals(L, l, o) = LitsAt(L, p)
BY DEF RenamedLiterals, LitsAt

LEMMA LitsAre ==
    ASSUME NEW g, NEW L \in SUBSET {Is(Guard(g)), Is(Cond(g)), IsNot(Cond(g))}, NEW l, NEW o, NEW p,
           Renamed(Guard(g), l, o) = Suffixed(Guard(g), p),
           Renamed(Cond(g), l, o) = Suffixed(Cond(g), p)
    PROVE  RenamedLiterals(L, l, o) = LitsAt(L, p)
<1>1. \A n : Is(n)[1] = n /\ IsNot(n)[1] = n
  BY DEF Is, IsNot
<1>2. \A lit \in {Is(Guard(g)), Is(Cond(g)), IsNot(Cond(g))} : lit[1] \in {Guard(g), Cond(g)}
  BY <1>1
<1>3. \A lit \in L : Renamed(lit[1], l, o) = Suffixed(lit[1], p)
  BY <1>2
<1>. QED
  BY <1>3, RenamedAre

LEMMA ExitBody ==
    ASSUME ProgramOK, NEW e \in Loops, NEW g \in Exits(e)
    PROVE  g \in Body(e) /\ GuardSource(g) \in Body(e)
<1>1. g \in Body(e) /\ g \in Loc /\ LoopOf(g) = e /\ Around(g) = Around(e) /\ e \in Around(e)
  BY BodyIs, LoopIs DEF Exits
<1>2. Around(GuardSource(g)) = Around(g) /\ GuardSource(g) \in Loc
  BY <1>1, GuardOf, GuardSourceBlock
<1>3. LoopOf(GuardSource(g)) = e /\ GuardSource(g) \in Span(e)
  BY <1>1, <1>2 DEF LoopOf, Around
<1>. QED
  BY <1>1, <1>3 DEF Body

LEMMA ExitRenamed ==
    ASSUME ProgramOK, NEW e \in Loops, NEW g \in Exits(e), NEW o \in [1..Depth(e) -> Int]
    PROVE  /\ RenamedLiterals(ExitCondition(e, g), HeadOf(e), o) = LitsAt(ExitCondition(e, g), o)
           /\ Renamed(Guard(g), HeadOf(e), o) = Suffixed(Guard(g), o)
           /\ Renamed(Cond(g), HeadOf(e), o) = Suffixed(Cond(g), o)
<1>1. g \in Body(e) /\ GuardSource(g) \in Body(e) /\ HeadOf(e) \in Body(e) /\ g \in Loc
  BY ExitBody, HeadInBody, BodyIs
<1>2. IsNameAt(Guard(g), GuardSource(g)) /\ IsNameAt(Cond(g), g)
  BY <1>1, GuardOf, NameIsNameAt DEF Cond
<1>3. Renamed(Guard(g), HeadOf(e), o) = Suffixed(Guard(g), o) /\ Renamed(Cond(g), HeadOf(e), o) = Suffixed(Cond(g), o)
  BY <1>1, <1>2, RenamedInBody
<1>4. ASSUME NEW lit \in ExitCondition(e, g)
      PROVE  Renamed(lit[1], HeadOf(e), o) = Suffixed(lit[1], o)
  <2>1. \A n : Is(n)[1] = n /\ IsNot(n)[1] = n
    BY DEF Is, IsNot
  <2>2. lit = Is(Guard(g)) \/ lit = Is(Cond(g)) \/ lit = IsNot(Cond(g))
    BY DEF ExitCondition
  <2>3. lit[1] = Guard(g) \/ lit[1] = Cond(g)
    BY <2>1, <2>2
  <2>. QED
    BY <1>3, <2>3
<1>. QED
  BY <1>3, <1>4, RenamedAre

(* The condition of an exit is needed behind this exit only, and so is its *)
(* guard: a jump ends its block.                                           *)
LEMMA OnlyExit ==
    ASSUME ProgramOK, TypeInv, NEW e \in Loops, NEW g \in Exits(e), NEW n \in {Guard(g), Cond(g)}
    PROVE  ExitConditions(e, n) = {ExitCondition(e, g)} /\ n \in MergedNames(e)
<1>1. g \in Loc /\ IsGoto(goto[g]) /\ g \in Nat /\ HeadOf(e) \in Loc
  BY ExitIs, LocIs, LoopIs
<1>2. n \in ExitNames(e, g)
  BY DEF ExitNames
<1>3. ASSUME NEW x \in Exits(e), n \in ExitNames(e, x) PROVE x = g
  <2>1. x \in Loc /\ IsGoto(goto[x]) /\ x \in Nat
    BY ExitIs, LocIs
  <2>2. ASSUME NEW v \in Modified(e) PROVE n # Read(v, x)
    <3>1. v \in Var
      BY <1>1 DEF TypeInv, Modified
    <3>2. Read(v, x).obj = v
      BY DEF Read, Name
    <3>3. n.obj \in {"$guard", "$cond"}
      BY DEF Guard, Cond, Name
    <3>. QED
      BY <3>1, <3>2, <3>3, GotoProgramAssumption
  <2>3. n = Guard(x) \/ n = Cond(x)
    BY <1>3, <2>2 DEF ExitNames
  <2>4. /\ Guard(g).obj = "$guard" /\ Guard(x).obj = "$guard" /\ Cond(g).obj = "$cond" /\ Cond(x).obj = "$cond"
        /\ Guard(g).loc = GuardSource(g) /\ Guard(x).loc = GuardSource(x)
        /\ Cond(g).loc = g /\ Cond(x).loc = x
    BY DEF Guard, Cond, Name
  <2>5. CASE n = Cond(g)
    BY <2>3, <2>4, <2>5
  <2>6. CASE n = Guard(g)
    <3>1. GuardSource(g) = GuardSource(x)
      BY <2>3, <2>4, <2>6
    <3>2. /\ GuardSource(g) \in 1..g /\ \A m \in (GuardSource(g) + 1)..g : ~HasGuard(m)
          /\ GuardSource(x) \in 1..x /\ \A m \in (GuardSource(x) + 1)..x : ~HasGuard(m)
      BY <1>1, <2>1, GuardSourceBlock
    <3>3. HasGuard(g + 1) /\ HasGuard(x + 1)
      BY <1>1, <2>1 DEF HasGuard
    <3>4. ~(g < x)
      BY <1>1, <2>1, <3>1, <3>2, <3>3
    <3>5. ~(x < g)
      BY <1>1, <2>1, <3>1, <3>2, <3>3
    <3>. QED
      BY <1>1, <2>1, <3>4, <3>5
  <2>. QED
    BY <2>5, <2>6
<1>. QED
  BY <1>2, <1>3 DEF ExitConditions, MergedNames

LEMMA SeqOfOne == \A x : SetToSeq({x}) = <<x>>
<1>. TAKE x
<1>1. IsFiniteSet({x}) /\ Cardinality({x}) = 1
  BY FS_Singleton
<1>2. SetToSeq({x}) \in [1..1 -> {x}]
  BY <1>1, SeqOfSet
<1>3. \A i \in 1..1 : SetToSeq({x})[i] = x
  BY <1>2
<1>4. <<x>> = [i \in 1..1 |-> x]
  OBVIOUS
<1>. QED
  BY <1>2, <1>3, <1>4

LEMMA ConditionMerge ==
    ASSUME ProgramOK, TypeInv, NEW e \in Loops, NEW g \in Exits(e), NEW n \in {Guard(g), Cond(g)},
           NEW k \in Nat, NEW q \in Odometers(Depth(e) - 1, k)
    PROVE  LET a == ExitMerge(e, n, q, k).alts IN
           /\ DOMAIN a = 1..(k + 1)
           /\ a[1] = Alternative({}, Of(Suffixed(n, Append(q, 0))))
           /\ \A i \in 1..k : a[i + 1] = Alternative(LitsAt(ExitCondition(e, g), Append(q, i)),
                                                     Of(Suffixed(n, Append(q, i))))
<1>. DEFINE c == ExitCondition(e, g)
            a == ExitMerge(e, n, q, k).alts
            Alt(i) == Alternative(LitsAt(c, Append(q, i)), Of(Suffixed(n, Append(q, i))))
            A == Alternative({}, Of(Suffixed(n, Append(q, 0))))
            b == [i \in 1..k |-> Alt(i)]
            Alts == {A} \cup {Alt(i) : i \in 1..k}
<1>1. ASSUME NEW i \in 0..k
      PROVE  /\ RenamedLiterals(c, HeadOf(e), Append(q, i)) = LitsAt(c, Append(q, i))
             /\ Renamed(n, HeadOf(e), Append(q, i)) = Suffixed(n, Append(q, i))
  <2>1. Append(q, i) \in Odometers(Depth(e), k) /\ Depth(e) \in Nat
    BY AppendIndex, DepthIs
  <2>2. Append(q, i) \in [1..Depth(e) -> Int]
    BY <2>1, OdometersAre
  <2>. QED
    BY <2>2, ExitRenamed
<1>2. SetToSeq(ExitConditions(e, n)) = <<c>> /\ Len(<<c>>) = 1
  BY OnlyExit, SeqOfOne
<1>3. a = <<Alternative({}, Of(Renamed(n, HeadOf(e), Append(q, 0))))>>
          \o [j \in 1..(k * 1) |->
                Alternative(RenamedLiterals(<<c>>[((j - 1) % 1) + 1], HeadOf(e), Append(q, ((j - 1) \div 1) + 1)),
                            Of(Renamed(n, HeadOf(e), Append(q, ((j - 1) \div 1) + 1))))]
  BY <1>2 DEF ExitMerge, Equation
<1>4. \A j \in 1..k : ((j - 1) % 1) + 1 = 1 /\ ((j - 1) \div 1) + 1 = j /\ j \in 0..k
  OBVIOUS
<1>5. k * 1 = k /\ <<c>>[1] = c
  OBVIOUS
<1>6. a = <<A>> \o b
  <2>1. A = Alternative({}, Of(Renamed(n, HeadOf(e), Append(q, 0))))
    BY <1>1
  <2>2. b = [j \in 1..k |->
                Alternative(RenamedLiterals(<<c>>[((j - 1) % 1) + 1], HeadOf(e), Append(q, ((j - 1) \div 1) + 1)),
                            Of(Renamed(n, HeadOf(e), Append(q, ((j - 1) \div 1) + 1))))]
    <3>1. ASSUME NEW j \in 1..k
          PROVE  Alt(j) = Alternative(RenamedLiterals(<<c>>[((j - 1) % 1) + 1], HeadOf(e), Append(q, ((j - 1) \div 1) + 1)),
                            Of(Renamed(n, HeadOf(e), Append(q, ((j - 1) \div 1) + 1))))
      BY <1>1, <1>4, <1>5
    <3>. HIDE DEF Alt, c
    <3>. QED
      BY <3>1
  <2>. HIDE DEF a, b, A, c
  <2>. QED
    BY <1>3, <1>5, <2>1, <2>2
<1>. HIDE DEF a, c
<1>7. b \in [1..k -> Alts] /\ \A i \in 1..k : b[i] = Alt(i)
  OBVIOUS
<1>. HIDE DEF b, A, Alt
<1>8. b \in Seq(Alts) /\ Len(b) = k
  <2>1. b \in Seq(Alts)
    BY <1>7, SeqDef
  <2>. QED
    BY <1>7, <2>1, LenProperties
<1>9. <<A>> \in Seq(Alts) /\ Len(<<A>>) = 1 /\ <<A>>[1] = A
  OBVIOUS
<1>. HIDE DEF Alts
<1>10. /\ DOMAIN a = 1..(k + 1)
       /\ \A i \in 1..(k + 1) : a[i] = IF i <= 1 THEN <<A>>[i] ELSE b[i - 1]
  <2>1. /\ a \in Seq(Alts) /\ Len(a) = Len(<<A>>) + Len(b)
        /\ \A i \in 1..(Len(<<A>>) + Len(b)) :
              a[i] = IF i <= Len(<<A>>) THEN <<A>>[i] ELSE b[i - Len(<<A>>)]
    BY <1>6, <1>8, <1>9, ConcatProperties
  <2>2. DOMAIN a = 1..Len(a)
    BY <2>1, LenProperties
  <2>. QED
    BY <1>8, <1>9, <2>1, <2>2
<1>11. a[1] = A
  <2>1. 1 \in 1..(k + 1) /\ 1 <= 1
    OBVIOUS
  <2>. QED
    BY <1>9, <1>10, <2>1
<1>12. \A i \in 1..k : a[i + 1] = Alt(i)
  <2>1. \A i \in 1..k : i + 1 \in 1..(k + 1) /\ ~(i + 1 <= 1) /\ (i + 1) - 1 = i
    OBVIOUS
  <2>. QED
    BY <1>7, <1>10, <2>1
<1>. QED
  BY <1>10, <1>11, <1>12 DEF a, c, Alt, A

LEMMA ConditionMerged ==
    ASSUME ProgramOK, NamesOfLoop, TypeInv, NEW e \in Loops, NEW g \in Exits(e),
           NEW n \in {Guard(g), Cond(g)},
           NEW k \in Nat, NEW q \in Odometers(Depth(e) - 1, k), NEW f
    PROVE  \E i \in 0..k :
              /\ RightSide(f, ExitMerge(e, n, q, k)) = ValueOf(f, Of(Suffixed(n, Append(q, i))))
              /\ \/ AllHold(f, LitsAt(ExitCondition(e, g), Append(q, i)))
                 \/ /\ i = 0
                    /\ \A j \in 1..k : ~AllHold(f, LitsAt(ExitCondition(e, g), Append(q, j)))
<1>. DEFINE m == ExitMerge(e, n, q, k)
            c == Chosen(f, m)
            Holds2(i) == AllHold(f, LitsAt(ExitCondition(e, g), Append(q, i)))
            X(i) == Of(Suffixed(n, Append(q, i)))
<1>1. /\ DOMAIN m.alts = 1..(k + 1)
      /\ m.alts[1] = Alternative({}, X(0))
      /\ \A i \in 1..k : m.alts[i + 1] = Alternative(LitsAt(ExitCondition(e, g), Append(q, i)), X(i))
  BY ConditionMerge
<1>2. m.lhs = Suffixed(n, q)
  BY OnlyExit, MergeName
<1>3. \A i : X(i).name.obj = n.obj
  BY DEF Of, Suffixed, Guard, Cond, Name
<1>4. m.lhs.obj = n.obj /\ n.obj \in {"$guard", "$cond"}
  BY <1>2 DEF Suffixed, Guard, Cond, Name
<1>5. \A w, x : Alternative(w, x).when = w /\ Alternative(w, x).is = x
  BY DEF Alternative
<1>6. RightSide(f, m) = LET x == m.alts[c].is
                        IN  IF m.lhs.obj = "$cond" /\ x.name.obj # "" /\ x.name.obj # "$cond"
                            THEN TestOf(f, x) ELSE ValueOf(f, x)
  BY DEF RightSide, Chosen
<1>. HIDE DEF m, X
<1>a. ASSUME NEW i, m.alts[c].is = X(i) PROVE RightSide(f, m) = ValueOf(f, X(i))
  <2>1. ~(m.lhs.obj = "$cond" /\ X(i).name.obj # "" /\ X(i).name.obj # "$cond")
    BY <1>3, <1>4
  <2>. HIDE DEF c
  <2>2. RightSide(f, m) = IF m.lhs.obj = "$cond" /\ X(i).name.obj # "" /\ X(i).name.obj # "$cond"
                          THEN TestOf(f, X(i)) ELSE ValueOf(f, X(i))
    BY <1>6, <1>a
  <2>. QED
    BY <2>1, <2>2
<1>7. /\ c \in 1..(k + 1) /\ AllHold(f, m.alts[c].when)
      /\ \A j \in 1..(k + 1) : AllHold(f, m.alts[j].when) => j <= c
  <2>1. k + 1 \in Nat /\ k + 1 >= 1 /\ m.alts[1].when = {}
    BY <1>1, <1>5
  <2>. QED
    BY <1>1, <2>1, ChosenIs
<1>. HIDE DEF c
<1>8. CASE c = 1
  <2>1. RightSide(f, m) = ValueOf(f, X(0))
    <3>1. m.alts[c].is = X(0)
      BY <1>1, <1>5, <1>8
    <3>. QED
      BY <1>a, <3>1
  <2>2. ASSUME NEW j \in 1..k, Holds2(j) PROVE FALSE
    <3>1. j + 1 \in 1..(k + 1) /\ ~(j + 1 <= 1)
      OBVIOUS
    <3>2. m.alts[j + 1].when = LitsAt(ExitCondition(e, g), Append(q, j))
      BY <1>1, <1>5
    <3>3. AllHold(f, m.alts[j + 1].when)
      BY <2>2, <3>2
    <3>. QED
      BY <1>7, <1>8, <3>1, <3>3
  <2>3. 0 \in 0..k
    OBVIOUS
  <2>. QED
    BY <2>1, <2>2, <2>3 DEF m, X
<1>9. CASE c # 1
  <2>1. c - 1 \in 1..k /\ c - 1 \in 0..k /\ (c - 1) + 1 = c
    BY <1>7, <1>9
  <2>2. m.alts[c] = Alternative(LitsAt(ExitCondition(e, g), Append(q, c - 1)), X(c - 1))
    BY <1>1, <2>1
  <2>3. RightSide(f, m) = ValueOf(f, X(c - 1))
    <3>1. m.alts[c].is = X(c - 1)
      BY <1>5, <2>2
    <3>. QED
      BY <1>a, <3>1
  <2>4. Holds2(c - 1)
    BY <1>5, <1>7, <2>2
  <2>. QED
    BY <2>1, <2>3, <2>4 DEF m, X
<1>. QED
  BY <1>8, <1>9

Merging(f, e, q) == {m \in MergeEquations(e, q, current) : RightSide(f, m) # Unknown}

LEMMA MergesGive ==
    ASSUME ProgramOK, NamesOfLoop, current \in Nat, NEW e \in Loops, NEW f, NEW o,
           NEW q \in Odometers(Depth(e) - 1, current), Parent(o) = q
    PROVE  /\ \A n : n \in DOMAIN WithMerges(f, e, o)
                        <=> n \in DOMAIN f \/ \E m \in Merging(f, e, q) : n = m.lhs
           /\ \A m \in Merging(f, e, q) : WithMerges(f, e, o)[m.lhs] = RightSide(f, m)
           /\ \A n \in DOMAIN f : (\A m \in Merging(f, e, q) : n # m.lhs) =>
                    WithMerges(f, e, o)[n] = f[n]
<1>. DEFINE E == MergeEquations(e, q, current)
            M == {m \in E : RightSide(f, m) # Unknown}
            new == [n \in {m.lhs : m \in M} |-> RightSide(f, CHOOSE m \in E : m.lhs = n)]
            h == WithMerges(f, e, o)
<1>1. h = Updated(f, new)
  BY MergesAre DEF WithMerges
<1>2. ASSUME NEW m \in M PROVE new[m.lhs] = RightSide(f, m)
  <2>1. m \in E /\ \A r \in E : m.lhs = r.lhs => m = r
    BY MergeDefines
  <2>. HIDE DEF E
  <2>2. (CHOOSE r \in E : r.lhs = m.lhs) = m
    BY <2>1
  <2>3. new[m.lhs] = RightSide(f, CHOOSE r \in E : r.lhs = m.lhs)
    OBVIOUS
  <2>. QED
    BY <2>2, <2>3
<1>3. DOMAIN new = {m.lhs : m \in M}
  OBVIOUS
<1>5. M = Merging(f, e, q)
  BY DEF Merging
<1>. HIDE DEF new, E, M
<1>4. /\ DOMAIN h = DOMAIN f \cup DOMAIN new
      /\ \A n \in DOMAIN f \cup DOMAIN new : h[n] = IF n \in DOMAIN new THEN new[n] ELSE f[n]
  BY <1>1 DEF Updated
<1>. HIDE DEF h
<1>6. /\ \A n : n \in DOMAIN h <=> n \in DOMAIN f \/ \E m \in M : n = m.lhs
      /\ \A m \in M : h[m.lhs] = RightSide(f, m)
      /\ \A n \in DOMAIN f : (\A m \in M : n # m.lhs) => h[n] = f[n]
  BY <1>2, <1>3, <1>4
<1>. QED
  BY <1>5, <1>6 DEF h

LEMMA ValueIs ==
    ASSUME NEW f, NEW n, n.obj \in {"$guard", "$cond"}
    PROVE  ValueOf(f, Of(n)) = IF n \in DOMAIN f THEN f[n] ELSE IF n.obj = "$guard" THEN False ELSE Unknown
BY DEF ValueOf, Of

LEMMA ExitHolds ==
    ASSUME ProgramOK, NEW e, NEW g \in Loc, NEW p, NEW f
    PROVE  AllHold(f, LitsAt(ExitCondition(e, g), p))
             <=> /\ IsTrue(f, Suffixed(Guard(g), p))
                 /\ IF g = e THEN IsNotTrue(f, Suffixed(Cond(g), p)) ELSE IsTrue(f, Suffixed(Cond(g), p))
<1>1. /\ AllHold(f, LitsAt({Is(Guard(g)), Is(Cond(g))}, p))
           <=> IsTrue(f, Suffixed(Guard(g), p)) /\ IsTrue(f, Suffixed(Cond(g), p))
      /\ AllHold(f, LitsAt({Is(Guard(g)), IsNot(Cond(g))}, p))
           <=> IsTrue(f, Suffixed(Guard(g), p)) /\ IsNotTrue(f, Suffixed(Cond(g), p))
  BY LiteralsHold
<1>. QED
  BY <1>1 DEF ExitCondition

(* The merge equation of a condition, and what it gives.                   *)
LEMMA ConditionGiven ==
    ASSUME ProgramOK, NamesOfLoop, TypeInv, current \in Nat, NEW e \in Loops, NEW g \in Exits(e),
           NEW n \in {Guard(g), Cond(g)}, NEW q \in Odometers(Depth(e) - 1, current),
           NEW o, Parent(o) = q, NEW f, Suffixed(n, q) \notin DOMAIN f
    PROVE  LET h == WithMerges(f, e, o)
               x == RightSide(f, ExitMerge(e, n, q, current))
           IN  IF x = Unknown THEN Suffixed(n, q) \notin DOMAIN h
               ELSE Suffixed(n, q) \in DOMAIN h /\ h[Suffixed(n, q)] = x
<1>. DEFINE h == WithMerges(f, e, o)
            m == ExitMerge(e, n, q, current)
            E == MergeEquations(e, q, current)
<1>1. m \in E
  BY OnlyExit DEF MergeEquations
<1>2. m.lhs = Suffixed(n, q)
  BY OnlyExit, MergeName
<1>3. \A r \in E : m.lhs = r.lhs => m = r
  BY <1>1, MergeDefines
<1>4. /\ \A z : z \in DOMAIN h <=> z \in DOMAIN f \/ \E r \in Merging(f, e, q) : z = r.lhs
      /\ \A r \in Merging(f, e, q) : h[r.lhs] = RightSide(f, r)
      /\ \A z \in DOMAIN f : (\A r \in Merging(f, e, q) : z # r.lhs) => h[z] = f[z]
  BY MergesGive
<1>5. Merging(f, e, q) = {r \in E : RightSide(f, r) # Unknown}
  BY DEF Merging
<1>. HIDE DEF h, m, E
<1>6. CASE RightSide(f, m) = Unknown
  <2>1. \A r \in Merging(f, e, q) : r.lhs # Suffixed(n, q)
    BY <1>2, <1>3, <1>5, <1>6
  <2>2. Suffixed(n, q) \notin DOMAIN h
    BY <1>4, <2>1
  <2>. QED
    BY <1>6, <2>2 DEF h, m
<1>7. CASE RightSide(f, m) # Unknown
  <2>1. m \in Merging(f, e, q)
    BY <1>1, <1>5, <1>7
  <2>2. Suffixed(n, q) \in DOMAIN h /\ h[Suffixed(n, q)] = RightSide(f, m)
    BY <1>2, <1>4, <2>1
  <2>. QED
    BY <1>7, <2>2 DEF h, m
<1>. QED
  BY <1>6, <1>7

LEMMA ExitLeft ==
    ASSUME ProgramOK, NamesOfLoop, TypeInv, current \in Nat, NEW e \in Loops, NEW g \in Exits(e),
           NEW q \in Odometers(Depth(e) - 1, current), NEW o, Parent(o) = q, NEW f,
           Suffixed(Guard(g), q) \notin DOMAIN f, Suffixed(Cond(g), q) \notin DOMAIN f,
           AllHold(WithMerges(f, e, o), LitsAt(ExitCondition(e, g), q))
    PROVE  \E p \in Odometers(Depth(e), current) :
                SameUpto(Depth(e) - 1, p, q) /\ AllHold(f, LitsAt(ExitCondition(e, g), p))
<1>. DEFINE h == WithMerges(f, e, o)
            L == ExitCondition(e, g)
            G(i) == Suffixed(Guard(g), Append(q, i))
            C(i) == Suffixed(Cond(g), Append(q, i))
            x == RightSide(f, ExitMerge(e, Guard(g), q, current))
            y == RightSide(f, ExitMerge(e, Cond(g), q, current))
            Found == \E p \in Odometers(Depth(e), current) :
                        SameUpto(Depth(e) - 1, p, q) /\ AllHold(f, LitsAt(L, p))
<1>0. g \in Loc /\ Depth(e) \in Nat /\ Depth(e) >= 1
  BY ExitIs, DepthIs
<1>1. /\ IsTrue(h, Suffixed(Guard(g), q))
      /\ IF g = e THEN IsNotTrue(h, Suffixed(Cond(g), q)) ELSE IsTrue(h, Suffixed(Cond(g), q))
  BY <1>0, ExitHolds
<1>2. x = True
  <2>1. IF x = Unknown THEN Suffixed(Guard(g), q) \notin DOMAIN h
        ELSE Suffixed(Guard(g), q) \in DOMAIN h /\ h[Suffixed(Guard(g), q)] = x
    BY ConditionGiven
  <2>. QED
    BY <1>1, <2>1 DEF IsTrue
<1>3. y # Unknown /\ (IF g = e THEN y # True ELSE y = True)
  <2>1. IF y = Unknown THEN Suffixed(Cond(g), q) \notin DOMAIN h
        ELSE Suffixed(Cond(g), q) \in DOMAIN h /\ h[Suffixed(Cond(g), q)] = y
    BY ConditionGiven
  <2>. QED
    BY <1>1, <2>1 DEF IsTrue, IsNotTrue
<1>4. ASSUME NEW i \in 0..current, AllHold(f, LitsAt(L, Append(q, i))) PROVE Found
  <2>1. Append(q, i) \in Odometers(Depth(e), current) /\ SameUpto(Depth(e) - 1, Append(q, i), q)
    BY <1>0, AppendIndex
  <2>. QED
    BY <1>4, <2>1
<1>5. PICK i \in 0..current :
        /\ x = ValueOf(f, Of(G(i))) /\ (AllHold(f, LitsAt(L, Append(q, i))) \/ i = 0)
  BY ConditionMerged
<1>6. PICK j \in 0..current :
        /\ y = ValueOf(f, Of(C(j))) /\ (AllHold(f, LitsAt(L, Append(q, j))) \/ j = 0)
  BY ConditionMerged
<1>. HIDE DEF x, y, Found
<1>7. CASE i = 0 /\ j = 0
  <2>1. G(0).obj = "$guard" /\ C(0).obj = "$cond"
    BY <1>0, WayNames
  <2>2. IsTrue(f, G(0))
    BY <1>2, <1>5, <1>7, <2>1, ValueIs DEF IsTrue, True, False
  <2>3. IF g = e THEN IsNotTrue(f, C(0)) ELSE IsTrue(f, C(0))
    <3>1. y = IF C(0) \in DOMAIN f THEN f[C(0)] ELSE Unknown
      BY <1>6, <1>7, <2>1, ValueIs
    <3>. QED
      BY <1>3, <3>1 DEF IsTrue, IsNotTrue
  <2>4. AllHold(f, LitsAt(L, Append(q, 0)))
    BY <1>0, <2>2, <2>3, ExitHolds
  <2>5. 0 \in 0..current
    OBVIOUS
  <2>. QED
    BY <1>4, <2>4, <2>5 DEF Found
<1>. QED
  BY <1>4, <1>5, <1>6, <1>7 DEF Found

LEMMA ExitTaken ==
    ASSUME ProgramOK, NamesOfLoop, TypeInv, current \in Nat, NEW e \in Loops, NEW g \in Exits(e),
           NEW o \in Odometers(Depth(e), current), NEW q \in Odometers(Depth(e) - 1, current),
           Parent(o) = q, NEW f, GuardsAreTrue(f),
           Suffixed(Guard(g), q) \notin DOMAIN f, Suffixed(Cond(g), q) \notin DOMAIN f,
           AllHold(f, LitsAt(ExitCondition(e, g), o))
    PROVE  AllHold(WithMerges(f, e, o), LitsAt(ExitCondition(e, g), q))
<1>. DEFINE h == WithMerges(f, e, o)
            L == ExitCondition(e, g)
<1>0. g \in Loc /\ Level(g) = Depth(e) /\ Depth(e) \in Nat /\ Depth(e) >= 1
  BY ExitIs, DepthIs
<1>1. Append(q, o[Depth(e)]) = o /\ o[Depth(e)] \in 0..current
  <2>1. PICK p \in Odometers(Depth(e) - 1, current) : Append(p, o[Depth(e)]) = o
    BY <1>0, AppendParent
  <2>2. o[Depth(e)] \in 0..current
    BY <1>0, OdometersAre
  <2>3. Parent(o) = p
    <3>1. p \in Seq(0..current) /\ Len(p) = Depth(e) - 1
      <4>1. p \in [1..(Depth(e) - 1) -> 0..current] /\ Depth(e) - 1 \in Nat
        BY <1>0 DEF Odometers
      <4>2. p \in Seq(0..current)
        BY <4>1, SeqDef
      <4>. QED
        BY <4>1, <4>2, LenProperties
    <3>2. Len(o) = Depth(e)
      BY <1>0, OdometersAre
    <3>3. Prefix(o, Depth(e) - 1) \in Odometers(Depth(e) - 1, current)
          /\ \A i \in 1..(Depth(e) - 1) : Prefix(o, Depth(e) - 1)[i] = o[i]
      BY <1>0, PrefixTo
    <3>4. \A i \in 1..(Depth(e) - 1) : o[i] = p[i]
      BY <2>1, <2>2, <3>1, AppendProperties
    <3>5. Prefix(o, Depth(e) - 1) = p
      BY <1>0, <3>3, <3>4, SameOdometers
    <3>. QED
      BY <3>2, <3>5 DEF Parent
  <2>. QED
    BY <2>1, <2>2, <2>3
<1>2. ASSUME NEW n \in {Guard(g), Cond(g)}
      PROVE  \E i \in 0..current :
                /\ RightSide(f, ExitMerge(e, n, q, current)) = ValueOf(f, Of(Suffixed(n, Append(q, i))))
                /\ AllHold(f, LitsAt(L, Append(q, i)))
  <2>1. PICK i \in 0..current :
                /\ RightSide(f, ExitMerge(e, n, q, current)) = ValueOf(f, Of(Suffixed(n, Append(q, i))))
                /\ \/ AllHold(f, LitsAt(L, Append(q, i)))
                   \/ i = 0 /\ \A j \in 1..current : ~AllHold(f, LitsAt(L, Append(q, j)))
    BY ConditionMerged
  <2>2. CASE i = 0 /\ \A j \in 1..current : ~AllHold(f, LitsAt(L, Append(q, j)))
    <3>1. o[Depth(e)] = 0
      <4>1. o[Depth(e)] \notin 1..current
        BY <1>1, <2>2
      <4>. QED
        BY <1>1, <4>1
    <3>2. Append(q, i) = o
      BY <1>1, <2>2, <3>1
    <3>. QED
      BY <2>1, <3>2
  <2>. QED
    BY <2>1, <2>2
<1>3. IsTrue(h, Suffixed(Guard(g), q))
  <2>1. PICK i \in 0..current :
          /\ RightSide(f, ExitMerge(e, Guard(g), q, current)) = ValueOf(f, Of(Suffixed(Guard(g), Append(q, i))))
          /\ AllHold(f, LitsAt(L, Append(q, i)))
    BY <1>2
  <2>2. IsTrue(f, Suffixed(Guard(g), Append(q, i)))
    BY <1>0, <2>1, ExitHolds
  <2>3. RightSide(f, ExitMerge(e, Guard(g), q, current)) = True
    <3>1. Suffixed(Guard(g), Append(q, i)).obj = "$guard"
      BY <1>0, WayNames
    <3>. QED
      BY <2>1, <2>2, <3>1, ValueIs DEF IsTrue
  <2>4. True # Unknown
    BY DEF True, Unknown
  <2>5. LET x == RightSide(f, ExitMerge(e, Guard(g), q, current))
        IN  IF x = Unknown THEN Suffixed(Guard(g), q) \notin DOMAIN h
            ELSE Suffixed(Guard(g), q) \in DOMAIN h /\ h[Suffixed(Guard(g), q)] = x
    BY ConditionGiven
  <2>. QED
    BY <2>3, <2>4, <2>5 DEF IsTrue
<1>4. IF g = e THEN IsNotTrue(h, Suffixed(Cond(g), q)) ELSE IsTrue(h, Suffixed(Cond(g), q))
  <2>1. PICK i \in 0..current :
          /\ RightSide(f, ExitMerge(e, Cond(g), q, current)) = ValueOf(f, Of(Suffixed(Cond(g), Append(q, i))))
          /\ AllHold(f, LitsAt(L, Append(q, i)))
    BY <1>2
  <2>. DEFINE n == Suffixed(Cond(g), Append(q, i))
              x == RightSide(f, ExitMerge(e, Cond(g), q, current))
  <2>2. IF g = e THEN IsNotTrue(f, n) ELSE IsTrue(f, n)
    BY <1>0, <2>1, ExitHolds
  <2>3. n \in DOMAIN f /\ x = f[n] /\ n.obj = "$cond"
    <3>1. n.obj = "$cond"
      BY <1>0, WayNames
    <3>2. n \in DOMAIN f
      BY <2>2 DEF IsTrue, IsNotTrue
    <3>. QED
      BY <2>1, <3>1, <3>2, ValueIs
  <2>4. OfCopy(n)
    <3>1. Append(q, i) \in Odometers(Level(g), current)
      BY <1>0, AppendIndex
    <3>. QED
      BY <1>0, <3>1, CopyNames
  <2>5. x \in {True, False}
    BY <2>3, <2>4 DEF GuardsAreTrue
  <2>6. x # Unknown
    BY <2>5 DEF True, False, Unknown
  <2>7. IF x = Unknown THEN Suffixed(Cond(g), q) \notin DOMAIN h
        ELSE Suffixed(Cond(g), q) \in DOMAIN h /\ h[Suffixed(Cond(g), q)] = x
    BY ConditionGiven
  <2>. QED
    BY <2>2, <2>3, <2>6, <2>7 DEF IsTrue, IsNotTrue
<1>. QED
  BY <1>0, <1>3, <1>4, ExitHolds

-----------------------------------------------------------------------------
(* One step of the walk that goes on.                                      *)

LEMMA InnerDepth ==
    ASSUME ProgramOK, NEW e \in Loops, NEW f \in Around(e) \ {e}
    PROVE  Depth(f) \in 1..(Depth(e) - 1)
<1>1. e \in Nat /\ Depth(e) \in Nat /\ e \in Around(e) /\ f \in Loops /\ e <= f
  BY AroundIs, LoopIs
<1>2. e < f /\ Depth(f) \in Nat /\ Depth(f) >= 1
  BY <1>1, LoopIs
<1>3. Depth(f) < Depth(e)
  BY <1>1, <1>2, ChainIs
<1>. QED
  BY <1>1, <1>2, <1>3

LEMMA LoopBeforePrefix ==
    ASSUME ProgramOK, NEW e \in Loops, NEW p, NEW q, SameUpto(Depth(e) - 1, q, p), NEW t, NEW u,
           LoopBefore(e, p, t, u)
    PROVE  LoopBefore(e, q, t, u)
<1>1. \A f \in Around(e) \ {e} : q[Depth(f)] = p[Depth(f)]
  BY InnerDepth DEF SameUpto
<1>. QED
  BY <1>1 DEF LoopBefore, Earlier

LEMMA ParentIs ==
    ASSUME ProgramOK, current \in Nat, NEW e \in Loops, NEW o \in Odometers(Depth(e), current)
    PROVE  /\ Parent(o) \in Odometers(Depth(e) - 1, current)
           /\ SameUpto(Depth(e) - 1, Parent(o), o) /\ Parent(o) = Prefix(o, Depth(e) - 1)
<1>1. Depth(e) \in Nat /\ Depth(e) >= 1
  BY DepthIs
<1>2. Len(o) = Depth(e)
  BY <1>1, OdometersAre
<1>3. Parent(o) = Prefix(o, Depth(e) - 1)
  BY <1>2 DEF Parent
<1>4. Depth(e) - 1 \in 0..Depth(e)
  BY <1>1
<1>5. /\ Prefix(o, Depth(e) - 1) \in Odometers(Depth(e) - 1, current)
      /\ \A i \in 1..(Depth(e) - 1) : Prefix(o, Depth(e) - 1)[i] = o[i]
  BY <1>1, <1>4, PrefixTo
<1>. QED
  BY <1>3, <1>5 DEF SameUpto

(* A name merged behind a loop the walk is in has no value yet.            *)
LEMMA MergeFresh ==
    ASSUME ProgramOK, NamesOfLoop, TypeInv, Walking, NamesPlaced(val, at, odo), NEW v,
           NEW e \in Around(at), NEW q \in Odometers(Depth(e) - 1, current),
           SameUpto(Depth(e) - 1, q, odo), NEW m \in MergeEquations(e, q, current)
    PROVE  /\ m.lhs \notin DOMAIN After1(v)
           /\ m.lhs.loc \in Span(e) /\ m.lhs.odo = q
<1>0. /\ e \in Loops /\ current \in Nat /\ at \in Loc /\ odo \in Odometers(Level(at), current)
      /\ Depth(e) \in Nat /\ Depth(e) >= 1 /\ Depth(e) \in 1..Level(at) /\ Level(at) \in Nat
  BY AroundIs, LoopIs, AroundIsFinite DEF Walking
<1>1. m.lhs.loc \in Span(e) /\ m.lhs.odo = q /\ Len(m.lhs.odo) = Depth(e) - 1
  BY <1>0, MergeDefines
<1>2. m.lhs.loc \in Loc /\ m.lhs.loc # 0 /\ Level(m.lhs.loc) \in Nat /\ Level(m.lhs.loc) >= Depth(e)
  BY <1>0, <1>1, SpanDepth
<1>3. m.lhs \notin DOMAIN Defined(at, v)
  <2>1. Len(odo) = Level(at)
    BY <1>0, OdometersAre
  <2>2. m.lhs.odo # odo
    BY <1>0, <1>1, <2>1
  <2>. QED
    BY <1>0, <2>2, DefinedHere
<1>4. ~IsInput(m.lhs)
  <2>1. \A w : Name(w, "in", 0).loc = 0
    BY DEF Name
  <2>. QED
    BY <1>2, <2>1 DEF IsInput
<1>5. ~PlacedCopy(m.lhs, at, odo)
  <2>1. SUFFICES ASSUME m.lhs.odo \in Odometers(Level(m.lhs.loc), current) PROVE FALSE
    BY DEF PlacedCopy
  <2>2. Len(m.lhs.odo) = Level(m.lhs.loc)
    BY <1>0, <1>2, <2>1, OdometersAre
  <2>. QED
    BY <1>0, <1>1, <1>2, <2>2
<1>6. ~PlacedMerge(m.lhs, at, odo)
  <2>1. SUFFICES ASSUME NEW d \in Loops, m.lhs.loc \in Span(d), m.lhs.odo \in Odometers(Depth(d) - 1, current),
                        LoopBefore(d, m.lhs.odo, at, odo)
                 PROVE  FALSE
    BY DEF PlacedMerge
  <2>2. Depth(d) \in Nat /\ Depth(d) >= 1
    BY DepthIs
  <2>3. Len(m.lhs.odo) = Depth(d) - 1
    BY <1>0, <2>1, <2>2, OdometersAre
  <2>4. Depth(d) = Depth(e)
    BY <1>0, <1>1, <2>2, <2>3
  <2>5. d = e
    BY <1>0, <1>1, <2>1, <2>4, SameDepth
  <2>6. IntAt(Around(at), odo)
    BY <1>0, OdometerInts
  <2>. QED
    BY <1>0, <1>1, <2>1, <2>5, <2>6, NotBeforeInside
<1>7. DOMAIN After1(v) = DOMAIN val \cup DOMAIN Defined(at, v)
  BY DefinedAnew
<1>. QED
  BY <1>1, <1>3, <1>4, <1>5, <1>6, <1>7 DEF NamesPlaced

(* A step leaves no loop, or one: the innermost, at one of its exits.      *)
LEMMA LeavesOne ==
    ASSUME ProgramOK, JumpsOK, NEW g \in Loc, NEW t \in Next(g), NEW e \in Around(g) \ Around(t)
    PROVE  /\ Around(g) \ Around(t) = {e} /\ Around(g) = Around(e) /\ Level(g) = Depth(e)
           /\ g \in Exits(e) /\ Ways(g, t) = {ExitCondition(e, g)}
<1>1. \A f \in Around(g) \ Around(t) : f = e
  BY DEF JumpsOK
<1>2. /\ e \in Loops /\ e \in Nat /\ g \in Span(e) /\ g \in Nat /\ HeadOf(e) <= g /\ g <= e
      /\ Around(e) \subseteq Around(g) /\ e \in Around(e) /\ IsGoto(goto[e]) /\ goto[e].to = HeadOf(e)
      /\ HeadOf(e) \in Nat /\ HeadOf(e) <= e
  BY AroundIs, LoopIs
<1>3. \A f \in Around(g) : f \in Nat /\ f >= e
  <2>1. SUFFICES ASSUME NEW f \in Around(g), f < e PROVE FALSE
    BY <1>2, AroundIsFinite
  <2>2. e \in Around(f)
    BY <1>2, <2>1, ChainIs
  <2>3. f \in Around(t)
    BY <1>1, <1>2, <2>1, AroundIsFinite
  <2>4. e \in Around(t)
    BY <2>2, <2>3, AroundIs
  <2>. QED
    BY <2>4
<1>4. Around(g) = Around(e) /\ Level(g) = Depth(e)
  <2>1. Around(g) \subseteq Around(e)
    BY <1>2, <1>3, AroundOuter
  <2>. QED
    BY <1>2, <2>1 DEF Depth, Level
<1>5. LoopOf(g) = e
  <2>1. e \in Around(g) /\ \A y \in Around(g) : e <= y
    BY <1>3
  <2>2. \A x \in Around(g) : (\A y \in Around(g) : x <= y) => x = e
    BY <1>2, <1>3
  <2>3. (CHOOSE x \in Around(g) : \A y \in Around(g) : x <= y) = e
    BY <2>1, <2>2
  <2>. QED
    BY <2>3 DEF LoopOf, Min
<1>6. g \in Body(e)
  BY <1>2, <1>5 DEF Body
<1>7. t \in Nat /\ e < t /\ (t = g + 1 \/ (IsGoto(goto[g]) /\ t = goto[g].to))
  <2>1. t \in Nat /\ e < t
    BY CrossedLoop, WayIs
  <2>. QED
    BY <2>1 DEF Next
<1>8. CASE IsGoto(goto[g]) /\ t = goto[g].to
  <2>1. g # e /\ t # g + 1
    BY <1>2, <1>7, <1>8
  <2>2. g \in Exits(e)
    BY <1>6, <1>7, <1>8 DEF Exits
  <2>3. Ways(g, t) = {ExitCondition(e, g)}
    BY <1>8, <2>1 DEF Ways, ExitCondition
  <2>. QED
    BY <1>1, <1>4, <2>2, <2>3
<1>9. CASE t = g + 1 /\ ~(IsGoto(goto[g]) /\ t = goto[g].to)
  <2>1. g = e
    BY <1>2, <1>7, <1>9
  <2>2. ~Always(goto[g])
    BY <1>2, <1>9, <2>1 DEF Next
  <2>3. g \in Exits(e)
    BY <1>2, <1>6, <2>1, <2>2 DEF Exits, IsDoWhile
  <2>4. Ways(g, t) = {ExitCondition(e, g)}
    BY <1>2, <1>9, <2>1, <2>2 DEF Ways, ExitCondition
  <2>. QED
    BY <1>1, <1>4, <2>3, <2>4
<1>. QED
  BY <1>7, <1>8, <1>9

LEMMA StepMerges ==
    ASSUME ProgramOK, JumpsOK, current \in Nat, at \in Loc, odo \in Odometers(Level(at), current),
           NEW t \in Next(at), NEW e \in Around(at) \ Around(t), NEW f
    PROVE  WithAllMerges(f, at, t) = WithMerges(f, e, odo)
<1>. DEFINE L == Level(at)
<1>1. Around(at) \ Around(t) = {e} /\ L = Depth(e) /\ e \in Around(at)
  BY LeavesOne
<1>2. L \in Nat /\ L >= 1 /\ IsFiniteSet(Around(at)) /\ LoopAt(at, L) = e
  <2>1. e \in Loops
    BY AroundIs
  <2>. QED
    BY <1>1, <2>1, LoopIs, AroundIsFinite, LoopAtDepth
<1>3. Cardinality(Around(at) \cap Around(t)) = L - 1
  <2>1. Around(at) \cap Around(t) = Around(at) \ {e}
    BY <1>1
  <2>2. Cardinality(Around(at) \ {e}) = Cardinality(Around(at)) - 1
    BY <1>1, <1>2, FS_RemoveElement
  <2>. QED
    BY <2>1, <2>2 DEF Level
<1>4. PICK h : Behind(f, at, L, h) /\ WithAllMerges(f, at, t) = h[Cardinality(Around(at) \cap Around(t))]
  BY AllMergesAre
<1>5. Prefix(odo, L) = odo
  BY <1>2, PrefixIs, OdometersAre
<1>. HIDE DEF L
<1>6. h[L] = f
  <2>1. L \in 0..L
    BY <1>2
  <2>. QED
    BY <1>4, <2>1 DEF Behind
<1>7. h[L - 1] = WithMerges(h[L], LoopAt(at, L), Prefix(odo, L))
  <2>1. L - 1 \in 0..L /\ L - 1 # L /\ (L - 1) + 1 = L
    BY <1>2
  <2>2. h[L - 1] = WithMerges(h[(L - 1) + 1], LoopAt(at, (L - 1) + 1), Prefix(odo, (L - 1) + 1))
    BY <1>4, <2>1 DEF Behind
  <2>. QED
    BY <2>1, <2>2
<1>. QED
  BY <1>2, <1>3, <1>4, <1>5, <1>6, <1>7

ValNext(v) == WithAllMerges(After1(v), at, Target(at, v))

LEMMA StepIs ==
    ASSUME ProgramOK, Walking, NEW v, ~Ends(v)
    PROVE  /\ Target(at, v) \in Next(at) /\ Target(at, v) \in Loc
           /\ Moved(at, Target(at, v)) = Onwards(at, odo, Target(at, v))
           /\ Moved(at, Target(at, v)) \in Odometers(Level(Target(at, v)), current)
           /\ Taken(at, Target(at, v), v)
<1>1. /\ at \in Loc /\ current \in Nat /\ odo \in Odometers(Level(at), current)
      /\ goto[at].op # "end" /\ ~RunsOut(at, Target(at, v))
      /\ ~(goto[at].op = "assume" /\ ~Holds(goto[at], v))
  BY DEF Walking, Ends
<1>2. Target(at, v) \in Next(at) /\ Target(at, v) \in Loc
  BY <1>1, TargetIsNext
<1>3. Moved(at, Target(at, v)) \in Odometers(Level(Target(at, v)), current)
  BY <1>1, <1>2, MovedInRange
<1>. QED
  BY <1>1, <1>2, <1>3, MovedIsOnwards DEF Taken

(* Either no loop is left, or what is left is merged.                      *)
LEMMA StepCases ==
    ASSUME ProgramOK, NamesOfLoop, JumpsOK, Walking, NEW v, ~Ends(v)
    PROVE  \/ Around(at) \subseteq Around(Target(at, v)) /\ ValNext(v) = After1(v)
           \/ \E e \in Around(at) \ Around(Target(at, v)) :
                /\ ValNext(v) = WithMerges(After1(v), e, odo)
                /\ e \in Loops /\ odo \in Odometers(Depth(e), current)
<1>1. /\ at \in Loc /\ current \in Nat /\ odo \in Odometers(Level(at), current)
      /\ Target(at, v) \in Next(at)
  BY StepIs DEF Walking
<1>2. CASE Around(at) \subseteq Around(Target(at, v))
  BY <1>1, <1>2, AllMergesKeep DEF ValNext
<1>3. ASSUME NEW e \in Around(at) \ Around(Target(at, v))
      PROVE  /\ ValNext(v) = WithMerges(After1(v), e, odo)
             /\ e \in Loops /\ odo \in Odometers(Depth(e), current)
  <2>1. Level(at) = Depth(e) /\ e \in Loops
    BY <1>1, LeavesOne, AroundIs
  <2>. QED
    BY <1>1, <2>1, StepMerges DEF ValNext
<1>. QED
  BY <1>2, <1>3

LEMMA StepExtends ==
    ASSUME ProgramOK, NamesOfLoop, JumpsOK, TypeInv, Walking, NamesPlaced(val, at, odo), NEW v, ~Ends(v)
    PROVE  /\ Extends(After1(v), ValNext(v)) /\ Keeps(After1(v), ValNext(v))
           /\ \A n \in DOMAIN ValNext(v) :
                \/ n \in DOMAIN After1(v)
                \/ \E e \in Around(at) \ Around(Target(at, v)) :
                        n.loc \in Span(e) /\ n.odo = Parent(odo)
<1>. DEFINE f == After1(v)
            h == ValNext(v)
<1>0. /\ at \in Loc /\ current \in Nat /\ odo \in Odometers(Level(at), current)
  BY DEF Walking
<1>1. Keeps(f, h)
  BY <1>0, AllMergesKeep DEF ValNext
<1>2. CASE h = f
  BY <1>1, <1>2 DEF Extends
<1>3. ASSUME NEW e \in Around(at) \ Around(Target(at, v)),
             h = WithMerges(f, e, odo), e \in Loops, odo \in Odometers(Depth(e), current)
      PROVE  /\ Extends(f, h)
             /\ \A n \in DOMAIN h : n \in DOMAIN f \/ (n.loc \in Span(e) /\ n.odo = Parent(odo))
  <2>. DEFINE q == Parent(odo)
  <2>1. q \in Odometers(Depth(e) - 1, current) /\ SameUpto(Depth(e) - 1, q, odo)
    BY <1>0, <1>3, ParentIs
  <2>2. \A m \in MergeEquations(e, q, current) :
            m.lhs \notin DOMAIN f /\ m.lhs.loc \in Span(e) /\ m.lhs.odo = q
    BY <2>1, MergeFresh
  <2>3. \A m \in Merging(f, e, q) : m \in MergeEquations(e, q, current)
    BY DEF Merging
  <2>4. /\ \A n : n \in DOMAIN WithMerges(f, e, odo) <=> n \in DOMAIN f \/ \E m \in Merging(f, e, q) : n = m.lhs
        /\ \A n \in DOMAIN f : (\A m \in Merging(f, e, q) : n # m.lhs) => WithMerges(f, e, odo)[n] = f[n]
    BY <1>0, <1>3, <2>1, MergesGive
  <2>. HIDE DEF f, h, q
  <2>5. \A n \in DOMAIN f : n \in DOMAIN h /\ h[n] = f[n]
    BY <1>3, <2>2, <2>3, <2>4
  <2>6. \A n \in DOMAIN h : n \in DOMAIN f \/ (n.loc \in Span(e) /\ n.odo = q)
    BY <1>3, <2>2, <2>3, <2>4
  <2>. QED
    BY <2>5, <2>6 DEF Extends, q
<1>4. ASSUME NEW e \in Around(at) \ Around(Target(at, v)),
             h = WithMerges(f, e, odo), e \in Loops, odo \in Odometers(Depth(e), current)
      PROVE  /\ Extends(f, h)
             /\ \A n \in DOMAIN h :
                    \/ n \in DOMAIN f
                    \/ \E d \in Around(at) \ Around(Target(at, v)) : n.loc \in Span(d) /\ n.odo = Parent(odo)
  <2>1. /\ Extends(f, h)
        /\ \A n \in DOMAIN h : n \in DOMAIN f \/ (n.loc \in Span(e) /\ n.odo = Parent(odo))
    BY <1>3, <1>4
  <2>. HIDE DEF f, h
  <2>. QED
    BY <2>1
<1>5. h = f \/ \E e \in Around(at) \ Around(Target(at, v)) :
                h = WithMerges(f, e, odo) /\ e \in Loops /\ odo \in Odometers(Depth(e), current)
  BY StepCases
<1>. HIDE DEF f, h
<1>. QED
  BY <1>1, <1>2, <1>4, <1>5 DEF f, h

(* The names are where the walk has been.                                  *)
LEMMA StepPlaced ==
    ASSUME ProgramOK, NamesOfLoop, JumpsOK, TypeInv, Walking, NamesPlaced(val, at, odo), NEW v, ~Ends(v)
    PROVE  NamesPlaced(ValNext(v), Target(at, v), Moved(at, Target(at, v)))
<1>. DEFINE t == Target(at, v)
            u == Moved(at, t)
<1>0. /\ at \in Loc /\ current \in Nat /\ odo \in Odometers(Level(at), current)
      /\ t \in Next(at) /\ t \in Loc /\ u = Onwards(at, odo, t) /\ u \in Odometers(Level(t), current)
  BY StepIs DEF Walking
<1>1. IntAt(Around(at), odo) /\ IntAt(Around(t), u)
  BY <1>0, OdometerInts
<1>2. /\ CopyBefore(at, odo, t, u)
      /\ \A e \in Around(at) \ Around(t) : LoopBefore(e, odo, t, u)
  BY <1>0, <1>1, OnwardsIsAfter
<1>3. /\ \A n \in DOMAIN ValNext(v) :
            \/ n \in DOMAIN After1(v)
            \/ \E e \in Around(at) \ Around(t) : n.loc \in Span(e) /\ n.odo = Parent(odo)
  BY StepExtends
<1>4. /\ DOMAIN After1(v) = DOMAIN val \cup DOMAIN Defined(at, v)
      /\ \A n \in DOMAIN Defined(at, v) : n.loc = at /\ n.odo = odo
  BY DefinedAnew
<1>. HIDE DEF t, u
<1>5. ASSUME NEW n, PlacedCopy(n, at, odo) PROVE PlacedCopy(n, t, u)
  <2>1. n.loc \in Loc /\ n.odo \in Odometers(Level(n.loc), current) /\ CopyBefore(n.loc, n.odo, at, odo)
    BY <1>5 DEF PlacedCopy
  <2>2. Closed(Around(n.loc), n.loc) /\ IntAt(Around(n.loc), n.odo)
    BY <1>0, <2>1, ClosedCopy, OdometerInts
  <2>3. CopyBefore(n.loc, n.odo, t, u)
    BY <1>0, <1>1, <1>2, <2>1, <2>2, BeforeTransitive DEF CopyBefore
  <2>. QED
    BY <2>1, <2>3 DEF PlacedCopy
<1>6. ASSUME NEW n, PlacedMerge(n, at, odo) PROVE PlacedMerge(n, t, u)
  <2>1. PICK e \in Loops : /\ n.loc \in Span(e) /\ n.odo \in Odometers(Depth(e) - 1, current)
                           /\ LoopBefore(e, n.odo, at, odo)
    BY <1>6 DEF PlacedMerge
  <2>2. IntAt(Around(e) \ {e}, n.odo)
    <3>1. Depth(e) - 1 \in Nat
      BY DepthIs
    <3>2. \A i \in 1..(Depth(e) - 1) : n.odo[i] \in 0..current
      BY <1>0, <2>1, <3>1, OdometersAre
    <3>. QED
      BY <1>0, <3>2, InnerDepth DEF IntAt
  <2>3. Closed(Around(e) \ {e}, e)
    BY ClosedLoop
  <2>4. LoopBefore(e, n.odo, t, u)
    BY <1>0, <1>1, <1>2, <2>1, <2>2, <2>3, BeforeTransitive DEF LoopBefore, CopyBefore
  <2>. QED
    BY <2>1, <2>4 DEF PlacedMerge
<1>7. ASSUME NEW n, n.loc = at, n.odo = odo PROVE PlacedCopy(n, t, u)
  BY <1>0, <1>2, <1>7 DEF PlacedCopy
<1>8. ASSUME NEW n, NEW e \in Around(at) \ Around(t), n.loc \in Span(e), n.odo = Parent(odo)
      PROVE  PlacedMerge(n, t, u)
  <2>1. e \in Loops /\ Level(at) = Depth(e)
    BY <1>0, LeavesOne, AroundIs
  <2>2. Parent(odo) \in Odometers(Depth(e) - 1, current) /\ SameUpto(Depth(e) - 1, Parent(odo), odo)
    BY <1>0, <2>1, ParentIs
  <2>3. LoopBefore(e, n.odo, t, u)
    BY <1>2, <1>8, <2>1, <2>2, LoopBeforePrefix
  <2>. QED
    BY <1>8, <2>1, <2>2, <2>3 DEF PlacedMerge
<1>9. ASSUME NEW n \in DOMAIN ValNext(v) PROVE IsInput(n) \/ PlacedCopy(n, t, u) \/ PlacedMerge(n, t, u)
  BY <1>3, <1>4, <1>5, <1>6, <1>7, <1>8 DEF NamesPlaced
<1>. QED
  BY <1>9 DEF NamesPlaced, t, u

LEMMA StepGuards ==
    ASSUME ProgramOK, NamesOfLoop, JumpsOK, TypeInv, Walking, WalkedSoFar(val, at, odo), NEW v, ~Ends(v)
    PROVE  GuardsAreTrue(ValNext(v))
<1>1. NamesPlaced(val, at, odo) /\ GuardsAreTrue(val)
  BY DEF WalkedSoFar
<1>2. GuardsAreTrue(After1(v)) /\ Keeps(After1(v), ValNext(v))
  BY <1>1, GuardsTrueHere, StepExtends
<1>. QED
  BY <1>2 DEF GuardsAreTrue, Keeps

(* The names of an exit merged behind the loop are new.                    *)
LEMMA ExitFresh ==
    ASSUME ProgramOK, NamesOfLoop, TypeInv, Walking, NamesPlaced(val, at, odo), NEW v,
           NEW e \in Around(at), odo \in Odometers(Depth(e), current), NEW g \in Exits(e)
    PROVE  /\ Suffixed(Guard(g), Parent(odo)) \notin DOMAIN After1(v)
           /\ Suffixed(Cond(g), Parent(odo)) \notin DOMAIN After1(v)
<1>0. e \in Loops /\ current \in Nat
  BY AroundIs DEF Walking
<1>1. Parent(odo) \in Odometers(Depth(e) - 1, current) /\ SameUpto(Depth(e) - 1, Parent(odo), odo)
  BY <1>0, ParentIs
<1>2. ASSUME NEW n \in {Guard(g), Cond(g)} PROVE Suffixed(n, Parent(odo)) \notin DOMAIN After1(v)
  <2>1. n \in MergedNames(e)
    BY <1>0, OnlyExit
  <2>2. ExitMerge(e, n, Parent(odo), current) \in MergeEquations(e, Parent(odo), current)
    BY <2>1 DEF MergeEquations
  <2>3. ExitMerge(e, n, Parent(odo), current).lhs = Suffixed(n, Parent(odo))
    BY <1>0, <1>1, <2>1, MergeName
  <2>. QED
    BY <1>1, <2>2, <2>3, MergeFresh
<1>. QED
  BY <1>2

LEMMA StepMergedExits ==
    ASSUME ProgramOK, NamesOfLoop, JumpsOK, TypeInv, Walking, WalkedSoFar(val, at, odo), NEW v, ~Ends(v)
    PROVE  MergedExits(ValNext(v))
<1>. DEFINE f == After1(v)
            h == ValNext(v)
<1>1. SUFFICES ASSUME NEW e \in Loops, NEW q \in Odometers(Depth(e) - 1, current), NEW g \in Exits(e),
                      AllHold(h, LitsAt(ExitCondition(e, g), q))
               PROVE  \E p \in Odometers(Depth(e), current) :
                        SameUpto(Depth(e) - 1, p, q) /\ AllHold(h, LitsAt(ExitCondition(e, g), p))
  BY DEF MergedExits
<1>2. /\ NamesPlaced(val, at, odo) /\ MergedExits(val) /\ current \in Nat /\ at \in Loc
      /\ odo \in Odometers(Level(at), current) /\ Target(at, v) \in Next(at)
  BY StepIs DEF WalkedSoFar, Walking
<1>3. MergedExits(f)
  BY <1>2, MergedHere
<1>4. /\ Extends(f, h)
      /\ \A n \in DOMAIN h : \/ n \in DOMAIN f
                            \/ \E d \in Around(at) \ Around(Target(at, v)) :
                                    n.loc \in Span(d) /\ n.odo = Parent(odo)
  BY <1>2, StepExtends
<1>5. g \in Loc /\ \E t \in Next(g) : ExitCondition(e, g) \in Ways(g, t)
  BY ExitIs
<1>6. SUFFICES \E p \in Odometers(Depth(e), current) :
                    SameUpto(Depth(e) - 1, p, q) /\ AllHold(f, LitsAt(ExitCondition(e, g), p))
  BY <1>4, <1>5, HoldsStill
<1>7. CASE AllHold(f, LitsAt(ExitCondition(e, g), q))
  BY <1>3, <1>7 DEF MergedExits
<1>8. CASE ~AllHold(f, LitsAt(ExitCondition(e, g), q))
  <2>. DEFINE G == Suffixed(Guard(g), q)
              C == Suffixed(Cond(g), q)
  <2>1. /\ G.loc = GuardSource(g) /\ G.odo = q /\ C.loc = g /\ C.odo = q
        /\ g \in Span(e) /\ GuardSource(g) \in Span(e)
    BY <1>5, WayNames, ExitBody DEF Body
  <2>2. \A x : AllHold(x, LitsAt(ExitCondition(e, g), q))
                <=> IsTrue(x, G) /\ (IF g = e THEN IsNotTrue(x, C) ELSE IsTrue(x, C))
    BY <1>5, ExitHolds
  <2>. HIDE DEF G, C, f, h
  <2>3. PICK n \in {G, C} : n \in DOMAIN h /\ n \notin DOMAIN f
    <3>1. \A n \in DOMAIN f : /\ IsTrue(h, n) => IsTrue(f, n)
                              /\ IsNotTrue(h, n) => IsNotTrue(f, n)
      BY <1>4 DEF Extends, IsTrue, IsNotTrue
    <3>. QED
      BY <1>1, <1>8, <2>2, <3>1 DEF IsTrue, IsNotTrue
  <2>4. PICK d \in Around(at) \ Around(Target(at, v)) : n.loc \in Span(d) /\ n.odo = Parent(odo)
    BY <1>4, <2>3
  <2>5. d \in Loops /\ Level(at) = Depth(d)
    BY <1>2, LeavesOne, AroundIs
  <2>6. Parent(odo) \in Odometers(Depth(d) - 1, current) /\ odo \in Odometers(Depth(d), current)
    BY <1>2, <2>5, ParentIs
  <2>7. Depth(d) = Depth(e)
    <3>1. Depth(d) \in Nat /\ Depth(e) \in Nat /\ Depth(d) - 1 \in Nat /\ Depth(e) - 1 \in Nat
      BY <2>5, DepthIs
    <3>2. Len(q) = Depth(e) - 1 /\ Len(Parent(odo)) = Depth(d) - 1
      BY <1>2, <2>6, <3>1, OdometersAre
    <3>. QED
      BY <2>1, <2>3, <2>4, <3>1, <3>2
  <2>8. d = e
    BY <2>1, <2>3, <2>4, <2>5, <2>7, SameDepth
  <2>9. Parent(odo) = q
    BY <2>1, <2>3, <2>4
  <2>10. h = WithMerges(f, e, odo)
    BY <1>2, <2>4, <2>8, StepMerges DEF ValNext, f, h
  <2>11. Suffixed(Guard(g), q) \notin DOMAIN f /\ Suffixed(Cond(g), q) \notin DOMAIN f
    BY <1>2, <2>4, <2>6, <2>8, <2>9, ExitFresh DEF f
  <2>12. AllHold(WithMerges(f, e, odo), LitsAt(ExitCondition(e, g), q))
    BY <1>1, <2>10
  <2>. QED
    BY <1>2, <2>9, <2>11, <2>12, ExitLeft
<1>. QED
  BY <1>7, <1>8

(* A way whose conditions hold goes on with the walk.                      *)
LEMMA StepFollowed ==
    ASSUME ProgramOK, NamesOfLoop, JumpsOK, TypeInv, Walking, WalkedSoFar(val, at, odo), NEW v, ~Ends(v)
    PROVE  Followed(ValNext(v), Target(at, v), Moved(at, Target(at, v)))
<1>. DEFINE f == After1(v)
            h == ValNext(v)
            t == Target(at, v)
            u == Moved(at, t)
<1>0. /\ at \in Loc /\ at \in Nat /\ current \in Nat /\ odo \in Odometers(Level(at), current)
      /\ t \in Next(at) /\ t \in Loc /\ u = Onwards(at, odo, t) /\ NamesPlaced(val, at, odo)
  BY StepIs, LocIs DEF Walking, WalkedSoFar
<1>1. Extends(f, h) /\ Keeps(f, h)
  BY <1>0, StepExtends
<1>2. SUFFICES ASSUME NEW g \in Loc, NEW p \in Odometers(Level(g), current), NEW y \in Next(g), HasGuard(y),
                      NEW L \in Ways(g, y), AllHold(h, LitsAt(L, p))
               PROVE  Arrived(h, y, Onwards(g, p, y), t, u) \/ InBlock(g, p, t, u)
  BY DEF Followed
<1>3. AllHold(f, LitsAt(L, p))
  BY <1>0, <1>1, <1>2, HoldsAlready
<1>4. \/ Reached(f, y, Onwards(g, p, y))
      \/ p = odo /\ (Taken(g, y, v) \/ AheadInBlock(g, at))
  BY <1>2, <1>3, FollowedHere
<1>5. CASE Reached(f, y, Onwards(g, p, y))
  BY <1>1, <1>5 DEF Reached, Extends, Arrived
<1>6. CASE p = odo /\ Taken(g, y, v)
  BY <1>0, <1>6 DEF Taken, Arrived
<1>7. CASE p = odo /\ AheadInBlock(g, at)
  <2>1. /\ ~IsGoto(goto[g]) /\ ~Blocks(g) /\ at \in GuardSource(g)..(g - 1)
        /\ g \in Nat /\ GuardSource(g) \in Nat /\ \A m \in (GuardSource(g) + 1)..g : ~HasGuard(m)
    BY <1>7, LocIs, GuardSourceBlock DEF AheadInBlock
  <2>2. at + 1 \in (GuardSource(g) + 1)..g /\ ~HasGuard(at + 1)
    BY <1>0, <2>1
  <2>3. ~IsGoto(goto[at])
    BY <1>0, <2>2 DEF HasGuard
  <2>4. t = at + 1
    BY <2>3 DEF Target
  <2>5. Around(t) = Around(at)
    BY <1>0, <2>2, <2>4, FallsThrough
  <2>6. ~IsBack(at)
    BY <2>3 DEF IsBack
  <2>7. u = odo
    BY <1>0, <2>5, <2>6, MovedWithin
  <2>8. t \in GuardSource(g)..g
    BY <1>0, <2>1, <2>4
  <2>. QED
    BY <1>7, <2>1, <2>7, <2>8 DEF InBlock
<1>. QED
  BY <1>4, <1>5, <1>6, <1>7

LEMMA TakenHolds ==
    ASSUME ProgramOK, JumpsOK, TypeInv, Walking, NamesPlaced(val, at, odo), NEW v, ~Ends(v)
    PROVE  \E L \in Ways(at, Target(at, v)) : AllHold(After1(v), LitsAt(L, odo))
<1>. DEFINE f == After1(v)
            t == Target(at, v)
            G == Suffixed(Guard(at), odo)
            C == Suffixed(Cond(at), odo)
<1>0. at \in Loc /\ t \in Next(at) /\ Taken(at, t, v)
  BY StepIs DEF Walking
<1>1. IsTrue(f, G)
  BY GuardDefined
<1>2. ASSUME goto[at].op \in {"goto", "assume", "call"}
      PROVE  (Holds(goto[at], v) => IsTrue(f, C)) /\ (~Holds(goto[at], v) => IsNotTrue(f, C))
  <2>1. C \in DOMAIN f /\ f[C] = Truth(Holds(goto[at], v))
    BY <1>2, CondDefined
  <2>. QED
    BY <2>1 DEF IsTrue, IsNotTrue, Truth, True, False
<1>3. /\ AllHold(f, LitsAt({Is(Guard(at))}, odo)) <=> IsTrue(f, G)
      /\ AllHold(f, LitsAt({Is(Guard(at)), Is(Cond(at))}, odo)) <=> IsTrue(f, G) /\ IsTrue(f, C)
      /\ AllHold(f, LitsAt({Is(Guard(at)), IsNot(Cond(at))}, odo)) <=> IsTrue(f, G) /\ IsNotTrue(f, C)
  BY <1>0, LiteralsHold
<1>. HIDE DEF f, G, C
<1>4. CASE IsGoto(goto[at]) /\ Holds(goto[at], v)
  <2>1. {Is(Guard(at)), Is(Cond(at))} \in Ways(at, t)
    BY <1>4 DEF Ways, Target
  <2>. QED
    BY <1>1, <1>2, <1>3, <1>4, <2>1 DEF IsGoto, f
<1>5. CASE IsGoto(goto[at]) /\ ~Holds(goto[at], v)
  <2>1. {Is(Guard(at)), IsNot(Cond(at))} \in Ways(at, t)
    BY <1>5 DEF Ways, Target, Holds
  <2>. QED
    BY <1>1, <1>2, <1>3, <1>5, <2>1 DEF IsGoto, f
<1>6. CASE ~IsGoto(goto[at]) /\ Blocks(at)
  <2>1. {Is(Guard(at)), Is(Cond(at))} \in Ways(at, t)
    BY <1>6 DEF Ways, Target
  <2>2. Holds(goto[at], v)
    BY <1>0, <1>6 DEF Taken, Blocks, JumpsOK, Holds
  <2>. QED
    BY <1>1, <1>2, <1>3, <1>6, <2>1, <2>2 DEF Blocks, f
<1>7. CASE ~IsGoto(goto[at]) /\ ~Blocks(at)
  <2>1. {Is(Guard(at))} \in Ways(at, t)
    BY <1>7 DEF Ways, Target
  <2>. QED
    BY <1>1, <1>3, <2>1 DEF f
<1>. QED
  BY <1>4, <1>5, <1>6, <1>7

LEMMA StepCame ==
    ASSUME ProgramOK, NamesOfLoop, JumpsOK, TypeInv, Walking, WalkedSoFar(val, at, odo), NEW v, ~Ends(v)
    PROVE  AllCame(ValNext(v), Target(at, v), Moved(at, Target(at, v)))
<1>. DEFINE f == After1(v)
            h == ValNext(v)
            t == Target(at, v)
            u == Moved(at, t)
<1>0. /\ at \in Loc /\ current \in Nat /\ odo \in Odometers(Level(at), current)
      /\ t \in Next(at) /\ t \in Loc /\ u = Onwards(at, odo, t)
      /\ NamesPlaced(val, at, odo) /\ GuardsAreTrue(val)
  BY StepIs DEF Walking, WalkedSoFar
<1>1. Extends(f, h) /\ Keeps(f, h)
  BY <1>0, StepExtends
<1>2. ASSUME NEW y \in Loc, HasGuard(y), NEW w \in Odometers(Level(y), current), Reached(h, y, w)
      PROVE  Came(h, y, w)
  <2>1. /\ Suffixed(Guard(y), w).loc = y /\ Suffixed(Guard(y), w).odo = w /\ Len(w) = Level(y)
    BY <1>0, <1>2, WayNames, GuardSourceIs, AroundIsFinite, OdometersAre
  <2>2. Reached(f, y, w)
    BY <1>1, <1>2, <2>1 DEF Reached, Keeps, OfCopy
  <2>. QED
    BY <1>1, <1>2, <2>2, CameHere, CameStill
<1>3. Came(h, t, u)
  <2>1. PICK L \in Ways(at, t) : AllHold(f, LitsAt(L, odo))
    BY <1>0, TakenHolds
  <2>2. AllHold(h, LitsAt(L, odo))
    BY <1>0, <1>1, <2>1, HoldsStill
  <2>3. ASSUME NEW e \in Around(at) \ Around(t)
        PROVE  AllHold(h, LitsAt(L, Prefix(odo, Depth(e) - 1)))
    <3>1. /\ e \in Loops /\ e \in Around(at) /\ Level(at) = Depth(e) /\ at \in Exits(e)
          /\ L = ExitCondition(e, at) /\ h = WithMerges(f, e, odo)
      BY <1>0, LeavesOne, AroundIs, StepMerges DEF ValNext
    <3>2. /\ Parent(odo) \in Odometers(Depth(e) - 1, current) /\ odo \in Odometers(Depth(e), current)
          /\ Parent(odo) = Prefix(odo, Depth(e) - 1)
      BY <1>0, <3>1, ParentIs
    <3>3. Suffixed(Guard(at), Parent(odo)) \notin DOMAIN f /\ Suffixed(Cond(at), Parent(odo)) \notin DOMAIN f
      BY <1>0, <3>1, <3>2, ExitFresh
    <3>4. GuardsAreTrue(f)
      BY <1>0, GuardsTrueHere
    <3>. HIDE DEF f, h
    <3>5. AllHold(WithMerges(f, e, odo), LitsAt(ExitCondition(e, at), Parent(odo)))
      BY <1>0, <2>1, <3>1, <3>2, <3>3, <3>4, ExitTaken
    <3>. QED
      BY <3>1, <3>2, <3>5
  <2>. HIDE DEF f, h, t, u
  <2>4. CameBy(h, at, odo, t, u, L)
    BY <1>0, <2>2, <2>3 DEF CameBy
  <2>. QED
    BY <1>0, <2>4 DEF Came
<1>. QED
  BY <1>2, <1>3 DEF AllCame, Arrived

(* What is known of the walk is known after a step that goes on.           *)
LEMMA StepGoesOn ==
    ASSUME ProgramOK, NamesOfLoop, JumpsOK, TypeInv, Walking, WalkedSoFar(val, at, odo), NEW v, ~Ends(v)
    PROVE  WalkedSoFar(ValNext(v), Target(at, v), Moved(at, Target(at, v)))
<1>1. NamesPlaced(val, at, odo) /\ Arrived(val, 1, <<>>, at, odo) /\ 1 \in Loc /\ HasGuard(1)
  BY LocIs DEF WalkedSoFar, HasGuard
<1>2. Reached(After1(v), 1, <<>>)
  BY <1>1, ReachedHere
<1>3. Reached(ValNext(v), 1, <<>>)
  BY <1>1, <1>2, StepExtends DEF Reached, Extends
<1>4. Arrived(ValNext(v), 1, <<>>, Target(at, v), Moved(at, Target(at, v)))
  BY <1>3 DEF Arrived
<1>. QED
  BY <1>1, <1>4, StepPlaced, StepFollowed, StepMergedExits, StepGuards, StepCame DEF WalkedSoFar

(* The walk begins with the values of the variables.                       *)
LEMMA StartWalked ==
    ASSUME ProgramOK, current \in Nat, NEW f, \A n \in DOMAIN f : IsInput(n)
    PROVE  WalkedSoFar(f, 1, <<>>)
<1>1. \A n \in DOMAIN f : n.obj \in Var /\ n.loc = 0 /\ n.odo = <<>>
  <2>1. \A w : Name(w, "in", 0).obj = w /\ Name(w, "in", 0).loc = 0 /\ Name(w, "in", 0).odo = <<>>
    BY DEF Name
  <2>. QED
    BY <2>1 DEF IsInput
<1>2. "$guard" \notin Var /\ "$cond" \notin Var
  BY GotoProgramAssumption
<1>3. \A g \in Loc : \A p : Suffixed(Guard(g), p) \notin DOMAIN f
  BY <1>1, <1>2, WayNames
<1>4. ASSUME NEW g \in Loc, NEW t, NEW L \in Ways(g, t), NEW p
      PROVE  ~AllHold(f, LitsAt(L, p))
  <2>1. ~IsTrue(f, Suffixed(Guard(g), p))
    BY <1>3 DEF IsTrue
  <2>2. /\ ~AllHold(f, LitsAt({Is(Guard(g))}, p))
        /\ ~AllHold(f, LitsAt({Is(Guard(g)), Is(Cond(g))}, p))
        /\ ~AllHold(f, LitsAt({Is(Guard(g)), IsNot(Cond(g))}, p))
    BY <2>1, LiteralsHold
  <2>. QED
    BY <2>2, WayCases
<1>5. NamesPlaced(f, 1, <<>>) /\ GuardsAreTrue(f)
  BY <1>1, <1>2 DEF NamesPlaced, GuardsAreTrue
<1>6. Followed(f, 1, <<>>)
  BY <1>4 DEF Followed
<1>7. MergedExits(f)
  BY <1>4, ExitIs DEF MergedExits
<1>8. AllCame(f, 1, <<>>)
  BY <1>3 DEF AllCame, Arrived, Reached, Came
<1>9. Arrived(f, 1, <<>>, 1, <<>>)
  BY DEF Arrived
<1>. QED
  BY <1>5, <1>6, <1>7, <1>8, <1>9 DEF WalkedSoFar

-----------------------------------------------------------------------------
(* The disjunction of a guard has one way for every forward jump or fall   *)
(* into its location.                                                      *)

LEMMA SourcesAre ==
    ASSUME ProgramOK, JumpsOK, NEW l \in Loc, NEW s
    PROVE  s \in GuardSources(l)
             <=> \/ l = 1 /\ s = {}
                 \/ \E g \in Loc : g < l /\ l \in Next(g) /\ s \in Ways(g, l)
<1>1. PICK n \in Nat : Loc = 1..n /\ 1 \in Loc
  BY LocIs
<1>2. l \in Nat /\ l >= 1 /\ \A g \in Loc : g \in Nat
  BY <1>1
<1>3. ASSUME NEW g \in Loc, IsGoto(goto[g]), goto[g].to = l
      PROVE  l \in Next(g) /\ (~IsBack(g) <=> g < l) /\ l # 1
  <2>1. l \in Next(g)
    BY <1>3 DEF Next
  <2>2. IsBack(g) <=> l <= g
    BY <1>3 DEF IsBack
  <2>3. l # 1
    BY <1>3 DEF ProgramOK
  <2>. QED
    BY <1>2, <2>1, <2>2, <2>3
<1>4. ASSUME s \in GuardSources(l)
      PROVE  \/ l = 1 /\ s = {}
             \/ \E g \in Loc : g < l /\ l \in Next(g) /\ s \in Ways(g, l)
  <2>1. CASE l = 1 /\ s = {}
    BY <2>1
  <2>2. ASSUME NEW g \in Loc, IsGoto(goto[g]), goto[g].to = l, ~IsBack(g), s = {Is(Guard(g)), Is(Cond(g))}
        PROVE  g < l /\ l \in Next(g) /\ s \in Ways(g, l)
    BY <1>3, <2>2 DEF Ways
  <2>3. ASSUME l # 1,
               s \in CASE IsGoto(goto[l - 1]) /\ ~Always(goto[l - 1]) -> {{Is(Guard(l - 1)), IsNot(Cond(l - 1))}}
                       [] IsGoto(goto[l - 1]) /\ Always(goto[l - 1]) -> {}
                       [] Blocks(l - 1) -> {{Is(Guard(l - 1)), Is(Cond(l - 1))}}
                       [] OTHER -> {{Is(Guard(l - 1))}}
        PROVE  \E g \in Loc : g < l /\ l \in Next(g) /\ s \in Ways(g, l)
    <3>. DEFINE g == l - 1
    <3>1. g \in Loc /\ g < l /\ l = g + 1
      BY <1>1, <1>2, <2>3
    <3>2. goto[g].op # "end"
      BY <1>2, <3>1 DEF JumpsOK
    <3>3. CASE IsGoto(goto[g])
      <4>1. ~Always(goto[g]) /\ s = {Is(Guard(g)), IsNot(Cond(g))}
        <5>1. CASE Always(goto[g])
          BY <2>3, <3>3, <5>1 DEF IsGoto, Blocks
        <5>2. CASE ~Always(goto[g])
          BY <2>3, <3>3, <5>2 DEF IsGoto, Blocks
        <5>. QED
          BY <5>1, <5>2
      <4>. HIDE DEF g
      <4>2. l \in Next(g) /\ s \in Ways(g, l)
        BY <3>1, <3>2, <3>3, <4>1 DEF Next, Ways
      <4>. QED
        BY <3>1, <4>2
    <3>4. CASE ~IsGoto(goto[g])
      <4>1. s = IF Blocks(g) THEN {Is(Guard(g)), Is(Cond(g))} ELSE {Is(Guard(g))}
        <5>1. CASE Blocks(g)
          BY <2>3, <3>4, <5>1
        <5>2. CASE ~Blocks(g)
          BY <2>3, <3>4, <5>2
        <5>. QED
          BY <5>1, <5>2
      <4>. HIDE DEF g
      <4>2. l \in Next(g) /\ s \in Ways(g, l)
        BY <3>1, <3>2, <3>4, <4>1 DEF Next, Ways
      <4>. QED
        BY <3>1, <4>2
    <3>. QED
      BY <3>3, <3>4
  <2>. QED
    BY <1>4, <2>1, <2>2, <2>3 DEF GuardSources
<1>5. ASSUME NEW g \in Loc, g < l, l \in Next(g), s \in Ways(g, l)
      PROVE  s \in GuardSources(l)
  <2>1. l # 1 /\ g \in Nat
    BY <1>1, <1>2, <1>5
  <2>2. CASE IsGoto(goto[g]) /\ goto[g].to = l /\ s = {Is(Guard(g)), Is(Cond(g))}
    <3>1. ~IsBack(g)
      BY <1>3, <1>5, <2>2
    <3>. QED
      BY <2>2, <3>1 DEF GuardSources
  <2>3. CASE l = g + 1 /\ IsGoto(goto[g]) /\ ~Always(goto[g]) /\ s = {Is(Guard(g)), IsNot(Cond(g))}
    <3>1. l - 1 = g
      BY <1>2, <2>1, <2>3
    <3>2. IsGoto(goto[l - 1]) /\ ~Always(goto[l - 1]) /\ s \in {{Is(Guard(l - 1)), IsNot(Cond(l - 1))}}
      BY <2>3, <3>1
    <3>. QED
      BY <2>1, <3>2 DEF GuardSources, IsGoto, Blocks
  <2>4. CASE l = g + 1 /\ ~IsGoto(goto[g]) /\ s = (IF Blocks(g) THEN {Is(Guard(g)), Is(Cond(g))} ELSE {Is(Guard(g))})
    <3>1. l - 1 = g
      BY <1>2, <2>1, <2>4
    <3>2. CASE Blocks(g)
      BY <2>1, <2>4, <3>1, <3>2 DEF GuardSources
    <3>3. CASE ~Blocks(g)
      BY <2>1, <2>4, <3>1, <3>3 DEF GuardSources
    <3>. QED
      BY <3>2, <3>3
  <2>. QED
    BY <1>5, <2>2, <2>3, <2>4 DEF Ways
<1>6. l = 1 /\ s = {} => s \in GuardSources(l)
  BY DEF GuardSources
<1>. QED
  BY <1>4, <1>5, <1>6

LEMMA SourcesFinite == ASSUME ProgramOK, NEW l \in Loc PROVE IsFiniteSet(GuardSources(l))
<1>1. PICK n \in Nat : Loc = 1..n
  BY LocIs
<1>2. IsFiniteSet(Loc)
  BY <1>1, FS_Interval
<1>. DEFINE J == {g \in Loc : IsGoto(goto[g]) /\ goto[g].to = l /\ ~IsBack(g)}
            A == IF l = 1 THEN {{}} ELSE {}
            B == {{Is(Guard(g)), Is(Cond(g))} : g \in J}
            C == IF l = 1 THEN {}
                 ELSE CASE IsGoto(goto[l - 1]) /\ ~Always(goto[l - 1]) -> {{Is(Guard(l - 1)), IsNot(Cond(l - 1))}}
                        [] IsGoto(goto[l - 1]) /\ Always(goto[l - 1]) -> {}
                        [] Blocks(l - 1) -> {{Is(Guard(l - 1)), Is(Cond(l - 1))}}
                        [] OTHER -> {{Is(Guard(l - 1))}}
<1>3. IsFiniteSet(A)
  BY FS_EmptySet, FS_Singleton
<1>4. IsFiniteSet(B)
  <2>1. IsFiniteSet(J)
    BY <1>2, FS_Subset
  <2>. HIDE DEF J
  <2>. DEFINE f == [g \in J |-> {Is(Guard(g)), Is(Cond(g))}]
  <2>2. f \in Surjection(J, B)
    BY DEF Surjection
  <2>. HIDE DEF J, B, f
  <2>. QED
    BY <2>1, <2>2, FS_Surjection
<1>5. IsFiniteSet(C)
  <2>1. C = {} \/ \E x : C = {x}
    <3>1. CASE l = 1
      BY <3>1
    <3>2. CASE l # 1 /\ IsGoto(goto[l - 1]) /\ Always(goto[l - 1])
      BY <3>2 DEF IsGoto, Blocks
    <3>5. CASE l # 1 /\ IsGoto(goto[l - 1]) /\ ~Always(goto[l - 1])
      BY <3>5 DEF IsGoto, Blocks
    <3>3. CASE l # 1 /\ ~IsGoto(goto[l - 1]) /\ Blocks(l - 1)
      BY <3>3
    <3>4. CASE l # 1 /\ ~IsGoto(goto[l - 1]) /\ ~Blocks(l - 1)
      BY <3>4
    <3>. QED
      BY <3>1, <3>2, <3>3, <3>4, <3>5
  <2>. HIDE DEF C
  <2>. QED
    BY <2>1, FS_EmptySet, FS_Singleton
<1>6. GuardSources(l) = (A \cup B) \cup C
  BY DEF GuardSources
<1>. HIDE DEF A, B, C
<1>7. IsFiniteSet(A \cup B)
  BY <1>3, <1>4, FS_Union
<1>8. IsFiniteSet((A \cup B) \cup C)
  BY <1>5, <1>7, FS_Union
<1>. QED
  BY <1>6, <1>8

-----------------------------------------------------------------------------
(* How much of the odometer at l the names at g carry: the index of a loop *)
(* that is left on the way is not there.                                   *)

WayLevel(g, l) == IF Around(g) \subseteq Around(l) THEN Level(g) ELSE Level(g) - 1

LEMMA WayLevelIs ==
    ASSUME ProgramOK, JumpsOK, NEW g \in Loc, NEW l \in Next(g)
    PROVE  /\ WayLevel(g, l) \in 0..Level(l)
           /\ \A d \in Around(g) : Depth(d) <= WayLevel(g, l) <=> d \in Around(l)
<1>1. /\ IsFiniteSet(Around(g)) /\ IsFiniteSet(Around(l)) /\ Level(g) \in Nat /\ Level(l) \in Nat
      /\ \A d \in Around(g) : Depth(d) \in 1..Level(g)
  BY AroundIsFinite, AroundIs
<1>2. CASE Around(g) \subseteq Around(l)
  <2>1. Level(g) <= Level(l)
    BY <1>1, <1>2, FS_Subset DEF Level
  <2>. QED
    BY <1>1, <1>2, <2>1 DEF WayLevel
<1>3. ASSUME NEW e \in Around(g) \ Around(l)
      PROVE  /\ WayLevel(g, l) \in 0..Level(l)
             /\ \A d \in Around(g) : Depth(d) <= WayLevel(g, l) <=> d \in Around(l)
  <2>1. /\ Around(g) \ Around(l) = {e} /\ Around(g) = Around(e) /\ Level(g) = Depth(e)
        /\ e \in Loops /\ Depth(e) \in Nat /\ Depth(e) >= 1
    BY LeavesOne, AroundIs, LoopIs
  <2>2. WayLevel(g, l) = Depth(e) - 1
    BY <2>1 DEF WayLevel
  <2>3. Cardinality(Around(g) \ {e}) = Level(g) - 1
    BY <1>1, FS_RemoveElement DEF Level
  <2>4. Around(g) \ {e} \subseteq Around(l)
    BY <2>1
  <2>5. Level(g) - 1 <= Level(l)
    BY <1>1, <2>3, <2>4, FS_Subset DEF Level
  <2>6. \A d \in Around(g) \ {e} : Depth(d) \in 1..(Depth(e) - 1)
    BY <2>1, InnerDepth
  <2>. QED
    BY <1>1, <2>1, <2>2, <2>4, <2>5, <2>6
<1>. QED
  BY <1>2, <1>3

(* Renamed where it is used, the source of a way is the one of the copy    *)
(* the way comes from, or what is merged behind the loop it leaves.        *)
LEMMA SourceRenamed ==
    ASSUME ProgramOK, JumpsOK, current \in Nat, NEW g \in Loc, NEW l \in Next(g), NEW s \in Ways(g, l),
           NEW o \in Odometers(Level(l), current)
    PROVE  RenamedLiterals(s, l, o) = LitsAt(s, Prefix(o, WayLevel(g, l)))
<1>. DEFINE p == Prefix(o, WayLevel(g, l))
<1>0. l \in Loc /\ Level(l) \in Nat /\ Len(o) = Level(l) /\ o \in [1..Level(l) -> Int] /\ Level(g) \in Nat
  BY WayIs, AroundIsFinite, OdometersAre
<1>1. ASSUME NEW m \in Loc, Around(m) = Around(g), Level(m) = Level(g)
      PROVE  Prefix(o, DefLevel(m, l)) = p
  <2>1. m # 0
    BY LocIs
  <2>2. CASE Around(l) = {}
    <3>1. Level(l) = 0
      BY <2>2, FS_EmptySet DEF Level
    <3>2. WayLevel(g, l) \in Nat /\ DefLevel(m, l) \in Nat
      BY <1>0, <1>1, <2>1, <2>2, <3>1, WayLevelIs DEF DefLevel
    <3>3. ASSUME NEW n \in Nat PROVE Prefix(o, n) = o
      <4>1. n >= Level(l)
        BY <3>1
      <4>. QED
        BY <1>0, <4>1, PrefixIs
    <3>4. Prefix(o, DefLevel(m, l)) = o /\ Prefix(o, WayLevel(g, l)) = o
      BY <3>2, <3>3
    <3>. QED
      BY <3>4
  <2>3. CASE Around(l) # {} /\ Around(g) = {}
    <3>1. Level(g) = 0
      BY <2>3, FS_EmptySet DEF Level
    <3>. QED
      BY <1>1, <2>3, <3>1 DEF DefLevel, WayLevel
  <2>4. CASE Around(l) # {} /\ Around(g) # {} /\ Around(g) \subseteq Around(l)
    <3>1. LoopOf(m) \in Around(g)
      <4>1. PICK x \in Around(g) : \A y \in Around(g) : x <= y
        <5>1. Around(g) # {} /\ Around(g) \subseteq Nat
          BY <2>4, AroundIsFinite
        <5>. QED
          BY <5>1, LeastNumber
      <4>2. LoopOf(m) = CHOOSE z \in Around(g) : \A y \in Around(g) : z <= y
        BY <1>1 DEF LoopOf, Min
      <4>. QED
        BY <4>1, <4>2
    <3>. QED
      BY <1>1, <2>1, <2>4, <3>1 DEF DefLevel, WayLevel
  <2>5. ASSUME Around(l) # {}, NEW e \in Around(g) \ Around(l) PROVE Prefix(o, DefLevel(m, l)) = p
    <3>1. LoopOf(g) = e
      <4>1. g \in Exits(e) /\ e \in Loops
        BY LeavesOne, AroundIs
      <4>. QED
        BY <4>1, ExitBody, BodyIs
    <3>2. LoopOf(m) = e
      BY <1>1, <3>1 DEF LoopOf
    <3>. QED
      BY <1>1, <2>1, <2>5, <3>2 DEF DefLevel, WayLevel
  <2>. QED
    BY <2>2, <2>3, <2>4, <2>5
<1>2. /\ GuardSource(g) \in Loc /\ Around(GuardSource(g)) = Around(g) /\ Level(GuardSource(g)) = Level(g)
      /\ GuardSource(g) # 0 /\ g # 0
  BY GuardOf, GuardSourceBlock, LocIs
<1>3. /\ Guard(g).loc = GuardSource(g) /\ Guard(g).obj = "$guard" /\ Cond(g).loc = g /\ Cond(g).obj = "$cond"
  BY DEF Guard, Cond, Name
<1>. HIDE DEF p
<1>4. Renamed(Guard(g), l, o) = Suffixed(Guard(g), p)
  BY <1>1, <1>2, <1>3 DEF Renamed, Suffixed
<1>5. Renamed(Cond(g), l, o) = Suffixed(Cond(g), p)
  BY <1>1, <1>2, <1>3 DEF Renamed, Suffixed
<1>6. s \in SUBSET {Is(Guard(g)), Is(Cond(g)), IsNot(Cond(g))}
  BY WayCases
<1>. QED
  BY <1>4, <1>5, <1>6, LitsAre DEF p

LEMMA NotRenamed ==
    ASSUME NEW g, NEW l, NEW s \in Ways(g, l) PROVE LitsAt(s, <<>>) = s
<1>1. \A n : n \in {Guard(g), Cond(g)} => Suffixed(n, <<>>) = n
  BY DEF Suffixed, Guard, Cond, Name
<1>2. \A lit \in s : lit \in {<<Guard(g), TRUE>>, <<Cond(g), TRUE>>, <<Cond(g), FALSE>>}
  BY WayCases DEF Is, IsNot
<1>3. ASSUME NEW lit \in s PROVE <<Suffixed(lit[1], <<>>), lit[2]>> = lit
  <2>1. CASE lit = <<Guard(g), TRUE>>
    BY <1>1, <2>1
  <2>2. CASE lit = <<Cond(g), TRUE>>
    BY <1>1, <2>2
  <2>3. CASE lit = <<Cond(g), FALSE>>
    BY <1>1, <2>3
  <2>. QED
    BY <1>2, <2>1, <2>2, <2>3
<1>. QED
  BY <1>3 DEF LitsAt

(* The indices on a way forward.                                           *)
LEMMA ForwardIndex ==
    ASSUME ProgramOK, NEW g \in Loc, NEW l \in Next(g), g < l, NEW p, NEW e \in Around(l)
    PROVE  Onwards(g, p, l)[Depth(e)] = IF e \in Around(g) THEN p[Depth(e)] ELSE current
<1>1. l \in Loc /\ g \in Nat /\ l \in Nat
  BY WayIs
<1>2. ~(g = e /\ l = HeadOf(e))
  <2>1. l <= e
    BY AroundIs
  <2>. QED
    BY <1>1, <2>1
<1>3. Onwards(g, p, l)[Depth(e)]
        = IF e \notin Around(g) THEN current
          ELSE IF g = e /\ l = HeadOf(e) THEN p[Depth(e)] - 1 ELSE p[Depth(e)]
  BY <1>1, OnwardsAt
<1>. QED
  BY <1>2, <1>3

LEMMA DepthLoop ==
    ASSUME ProgramOK, NEW l \in Loc, NEW i \in 1..Level(l)
    PROVE  \E e \in Around(l) : Depth(e) = i
BY LoopAtIs

(* At the head of a loop a guard is defined anew for the first copy only.  *)
EntersFirst(l, o) == \A e \in Loops : l = HeadOf(e) => o[Depth(e)] = current

LEMMA WayBackwards ==
    ASSUME ProgramOK, JumpsOK, current \in Nat, NEW f, MergedExits(f), FollowedToEnd(f),
           NEW l \in Loc, HasGuard(l), NEW o \in Odometers(Level(l), current), EntersFirst(l, o),
           NEW g \in Loc, g < l, l \in Next(g), NEW s \in Ways(g, l),
           AllHold(f, LitsAt(s, Prefix(o, WayLevel(g, l))))
    PROVE  Reached(f, l, o)
<1>0. /\ Level(l) \in Nat /\ Level(g) \in Nat /\ WayLevel(g, l) \in 0..Level(l) /\ g \in Nat /\ l \in Nat
      /\ \A d \in Around(g) : Depth(d) <= WayLevel(g, l) <=> d \in Around(l)
  BY AroundIsFinite, WayLevelIs, WayIs
<1>1. PICK p \in Odometers(Level(g), current) :
        AllHold(f, LitsAt(s, p)) /\ \A i \in 1..WayLevel(g, l) : p[i] = o[i]
  <2>. DEFINE q == Prefix(o, WayLevel(g, l))
  <2>1. q \in Odometers(WayLevel(g, l), current) /\ \A i \in 1..WayLevel(g, l) : q[i] = o[i]
    BY <1>0, PrefixTo
  <2>2. CASE Around(g) \subseteq Around(l)
    BY <2>1, <2>2 DEF WayLevel
  <2>3. ASSUME NEW e \in Around(g) \ Around(l)
        PROVE  \E p \in Odometers(Level(g), current) :
                    AllHold(f, LitsAt(s, p)) /\ \A i \in 1..WayLevel(g, l) : p[i] = o[i]
    <3>1. /\ e \in Loops /\ Level(g) = Depth(e) /\ g \in Exits(e) /\ s = ExitCondition(e, g)
          /\ WayLevel(g, l) = Depth(e) - 1
      BY <2>3, LeavesOne, AroundIs DEF WayLevel
    <3>2. q \in Odometers(Depth(e) - 1, current) /\ AllHold(f, LitsAt(ExitCondition(e, g), q))
      BY <2>1, <3>1
    <3>. HIDE DEF q
    <3>3. PICK p \in Odometers(Depth(e), current) :
                SameUpto(Depth(e) - 1, p, q) /\ AllHold(f, LitsAt(ExitCondition(e, g), p))
      BY <3>1, <3>2 DEF MergedExits
    <3>4. \A i \in 1..WayLevel(g, l) : p[i] = o[i]
      BY <2>1, <3>1, <3>3 DEF SameUpto
    <3>. QED
      BY <3>1, <3>3, <3>4
  <2>. QED
    BY <2>2, <2>3
<1>2. ~(g \in Loops /\ l = HeadOf(g))
  <2>1. g \in Loops => HeadOf(g) \in Nat /\ HeadOf(g) <= g
    BY LoopIs
  <2>. QED
    BY <1>0, <2>1
<1>3. Reached(f, l, Onwards(g, p, l))
  BY <1>1, <1>2 DEF FollowedToEnd
<1>4. Onwards(g, p, l) = o
  <2>1. ASSUME NEW i \in 1..Level(l) PROVE Onwards(g, p, l)[i] = o[i]
    <3>1. PICK e \in Around(l) : Depth(e) = i
      BY DepthLoop
    <3>2. CASE e \in Around(g)
      <4>1. i \in 1..WayLevel(g, l)
        BY <1>0, <3>1, <3>2
      <4>2. Onwards(g, p, l)[Depth(e)] = p[Depth(e)]
        BY <3>2, ForwardIndex
      <4>. QED
        BY <1>1, <3>1, <4>1, <4>2
    <3>3. CASE e \notin Around(g)
      <4>1. e \in Loops /\ l = HeadOf(e)
        BY <3>3, AroundIs DEF JumpsOK
      <4>2. o[Depth(e)] = current
        BY <4>1 DEF EntersFirst
      <4>3. Onwards(g, p, l)[Depth(e)] = current
        BY <3>3, ForwardIndex
      <4>. QED
        BY <3>1, <4>2, <4>3
    <3>. QED
      BY <3>2, <3>3
  <2>2. Onwards(g, p, l) = [i \in 1..Level(l) |-> Onwards(g, p, l)[i]]
    BY DEF Onwards
  <2>3. o = [i \in 1..Level(l) |-> o[i]]
    BY DEF Odometers
  <2>. QED
    BY <2>1, <2>2, <2>3
<1>. QED
  BY <1>3, <1>4

LEMMA WayForwards ==
    ASSUME ProgramOK, JumpsOK, current \in Nat, NEW f,
           NEW l \in Loc, NEW o \in Odometers(Level(l), current), EntersFirst(l, o),
           NEW g \in Loc, l \in Next(g), NEW p \in Odometers(Level(g), current), NEW s \in Ways(g, l),
           CameBy(f, g, p, l, o, s)
    PROVE  g < l /\ AllHold(f, LitsAt(s, Prefix(o, WayLevel(g, l))))
<1>0. /\ Level(l) \in Nat /\ Level(g) \in Nat /\ WayLevel(g, l) \in 0..Level(l) /\ g \in Nat /\ l \in Nat
      /\ \A d \in Around(g) : Depth(d) <= WayLevel(g, l) <=> d \in Around(l)
      /\ \A i \in 1..Level(g) : p[i] \in 0..current
  BY AroundIsFinite, WayLevelIs, WayIs, OdometersAre
<1>1. o = Onwards(g, p, l)
  BY DEF CameBy
<1>2. g < l
  <2>1. SUFFICES ASSUME g \in Loops, l = HeadOf(g) PROVE FALSE
    BY WayIs
  <2>2. Around(l) = Around(g) /\ g \in Around(g) /\ Depth(g) \in 1..Level(g)
    BY <2>1, BackStays, LoopIs, AroundIs
  <2>3. Onwards(g, p, l)[Depth(g)] = p[Depth(g)] - 1
    BY <2>1, <2>2, OnwardsAt
  <2>4. o[Depth(g)] = current
    BY <2>1 DEF EntersFirst
  <2>5. p[Depth(g)] \in 0..current
    BY <1>0, <2>2
  <2>. QED
    BY <1>1, <2>3, <2>4, <2>5
<1>3. ASSUME NEW i \in 1..WayLevel(g, l) PROVE o[i] = p[i]
  <2>1. i \in 1..Level(g)
    BY <1>0 DEF WayLevel
  <2>2. PICK e \in Around(g) : Depth(e) = i
    BY <2>1, DepthLoop
  <2>3. e \in Around(l)
    BY <1>0, <2>2
  <2>. QED
    BY <1>1, <1>2, <2>2, <2>3, ForwardIndex
<1>4. /\ Prefix(o, WayLevel(g, l)) \in Odometers(WayLevel(g, l), current)
      /\ \A i \in 1..WayLevel(g, l) : Prefix(o, WayLevel(g, l))[i] = o[i]
  BY <1>0, PrefixTo
<1>5. CASE Around(g) \subseteq Around(l)
  <2>1. WayLevel(g, l) = Level(g)
    BY <1>5 DEF WayLevel
  <2>2. Prefix(o, WayLevel(g, l)) = p
    BY <1>0, <1>3, <1>4, <2>1, SameOdometers
  <2>. QED
    BY <1>2, <2>2 DEF CameBy
<1>6. ASSUME NEW e \in Around(g) \ Around(l)
      PROVE  AllHold(f, LitsAt(s, Prefix(o, WayLevel(g, l))))
  <2>1. Level(g) = Depth(e) /\ WayLevel(g, l) = Depth(e) - 1 /\ e \in Loops /\ Depth(e) \in Nat /\ Depth(e) >= 1
    BY <1>6, LeavesOne, AroundIs, LoopIs DEF WayLevel
  <2>2. /\ Prefix(p, Depth(e) - 1) \in Odometers(Depth(e) - 1, current)
        /\ \A i \in 1..(Depth(e) - 1) : Prefix(p, Depth(e) - 1)[i] = p[i]
    <3>1. Depth(e) - 1 \in 0..Level(g)
      BY <2>1
    <3>. QED
      BY <1>0, <3>1, PrefixTo
  <2>3. Prefix(o, WayLevel(g, l)) = Prefix(p, Depth(e) - 1)
    <3>1. Depth(e) - 1 \in Nat
      BY <2>1
    <3>2. \A i \in 1..(Depth(e) - 1) : Prefix(o, WayLevel(g, l))[i] = Prefix(p, Depth(e) - 1)[i]
      BY <1>3, <1>4, <2>1, <2>2
    <3>. QED
      BY <1>4, <2>1, <2>2, <3>1, <3>2, SameOdometers
  <2>. QED
    BY <2>3 DEF CameBy
<1>. QED
  BY <1>2, <1>5, <1>6

-----------------------------------------------------------------------------
(* The equation of a guard, at the end of the walk.                        *)

LEMMA WaysHold ==
    ASSUME ProgramOK, JumpsOK, current \in Nat, NEW f, Ended(f),
           NEW l \in Loc, HasGuard(l), NEW o \in Odometers(Level(l), current), EntersFirst(l, o)
    PROVE  (\E s \in GuardSources(l) : AllHold(f, RenamedLiterals(s, l, o))) <=> Reached(f, l, o)
<1>1. ASSUME NEW s \in GuardSources(l), AllHold(f, RenamedLiterals(s, l, o)) PROVE Reached(f, l, o)
  <2>1. CASE l = 1
    <3>1. o = <<>>
      <4>1. Level(l) = 0
        BY <2>1, EntryIsOutside
      <4>2. Len(o) = 0 /\ o \in Seq(Int)
        BY <4>1, OdometersAre, OdometerIsSeq
      <4>. QED
        BY <4>2
    <3>. QED
      BY <2>1, <3>1 DEF Ended
  <2>2. CASE l # 1
    <3>1. PICK g \in Loc : g < l /\ l \in Next(g) /\ s \in Ways(g, l)
      BY <2>2, SourcesAre
    <3>2. AllHold(f, LitsAt(s, Prefix(o, WayLevel(g, l))))
      BY <1>1, <3>1, SourceRenamed
    <3>. QED
      BY <3>1, <3>2, WayBackwards DEF Ended
  <2>. QED
    BY <2>1, <2>2
<1>2. ASSUME Reached(f, l, o) PROVE \E s \in GuardSources(l) : AllHold(f, RenamedLiterals(s, l, o))
  <2>1. CASE l = 1
    <3>1. {} \in GuardSources(l)
      BY <2>1, SourcesAre
    <3>2. AllHold(f, RenamedLiterals({}, l, o))
      BY DEF AllHold, RenamedLiterals
    <3>. QED
      BY <3>1, <3>2
  <2>2. CASE l # 1
    <3>1. Came(f, l, o)
      BY <1>2 DEF Ended, CameToEnd
    <3>2. PICK g \in Loc : l \in Next(g) /\ \E p \in Odometers(Level(g), current) :
                                \E s \in Ways(g, l) : CameBy(f, g, p, l, o, s)
      BY <2>2, <3>1 DEF Came
    <3>2a. PICK p \in Odometers(Level(g), current), s \in Ways(g, l) : CameBy(f, g, p, l, o, s)
      BY <3>2
    <3>3. g < l /\ AllHold(f, LitsAt(s, Prefix(o, WayLevel(g, l))))
      BY <3>2, <3>2a, WayForwards
    <3>4. s \in GuardSources(l)
      BY <3>2, <3>2a, <3>3, SourcesAre
    <3>5. AllHold(f, RenamedLiterals(s, l, o))
      BY <3>2, <3>2a, <3>3, SourceRenamed
    <3>. QED
      BY <3>4, <3>5
  <2>. QED
    BY <2>1, <2>2
<1>. QED
  BY <1>1, <1>2

(* Outside of the loops the equation is that of the location.              *)
LEMMA RootGuardAgrees ==
    ASSUME ProgramOK, JumpsOK, current \in Nat, NEW f, Ended(f),
           NEW l \in Loc, HasGuard(l), Around(l) = {}
    PROVE  RightSide(f, Disjunction(Guard(l), GuardSources(l))) = Truth(Guard(l) \in DOMAIN f)
<1>1. Level(l) = 0
  BY FS_EmptySet DEF Level
<1>2. <<>> \in Odometers(Level(l), current)
  BY <1>1 DEF Odometers
<1>3. EntersFirst(l, <<>>)
  <2>1. ASSUME NEW e \in Loops PROVE l # HeadOf(e)
    <3>1. HeadOf(e) \in Body(e)
      BY HeadInBody
    <3>2. Around(HeadOf(e)) = Around(e) /\ e \in Around(e)
      BY <3>1, BodyIs, LoopIs
    <3>. QED
      BY <3>2
  <2>. QED
    BY <2>1 DEF EntersFirst
<1>4. (\E s \in GuardSources(l) : AllHold(f, RenamedLiterals(s, l, <<>>))) <=> Reached(f, l, <<>>)
  BY <1>2, <1>3, WaysHold
<1>5. ASSUME NEW s \in GuardSources(l) PROVE RenamedLiterals(s, l, <<>>) = s
  <2>1. CASE s = {}
    BY <2>1 DEF RenamedLiterals
  <2>2. CASE s # {}
    <3>1. PICK g \in Loc : l \in Next(g) /\ s \in Ways(g, l)
      BY <2>2, SourcesAre
    <3>2. WayLevel(g, l) \in 0..Level(l)
      BY <3>1, WayLevelIs
    <3>3. Prefix(<<>>, WayLevel(g, l)) = <<>>
      BY <1>1, <3>2 DEF Prefix
    <3>4. RenamedLiterals(s, l, <<>>) = LitsAt(s, Prefix(<<>>, WayLevel(g, l)))
      BY <1>2, <3>1, SourceRenamed
    <3>5. LitsAt(s, <<>>) = s
      BY <3>1, NotRenamed
    <3>. QED
      BY <3>3, <3>4, <3>5
  <2>. QED
    BY <2>1, <2>2
<1>6. Suffixed(Guard(l), <<>>) = Guard(l)
  BY DEF Suffixed, Guard, Name
<1>7. RightSide(f, Disjunction(Guard(l), GuardSources(l))) = Truth(\E s \in GuardSources(l) : AllHold(f, s))
  BY SourcesFinite, DisjunctionIs
<1>8. (\E s \in GuardSources(l) : AllHold(f, s)) <=> Guard(l) \in DOMAIN f
  BY <1>4, <1>5, <1>6 DEF Reached
<1>. QED
  BY <1>7, <1>8 DEF Truth

(* In a copy of the location it is renamed.                                *)
LEMMA CopyGuardAgrees ==
    ASSUME ProgramOK, JumpsOK, current \in Nat, NEW f, Ended(f),
           NEW l \in Loc, HasGuard(l), NEW o \in Odometers(Level(l), current), EntersFirst(l, o)
    PROVE  RightSide(f, RenamedEquation(Disjunction(Guard(l), GuardSources(l)), l, o))
             = Truth(Suffixed(Guard(l), o) \in DOMAIN f)
<1>1. (\E s \in GuardSources(l) : AllHold(f, RenamedLiterals(s, l, o))) <=> Reached(f, l, o)
  BY WaysHold
<1>2. RightSide(f, RenamedEquation(Disjunction(Guard(l), GuardSources(l)), l, o))
        = Truth(\E s \in GuardSources(l) : AllHold(f, RenamedLiterals(s, l, o)))
  BY SourcesFinite, RenamedDisjunctionIs
<1>. QED
  BY <1>1, <1>2 DEF Reached, Truth

(* The way back leads to the next copy.                                    *)
LEMMA BackIndex ==
    ASSUME ProgramOK, NEW e \in Loops, NEW p, NEW i \in 1..Depth(e)
    PROVE  Onwards(e, p, HeadOf(e))[i] = IF i = Depth(e) THEN p[i] - 1 ELSE p[i]
<1>1. Around(HeadOf(e)) = Around(e) /\ HeadOf(e) \in Loc /\ e \in Loc /\ e \in Around(e) /\ Level(e) = Depth(e)
  BY BackStays, LoopIs
<1>2. PICK d \in Around(e) : Depth(d) = i
  BY <1>1, DepthLoop
<1>3. Onwards(e, p, HeadOf(e))[Depth(d)]
        = IF d \notin Around(e) THEN current
          ELSE IF e = d THEN p[Depth(d)] - 1 ELSE p[Depth(d)]
  BY <1>1, OnwardsAt
<1>4. e = d <=> i = Depth(e)
  <2>1. d # e => Depth(d) \in 1..(Depth(e) - 1)
    BY InnerDepth
  <2>2. Depth(e) \in Nat
    BY LoopIs
  <2>. QED
    BY <1>2, <2>1, <2>2
<1>. QED
  BY <1>2, <1>3, <1>4

LEMMA BackToSuccessor ==
    ASSUME ProgramOK, current \in Nat, NEW e \in Loops, NEW o \in Odometers(Depth(e), current), o[Depth(e)] > 0,
           NEW p \in Odometers(Depth(e), current)
    PROVE  Onwards(e, p, HeadOf(e)) = Successor(o) <=> p = o
<1>1. /\ Depth(e) \in Nat /\ Depth(e) >= 1 /\ Level(HeadOf(e)) = Depth(e)
  BY LoopIs, BackStays DEF Level
<1>2. /\ Successor(o) \in Odometers(Depth(e), current) /\ Successor(o)[Depth(e)] = o[Depth(e)] - 1
      /\ \A i \in 1..(Depth(e) - 1) : Successor(o)[i] = o[i]
  BY <1>1, SuccessorIs
<1>3. \A i \in 1..Depth(e) : p[i] \in Int /\ o[i] \in Int
  BY <1>1, OdometersAre
<1>4. \A i \in 1..Depth(e) : Onwards(e, p, HeadOf(e))[i] = IF i = Depth(e) THEN p[i] - 1 ELSE p[i]
  BY BackIndex
<1>5. ASSUME Onwards(e, p, HeadOf(e)) = Successor(o) PROVE p = o
  <2>1. ASSUME NEW i \in 1..Depth(e) PROVE p[i] = o[i]
    <3>1. CASE i = Depth(e)
      BY <1>2, <1>3, <1>4, <1>5, <3>1
    <3>2. CASE i # Depth(e)
      <4>1. i \in 1..(Depth(e) - 1)
        BY <1>1, <3>2
      <4>. QED
        BY <1>2, <1>4, <1>5, <3>2, <4>1
    <3>. QED
      BY <3>1, <3>2
  <2>. QED
    BY <1>1, <2>1, SameOdometers
<1>6. ASSUME p = o PROVE Onwards(e, p, HeadOf(e)) = Successor(o)
  <2>1. ASSUME NEW i \in 1..Depth(e) PROVE Onwards(e, p, HeadOf(e))[i] = Successor(o)[i]
    <3>1. CASE i = Depth(e)
      BY <1>2, <1>4, <1>6, <3>1
    <3>2. CASE i # Depth(e)
      <4>1. i \in 1..(Depth(e) - 1)
        BY <1>1, <3>2
      <4>. QED
        BY <1>2, <1>4, <1>6, <3>2, <4>1
    <3>. QED
      BY <3>1, <3>2
  <2>2. Onwards(e, p, HeadOf(e)) = [i \in 1..Depth(e) |-> Onwards(e, p, HeadOf(e))[i]]
    BY <1>1 DEF Onwards
  <2>3. Successor(o) = [i \in 1..Depth(e) |-> Successor(o)[i]]
    BY <1>2 DEF Odometers
  <2>. QED
    BY <2>1, <2>2, <2>3
<1>. QED
  BY <1>5, <1>6

LEMMA HeadsDiffer ==
    ASSUME ProgramOK, NEW e \in Loops, NEW g \in Loops, HeadOf(g) = HeadOf(e) PROVE g = e
<1>1. HeadOf(e) \in Body(e) /\ HeadOf(g) \in Body(g)
  BY HeadInBody
<1>. QED
  BY <1>1, BodyIs

LEMMA NextGuardAgrees ==
    ASSUME ProgramOK, JumpsOK, current \in Nat, NEW f, Ended(f),
           NEW e \in Loops, NEW o \in Odometers(Depth(e), current), o[Depth(e)] > 0
    PROVE  /\ RightSide(f, NextGuard(e, o)) = Truth(Suffixed(Guard(HeadOf(e)), Successor(o)) \in DOMAIN f)
           /\ NextGuard(e, o).lhs = Suffixed(Guard(HeadOf(e)), Successor(o))
<1>. DEFINE S == {Is(Guard(e)), Is(Cond(e))}
            u == Successor(o)
<1>0. /\ e \in Loc /\ Depth(e) \in Nat /\ Depth(e) >= 1 /\ HeadOf(e) \in Loc /\ HeadOf(e) <= e
      /\ HeadOf(e) \in Nat /\ e \in Nat
      /\ Around(HeadOf(e)) = Around(e) /\ e \in Around(e) /\ Level(e) = Depth(e)
      /\ Level(HeadOf(e)) = Depth(e) /\ IsGoto(goto[e]) /\ goto[e].to = HeadOf(e)
      /\ HasGuard(HeadOf(e))
  BY LoopIs, BackStays, HeadGuardIs DEF Level
<1>1. /\ u \in Odometers(Depth(e), current) /\ u[Depth(e)] = o[Depth(e)] - 1 /\ o[Depth(e)] \in 0..current
  BY <1>0, SuccessorIs, OdometersAre
<1>2. RenamedLiterals(S, HeadOf(e), o) = LitsAt(S, o)
  <2>1. HeadOf(e) \in Body(e) /\ e \in Body(e) /\ GuardSource(e) \in Body(e)
    <3>1. \A l \in Loc : Around(l) = Around(e) => l \in Body(e)
      <4>1. LoopOf(HeadOf(e)) = e
        BY HeadInBody, BodyIs
      <4>. QED
        BY <1>0, <4>1, AroundIs DEF Body, LoopOf
    <3>. QED
      BY <1>0, <3>1, GuardOf, GuardSourceBlock
  <2>2. o \in [1..Depth(e) -> Int]
    BY <1>0, OdometersAre
  <2>3. Renamed(Guard(e), HeadOf(e), o) = Suffixed(Guard(e), o)
    BY <1>0, <2>1, <2>2, GuardOf, RenamedInBody
  <2>4. IsNameAt(Cond(e), e)
    BY NameIsNameAt DEF Cond
  <2>5. Renamed(Cond(e), HeadOf(e), o) = Suffixed(Cond(e), o)
    BY <2>1, <2>2, <2>4, RenamedInBody
  <2>6. S \in SUBSET {Is(Guard(e)), Is(Cond(e)), IsNot(Cond(e))}
    OBVIOUS
  <2>. HIDE DEF S
  <2>. QED
    BY <2>3, <2>5, <2>6, LitsAre
<1>3. S \in Ways(e, HeadOf(e)) /\ HeadOf(e) \in Next(e)
  BY <1>0 DEF Ways, Next
<1>4. ASSUME AllHold(f, LitsAt(S, o)) PROVE Reached(f, HeadOf(e), u)
  <2>1. \/ Reached(f, HeadOf(e), Onwards(e, o, HeadOf(e)))
        \/ o[Depth(e)] = 0
    <3>. HIDE DEF S
    <3>. QED
      BY <1>0, <1>3, <1>4 DEF Ended, FollowedToEnd
  <2>2. Onwards(e, o, HeadOf(e)) = u
    BY BackToSuccessor
  <2>. QED
    BY <2>1, <2>2
<1>5. ASSUME Reached(f, HeadOf(e), u) PROVE AllHold(f, LitsAt(S, o))
  <2>1. HeadOf(e) # 1
    BY HeadIsLoc
  <2>2. Came(f, HeadOf(e), u)
    BY <1>0, <1>1, <1>5 DEF Ended, CameToEnd
  <2>3. PICK g \in Loc : HeadOf(e) \in Next(g) /\ \E p \in Odometers(Level(g), current) :
                            \E L \in Ways(g, HeadOf(e)) : CameBy(f, g, p, HeadOf(e), u, L)
    BY <2>1, <2>2 DEF Came
  <2>3a. PICK p \in Odometers(Level(g), current), L \in Ways(g, HeadOf(e)) :
            CameBy(f, g, p, HeadOf(e), u, L)
    BY <2>3
  <2>4. Onwards(g, p, HeadOf(e)) = u /\ AllHold(f, LitsAt(L, p))
    BY <2>3a DEF CameBy
  <2>5. g = e
    <3>1. CASE g < HeadOf(e)
      <4>1. e \notin Around(g)
        <5>1. e \in Around(g) => HeadOf(e) <= g
          BY AroundIs
        <5>2. g \in Nat
          BY <2>3, WayIs
        <5>. QED
          BY <1>0, <3>1, <5>1, <5>2
      <4>2. Onwards(g, p, HeadOf(e))[Depth(e)] = current
        BY <1>0, <4>1, OnwardsAt
      <4>. QED
        BY <1>1, <2>4, <4>2
    <3>2. CASE g \in Loops /\ HeadOf(e) = HeadOf(g)
      BY <3>2, HeadsDiffer
    <3>. QED
      BY <2>3, <3>1, <3>2, WayIs
  <2>6. p = o
    BY <1>0, <2>3a, <2>4, <2>5, BackToSuccessor
  <2>7. L = S
    <3>1. HeadOf(e) # e + 1
      BY <1>0
    <3>. QED
      BY <1>0, <2>3a, <2>5, <3>1, WayCases
  <2>. QED
    BY <2>4, <2>6, <2>7
<1>6. NextGuard(e, o).lhs = Suffixed(Guard(HeadOf(e)), u)
  <2>1. u \in [1..Level(HeadOf(e)) -> Int]
    BY <1>0, <1>1, OdometersAre
  <2>2. Renamed(Guard(HeadOf(e)), HeadOf(e), u) = Suffixed(Guard(HeadOf(e)), u)
    BY <1>0, <2>1, GuardRenamed
  <2>. QED
    BY <2>2 DEF NextGuard, Disjunction, Equation
<1>7. RightSide(f, NextGuard(e, o)) = Truth(\E s \in {LitsAt(S, o)} : AllHold(f, s))
  <2>1. IsFiniteSet({LitsAt(S, o)})
    BY FS_Singleton
  <2>2. NextGuard(e, o) = Disjunction(Renamed(Guard(HeadOf(e)), HeadOf(e), Successor(o)), {LitsAt(S, o)})
    BY <1>2 DEF NextGuard
  <2>. HIDE DEF S
  <2>3. RightSide(f, Disjunction(Renamed(Guard(HeadOf(e)), HeadOf(e), Successor(o)), {LitsAt(S, o)}))
          = Truth(\E s \in {LitsAt(S, o)} : AllHold(f, s))
    BY <2>1, DisjunctionIs
  <2>. QED
    BY <2>2, <2>3
<1>8. (\E s \in {LitsAt(S, o)} : AllHold(f, s)) <=> Suffixed(Guard(HeadOf(e)), u) \in DOMAIN f
  BY <1>4, <1>5 DEF Reached
<1>. QED
  BY <1>6, <1>7, <1>8 DEF Truth

(* The equations of a guard.                                               *)
RootAt(q) == \E l \in Loc : Around(l) = {} /\ q \in Node(l).equations
GuardHolds(f, q) == RightSide(f, q) = IF q.lhs \in DOMAIN f THEN f[q.lhs] ELSE False

LEMMA GuardEquation ==
    ASSUME ProgramOK, TypeInv, NEW l \in Loc, NEW q \in Node(l).equations, q.lhs.obj = "$guard"
    PROVE  q = Disjunction(Guard(l), GuardSources(l)) /\ HasGuard(l)
<1>1. "$guard" \notin Var
  BY GotoProgramAssumption
<1>2. \A obj, kind : Name(obj, kind, l).obj = obj
  BY DEF Name
<1>3. \A v \in DOMAIN phis[l] : v \in Var
  BY DEF TypeInv
<1>4. \A v : Equation(Name(v, "phi", l), PhiAlternatives(l, v)).lhs = Name(v, "phi", l)
  BY DEF Equation
<1>. QED
  BY <1>1, <1>2, <1>3, <1>4, NodeNames

LEMMA TrueIfDefined ==
    ASSUME NEW f, GuardsAreTrue(f), NEW q, q.lhs.obj = "$guard", OfCopy(q.lhs),
           RightSide(f, q) = Truth(q.lhs \in DOMAIN f)
    PROVE  GuardHolds(f, q)
BY DEF GuardHolds, GuardsAreTrue, Truth

LEMMA MoreRounds ==
    ASSUME NEW d \in Nat, NEW k \in Nat, NEW m \in Nat, k <= m, NEW o \in Odometers(d, k)
    PROVE  o \in Odometers(d, m)
<1>1. 0..k \subseteq 0..m
  OBVIOUS
<1>. QED
  BY <1>1 DEF Odometers

LEMMA RootHolds ==
    ASSUME ProgramOK, JumpsOK, TypeInv, current \in Nat, NEW f, Ended(f),
           NEW q, RootAt(q), q.lhs.obj = "$guard"
    PROVE  GuardHolds(f, q)
<1>1. PICK l \in Loc : Around(l) = {} /\ q \in Node(l).equations
  BY DEF RootAt
<1>2. q = Disjunction(Guard(l), GuardSources(l)) /\ HasGuard(l)
  BY <1>1, GuardEquation
<1>3. q.lhs = Guard(l)
  BY <1>2 DEF Disjunction, Equation
<1>4. RightSide(f, q) = Truth(q.lhs \in DOMAIN f)
  BY <1>1, <1>2, <1>3, RootGuardAgrees
<1>5. OfCopy(q.lhs)
  <2>1. q.lhs.odo = <<>> /\ q.lhs.loc = GuardSource(l)
    BY <1>3 DEF Guard, Name
  <2>2. Level(GuardSource(l)) = 0
    BY <1>1, GuardOf, FS_EmptySet DEF Level
  <2>. QED
    BY <2>1, <2>2 DEF OfCopy
<1>. QED
  BY <1>4, <1>5, TrueIfDefined DEF Ended

(* The copy of an equation in a loop body.                                 *)
LEMMA CopyHolds ==
    ASSUME ProgramOK, JumpsOK, TypeInv, current \in Nat, NEW f, Ended(f),
           NEW e \in Loops, NEW l \in Body(e), NEW o \in Odometers(Depth(e), current), EntersFirst(l, o),
           NEW q \in CopyEquations(l, o), q.lhs.obj = "$guard"
    PROVE  GuardHolds(f, q)
<1>1. PICK r \in Node(l).equations : q = RenamedEquation(r, l, o)
  BY DEF CopyEquations
<1>2. q.lhs = Suffixed(r.lhs, o) /\ r.lhs.obj = "$guard"
  BY <1>1, CopyName
<1>3. l \in Loc /\ Level(l) = Depth(e)
  BY BodyIs
<1>4. r = Disjunction(Guard(l), GuardSources(l)) /\ HasGuard(l)
  BY <1>2, <1>3, GuardEquation
<1>5. r.lhs = Guard(l)
  BY <1>4 DEF Disjunction, Equation
<1>6. RightSide(f, q) = Truth(q.lhs \in DOMAIN f)
  BY <1>1, <1>2, <1>3, <1>4, <1>5, CopyGuardAgrees
<1>7. OfCopy(q.lhs)
  BY <1>2, <1>3, <1>5, CopyNames
<1>. QED
  BY <1>6, <1>7, TrueIfDefined DEF Ended

LEMMA ForeverHolds ==
    ASSUME ProgramOK, JumpsOK, TypeInv, current \in Nat, NEW f, Ended(f),
           NEW k \in 0..current, NEW q, Forever(q, k), q.lhs.obj = "$guard"
    PROVE  GuardHolds(f, q)
<1>1. PICK e \in Loops : \E o : BodyAt(q, k, e, o) \/ ConnectorAt(q, k, e, o)
  BY DEF Forever
<1>2. PICK o : BodyAt(q, k, e, o) \/ ConnectorAt(q, k, e, o)
  BY <1>1
<1>3. Depth(e) \in Nat /\ Depth(e) >= 1 /\ k \in Nat /\ k <= current
  BY LoopIs
<1>4. CASE BodyAt(q, k, e, o)
  <2>1. PICK l \in Body(e) \ {HeadOf(e)} : q \in CopyEquations(l, o)
    BY <1>4 DEF BodyAt
  <2>2. o \in Odometers(Depth(e), current)
    BY <1>3, <1>4, BodyAtIs, MoreRounds
  <2>3. EntersFirst(l, o)
    <3>1. ASSUME NEW g \in Loops, l = HeadOf(g) PROVE FALSE
      <4>1. l \in Body(g) /\ l \in Body(e)
        BY <2>1, <3>1, HeadInBody
      <4>2. g = e
        BY <4>1, BodyIs
      <4>. QED
        BY <2>1, <3>1, <4>2
    <3>. QED
      BY <3>1 DEF EntersFirst
  <2>. QED
    BY <2>1, <2>2, <2>3, CopyHolds
<1>5. CASE ConnectorAt(q, k, e, o)
  <2>1. o \in Odometers(Depth(e), current) /\ o[Depth(e)] > 0
    BY <1>3, <1>5, ConnectorAtIs, MoreRounds
  <2>2. Successor(o) \in Odometers(Depth(e), current)
    BY <1>3, <2>1, SuccessorIs
  <2>3. q = NextGuard(e, o)
    <3>1. q \in ConnectorEquations(e, o)
      BY <1>5 DEF ConnectorAt
    <3>2. HeadOf(e) \in Body(e)
      BY HeadInBody
    <3>3. ASSUME NEW a \in Node(HeadOf(e)).equations, a.lhs.obj # "$guard"
          PROVE  Renamed(a.lhs, HeadOf(e), Successor(o)).obj # "$guard"
      <4>1. Renamed(a.lhs, HeadOf(e), Successor(o)) = Suffixed(a.lhs, Successor(o))
        BY <2>2, <3>2, CopyName
      <4>2. Suffixed(a.lhs, Successor(o)).obj = a.lhs.obj
        BY <2>2, <3>2, CopyName
      <4>. QED
        BY <3>3, <4>1, <4>2
    <3>4. q \notin {ConnectedPhi(e, a, o) : a \in Selecting(e)}
      BY <3>3 DEF Selecting, ConnectedPhi, Equation
    <3>5. q \notin {RenamedEquation(a, HeadOf(e), Successor(o)) : a \in NotSelecting(e)}
      <4>1. ASSUME NEW a \in Node(HeadOf(e)).equations, a.lhs.obj # "$guard"
            PROVE  RenamedEquation(a, HeadOf(e), Successor(o)).lhs.obj # "$guard"
        <5>1. /\ RenamedEquation(a, HeadOf(e), Successor(o)).lhs = Suffixed(a.lhs, Successor(o))
              /\ Suffixed(a.lhs, Successor(o)).obj = a.lhs.obj
          BY <2>2, <3>2, CopyName
        <5>. QED
          BY <4>1, <5>1
      <4>. QED
        BY <4>1 DEF NotSelecting
    <3>. QED
      BY <3>1, <3>4, <3>5 DEF ConnectorEquations
  <2>4. /\ RightSide(f, q) = Truth(q.lhs \in DOMAIN f)
        /\ q.lhs = Suffixed(Guard(HeadOf(e)), Successor(o))
    BY <2>1, <2>3, NextGuardAgrees
  <2>5. OfCopy(q.lhs)
    <3>1. HeadOf(e) \in Loc /\ Level(HeadOf(e)) = Depth(e)
      BY LoopIs, BackStays DEF Level
    <3>. QED
      BY <2>2, <2>4, <3>1, CopyNames
  <2>. QED
    BY <2>4, <2>5, TrueIfDefined DEF Ended
<1>. QED
  BY <1>2, <1>4, <1>5

LEMMA RoundHolds ==
    ASSUME ProgramOK, NamesOfLoop, JumpsOK, TypeInv, current \in Nat, NEW f, Ended(f),
           NEW q, InRound(q, current), q.lhs.obj = "$guard", OfCopy(q.lhs)
    PROVE  GuardHolds(f, q)
<1>1. PICK e \in Loops : \E o : EntryAt(q, current, e, o) \/ MergeAt(q, current, e, o)
  BY DEF InRound
<1>2. PICK o : EntryAt(q, current, e, o) \/ MergeAt(q, current, e, o)
  BY <1>1
<1>3. ~MergeAt(q, current, e, o)
  BY MergedIsShorter DEF MergeAt
<1>4. q \in CopyEquations(HeadOf(e), o) /\ HeadOf(e) \in Body(e)
  BY <1>2, <1>3, HeadInBody DEF EntryAt
<1>5. o \in Odometers(Depth(e), current) /\ o[Depth(e)] = current
  BY <1>2, <1>3, EntryAtIs
<1>6. EntersFirst(HeadOf(e), o)
  BY <1>5, HeadsDiffer DEF EntersFirst
<1>. QED
  BY <1>4, <1>5, <1>6, CopyHolds

-----------------------------------------------------------------------------
(* What is said of the function does not change with the walk.             *)

LEMMA ProgramFixed ==
    ASSUME goto' = goto
    PROVE  /\ Loc' = Loc /\ Loops' = Loops
           /\ \A l : /\ Around(l)' = Around(l) /\ Level(l)' = Level(l) /\ Depth(l)' = Depth(l)
                     /\ HeadOf(l)' = HeadOf(l) /\ Span(l)' = Span(l) /\ Next(l)' = Next(l)
                     /\ LoopOf(l)' = LoopOf(l) /\ Body(l)' = Body(l)
                     /\ HasGuard(l)' = HasGuard(l) /\ GuardSource(l)' = GuardSource(l)
                     /\ Guard(l)' = Guard(l) /\ Cond(l)' = Cond(l) /\ Blocks(l)' = Blocks(l)
                     /\ Exits(l)' = Exits(l)
           /\ \A l, t : Ways(l, t)' = Ways(l, t) /\ LoopAt(l, t)' = LoopAt(l, t)
           /\ \A e, l : ExitCondition(e, l)' = ExitCondition(e, l)
<1>1. Loc' = Loc /\ Loops' = Loops /\ \A l : IsBack(l)' = IsBack(l)
  BY DEF Loc, Loops, IsBack
<1>2. \A l : HeadOf(l)' = HeadOf(l) /\ Span(l)' = Span(l) /\ Next(l)' = Next(l) /\ Blocks(l)' = Blocks(l)
  BY DEF HeadOf, Span, Next, Blocks
<1>3. \A l : Around(l)' = Around(l)
  BY <1>1, <1>2 DEF Around
<1>4. \A l : Level(l)' = Level(l) /\ Depth(l)' = Depth(l) /\ LoopOf(l)' = LoopOf(l)
  BY <1>3 DEF Level, Depth, LoopOf, Min
<1>5. \A l : Body(l)' = Body(l)
  BY <1>2, <1>4 DEF Body
<1>6. \A l : HasGuard(l)' = HasGuard(l)
  BY <1>1, <1>2 DEF HasGuard
<1>7. \A l : GuardSource(l)' = GuardSource(l)
  BY <1>6 DEF GuardSource, Max
<1>8. \A l : Guard(l)' = Guard(l) /\ Cond(l)' = Cond(l)
  BY <1>7 DEF Guard, Cond
<1>9. \A l : Exits(l)' = Exits(l)
  BY <1>5 DEF Exits, IsDoWhile
<1>10. \A l, t : LoopAt(l, t)' = LoopAt(l, t)
  BY <1>3 DEF LoopAt
<1>11. \A l, t : Ways(l, t)' = Ways(l, t)
  BY <1>2, <1>8 DEF Ways
<1>12. \A e, l : ExitCondition(e, l)' = ExitCondition(e, l)
  BY <1>8 DEF ExitCondition
<1>. QED
  BY <1>1, <1>2, <1>3, <1>4, <1>5, <1>6, <1>7, <1>8, <1>9, <1>10, <1>11, <1>12

LEMMA WalkedFixed ==
    ASSUME goto' = goto, current' = current
    PROVE  /\ \A f, l, o : WalkedSoFar(f, l, o)' <=> WalkedSoFar(f, l, o)
           /\ \A f : Ended(f)' <=> Ended(f)
<1>1. \A d, k : Odometers(d, k)' = Odometers(d, k)
  BY DEF Odometers
<1>2. \A n, o : Suffixed(n, o)' = Suffixed(n, o)
  BY DEF Suffixed
<1>3. \A f, L : AllHold(f, L)' <=> AllHold(f, L)
  BY DEF AllHold, LiteralHolds
<1>4. \A L, p : LitsAt(L, p)' = LitsAt(L, p)
  BY <1>2 DEF LitsAt
<1>5. \A A, m, p, l, o : Earlier(A, m, p, l, o)' <=> Earlier(A, m, p, l, o)
  BY ProgramFixed DEF Earlier
<1>6. /\ \A m, p, l, o : CopyBefore(m, p, l, o)' <=> CopyBefore(m, p, l, o)
      /\ \A m, p, l, o : LoopBefore(m, p, l, o)' <=> LoopBefore(m, p, l, o)
  BY <1>5, ProgramFixed DEF CopyBefore, LoopBefore
<1>7. /\ \A n : IsInput(n)' <=> IsInput(n)
      /\ \A n : OfCopy(n)' <=> OfCopy(n)
      /\ \A d, p, q : SameUpto(d, p, q)' <=> SameUpto(d, p, q)
  BY ProgramFixed DEF IsInput, OfCopy, SameUpto
<1>8. /\ \A n, l, o : PlacedCopy(n, l, o)' <=> PlacedCopy(n, l, o)
      /\ \A n, l, o : PlacedMerge(n, l, o)' <=> PlacedMerge(n, l, o)
  BY <1>1, <1>6, ProgramFixed DEF PlacedCopy, PlacedMerge
<1>9. \A f, l, o : NamesPlaced(f, l, o)' <=> NamesPlaced(f, l, o)
  BY <1>7, <1>8 DEF NamesPlaced
<1>10. \A f : GuardsAreTrue(f)' <=> GuardsAreTrue(f)
  BY <1>7 DEF GuardsAreTrue
<1>11. \A g, p, t : Onwards(g, p, t)' = Onwards(g, p, t)
  BY ProgramFixed DEF Onwards
<1>12. \A f, t, u : Reached(f, t, u)' <=> Reached(f, t, u)
  BY <1>2, ProgramFixed DEF Reached
<1>13. \A f, t, u, l, o : Arrived(f, t, u, l, o)' <=> Arrived(f, t, u, l, o)
  BY <1>12 DEF Arrived
<1>14. \A g, p, l, o : InBlock(g, p, l, o)' <=> InBlock(g, p, l, o)
  BY ProgramFixed DEF InBlock
<1>15. \A f, l, o : Followed(f, l, o)' <=> Followed(f, l, o)
  BY <1>1, <1>3, <1>4, <1>11, <1>13, <1>14, ProgramFixed DEF Followed
<1>16. \A f : MergedExits(f)' <=> MergedExits(f)
  BY <1>1, <1>3, <1>4, <1>7, ProgramFixed DEF MergedExits
<1>17. \A p, n : Prefix(p, n)' = Prefix(p, n)
  BY DEF Prefix
<1>18. \A f, g, p, t, u, L : CameBy(f, g, p, t, u, L)' <=> CameBy(f, g, p, t, u, L)
  BY <1>3, <1>4, <1>11, <1>17, ProgramFixed DEF CameBy
<1>19. \A f, t, u : Came(f, t, u)' <=> Came(f, t, u)
  BY <1>1, <1>18, ProgramFixed DEF Came
<1>20. \A f, l, o : AllCame(f, l, o)' <=> AllCame(f, l, o)
  BY <1>1, <1>13, <1>19, ProgramFixed DEF AllCame
<1>21. \A f : FollowedToEnd(f)' <=> FollowedToEnd(f)
  BY <1>1, <1>3, <1>4, <1>11, <1>12, ProgramFixed DEF FollowedToEnd
<1>22. \A f : CameToEnd(f)' <=> CameToEnd(f)
  BY <1>1, <1>12, <1>19, ProgramFixed DEF CameToEnd
<1>. QED
  BY <1>9, <1>10, <1>12, <1>13, <1>15, <1>16, <1>20, <1>21, <1>22 DEF WalkedSoFar, Ended

(* What is known of the walk and of its end.                               *)
WalkInv ==
    /\ stage = "walk" => WalkedSoFar(val, at, odo)
    /\ Over => Ended(val)

LEMMA WalkingHere ==
    ASSUME TypeInv, CopiesInv, stage = "walk" PROVE Walking
BY DEF TypeInv, CopiesInv, WalkCopies, GuardTrue, IsTrue, Walking

LEMMA StartWalks ==
    ASSUME ProgramOK, TypeInv, CopiesInv, StartWalk PROVE WalkInv'
<1>1. /\ odo' = <<>> /\ at' = 1 /\ stage' = "walk" /\ goto' = goto /\ current' = current
      /\ val' = [n \in {Name(v, "in", 0) : v \in Var} |-> env[n.obj]] /\ current \in Nat
  BY ExecutionAssumption DEF StartWalk, CopiesInv, TypeInv
<1>2. \A n \in DOMAIN val' : IsInput(n)
  BY <1>1 DEF IsInput
<1>3. WalkedSoFar(val', 1, <<>>)
  BY <1>1, <1>2, StartWalked
<1>4. WalkedSoFar(val, at, odo)'
  BY <1>1, <1>3, WalkedFixed
<1>. QED
  BY <1>1, <1>4 DEF WalkInv, Over

LEMMA StepWalks ==
    ASSUME ProgramOK, NamesOfLoop, JumpsOK, TypeInv, CopiesInv, WalkInv, Step PROVE WalkInv'
<1>1. stage = "walk" /\ goto[at].op # "end" /\ goto' = goto /\ current' = current
  BY DEF Step
<1>2. PICK v \in Operands(at) :
        LET f == Updated(val, Defined(at, v))
            t == Target(at, v)
            blocked == goto[at].op = "assume" /\ ~Holds(goto[at], v)
            stuck == blocked \/ RunsOut(at, t)
        IN  /\ at' = IF stuck THEN at ELSE t
            /\ odo' = IF stuck THEN odo ELSE Moved(at, t)
            /\ val' = IF stuck THEN f ELSE WithAllMerges(f, at, t)
            /\ stage' = IF blocked THEN "blocked" ELSE IF stuck THEN "unfinished" ELSE stage
  BY DEF Step
<1>3. Walking /\ WalkedSoFar(val, at, odo)
  BY <1>1, WalkingHere DEF WalkInv
<1>4. Ends(v) <=> (goto[at].op = "assume" /\ ~Holds(goto[at], v)) \/ RunsOut(at, Target(at, v))
  BY <1>1 DEF Ends
<1>5. CASE Ends(v)
  <2>1. val' = After1(v) /\ stage' \in {"blocked", "unfinished"}
    BY <1>2, <1>4, <1>5 DEF After1
  <2>2. Ended(After1(v))
    BY <1>3, <1>5, EndsHere
  <2>3. Ended(val)'
    BY <1>1, <2>1, <2>2, WalkedFixed
  <2>. QED
    BY <2>1, <2>3 DEF WalkInv
<1>6. CASE ~Ends(v)
  <2>1. /\ val' = ValNext(v) /\ at' = Target(at, v) /\ odo' = Moved(at, Target(at, v))
        /\ stage' = "walk"
    BY <1>1, <1>2, <1>4, <1>6 DEF After1, ValNext
  <2>2. WalkedSoFar(ValNext(v), Target(at, v), Moved(at, Target(at, v)))
    BY <1>3, <1>6, StepGoesOn
  <2>3. WalkedSoFar(val, at, odo)'
    BY <1>1, <2>1, <2>2, WalkedFixed
  <2>. QED
    BY <2>1, <2>3 DEF WalkInv, Over
<1>. QED
  BY <1>5, <1>6

LEMMA ReturnWalks ==
    ASSUME ProgramOK, JumpsOK, TypeInv, CopiesInv, WalkInv, Return PROVE WalkInv'
<1>1. /\ stage = "walk" /\ goto[at].op = "end" /\ goto' = goto /\ current' = current
      /\ stage' = "returned" /\ val' = After1(True)
  BY DEF Return, After1
<1>2. Walking /\ WalkedSoFar(val, at, odo) /\ Ends(True)
  BY <1>1, WalkingHere DEF WalkInv, Ends
<1>3. Ended(val')
  BY <1>1, <1>2, EndsHere
<1>4. Ended(val)'
  BY <1>1, <1>3, WalkedFixed
<1>. QED
  BY <1>1, <1>4 DEF WalkInv

-----------------------------------------------------------------------------
(* Which equations there are.                                              *)

LEMMA NodeFixed ==
    ASSUME goto' = goto, defs' = defs, phis' = phis
    PROVE  \A l : Node(l)' = Node(l)
<1>1. \A v, l : Read(v, l)' = Read(v, l)
  BY DEF Read
<1>2. \A l : Operand(l)' = Operand(l)
  BY <1>1 DEF Operand
<1>3. \A l : Test(l)' = Test(l)
  BY <1>2 DEF Test
<1>4. \A l : Transfer(l)' = Transfer(l)
  BY <1>2 DEF Transfer
<1>5. \A g, l : EdgeGuard(g, l)' = EdgeGuard(g, l)
  BY ProgramFixed DEF EdgeGuard
<1>6. \A l, v : PhiAlternatives(l, v)' = PhiAlternatives(l, v)
  <2>. TAKE l, v
  <2>. DEFINE incoming == phis[l][v]
              forward == {s \in DOMAIN incoming : incoming[s].kind = "in" \/ s < l}
              a == [i \in DOMAIN Ascending(forward) |->
                        Alternative(EdgeGuard(Ascending(forward)[i], l),
                                    Of(Name(v, incoming[Ascending(forward)[i]].kind,
                                               incoming[Ascending(forward)[i]].loc)))]
              late == DOMAIN incoming \ forward
              b == [i \in DOMAIN Ascending(late) |->
                        Alternative({Is(LoopSelect(Ascending(late)[i]))}, Of(Name(v, "lb", Ascending(late)[i])))]
  <2>1. incoming' = incoming /\ forward' = forward /\ late' = late
    OBVIOUS
  <2>2. PhiAlternatives(l, v) = [a \o b EXCEPT ![1].when = {}]
    BY DEF PhiAlternatives, MapSeq
  <2>3. PhiAlternatives(l, v)' = [a \o b EXCEPT ![1].when = {}]'
    BY DEF PhiAlternatives, MapSeq
  <2>. HIDE DEF incoming, forward, late
  <2>4. a' = a
    BY <1>5, <2>1
  <2>5. b' = b
    BY <2>1
  <2>. HIDE DEF a, b
  <2>. QED
    BY <2>2, <2>3, <2>4, <2>5
<1>7. \A l : PhiNodes(l)' = PhiNodes(l)
  BY <1>6 DEF PhiNodes
<1>8. \A l : BuildCond(l)' = BuildCond(l)
  BY <1>3, ProgramFixed DEF BuildCond
<1>9. \A l : GuardSources(l)' = GuardSources(l)
  BY ProgramFixed DEF GuardSources, IsBack
<1>10. \A l : BuildGuard(l)' = BuildGuard(l)
  BY <1>9, ProgramFixed DEF BuildGuard
<1>11. \A l : Assertion(l)' = Assertion(l)
  BY <1>3, ProgramFixed DEF Assertion
<1>. QED
  BY <1>4, <1>7, <1>8, <1>10, <1>11 DEF Node

LEMMA CopiesFixed ==
    ASSUME goto' = goto, defs' = defs, phis' = phis
    PROVE  /\ \A q : RootAt(q)' <=> RootAt(q)
           /\ \A q, k : Forever(q, k)' <=> Forever(q, k)
           /\ \A q, k : InRound(q, k)' <=> InRound(q, k)
<1>1. \A d, k : Odometers(d, k)' = Odometers(d, k) /\ Added(d, k)' = Added(d, k)
  BY DEF Odometers, Added
<1>2. \A d, l : DefLevel(d, l)' = DefLevel(d, l)
  BY ProgramFixed DEF DefLevel
<1>3. \A n, l, o : Renamed(n, l, o)' = Renamed(n, l, o)
  BY <1>2 DEF Renamed, Prefix
<1>4. \A L, l, o : RenamedLiterals(L, l, o)' = RenamedLiterals(L, l, o)
  BY <1>3 DEF RenamedLiterals
<1>5. \A x, l, o : RenamedOperand(x, l, o)' = RenamedOperand(x, l, o)
  BY <1>3 DEF RenamedOperand
<1>6. \A q, l, o : RenamedEquation(q, l, o)' = RenamedEquation(q, l, o)
  BY <1>3, <1>4, <1>5 DEF RenamedEquation, MapSeq
<1>7. \A l, o : CopyEquations(l, o)' = CopyEquations(l, o)
  BY <1>6, NodeFixed DEF CopyEquations
<1>8. \A e, v : Post(e, v)' = Post(e, v) /\ Read(v, e)' = Read(v, e)
  BY DEF Post, Read
<1>9. \A e, q, o : ConnectedPhi(e, q, o)' = ConnectedPhi(e, q, o)
  BY <1>3, <1>8, ProgramFixed DEF ConnectedPhi
<1>10. \A e, o : NextGuard(e, o)' = NextGuard(e, o)
  BY <1>3, <1>4, ProgramFixed DEF NextGuard
<1>11. \A e : Selecting(e)' = Selecting(e) /\ NotSelecting(e)' = NotSelecting(e)
  BY NodeFixed, ProgramFixed DEF Selecting, NotSelecting
<1>12. \A e, o : ConnectorEquations(e, o)' = ConnectorEquations(e, o)
  BY <1>6, <1>9, <1>10, <1>11, ProgramFixed DEF ConnectorEquations
<1>13. \A e : Modified(e)' = Modified(e)
  BY ProgramFixed DEF Modified
<1>14. \A e, l : ExitNames(e, l)' = ExitNames(e, l)
  BY <1>8, <1>13, ProgramFixed DEF ExitNames
<1>15. \A e, n : ExitConditions(e, n)' = ExitConditions(e, n)
  BY <1>14, ProgramFixed DEF ExitConditions
<1>16. \A e : MergedNames(e)' = MergedNames(e)
  BY <1>14, ProgramFixed DEF MergedNames
<1>17. \A e, n, p, k : ExitMerge(e, n, p, k)' = ExitMerge(e, n, p, k)
  <2>. TAKE e, n, p, k
  <2>. DEFINE h == HeadOf(e)
              c == SetToSeq(ExitConditions(e, n))
              In(i) == Renamed(n, h, Append(p, i))
              rest == [j \in 1..(k * Len(c)) |->
                        Alternative(RenamedLiterals(c[((j - 1) % Len(c)) + 1], h, Append(p, ((j - 1) \div Len(c)) + 1)),
                                    Of(In(((j - 1) \div Len(c)) + 1)))]
              all == Equation(Renamed(n, h, p), <<Alternative({}, Of(In(0)))>> \o rest)
  <2>1. h' = h /\ c' = c
    BY <1>15, ProgramFixed
  <2>2. ExitMerge(e, n, p, k) = all
    BY Zenon DEF ExitMerge
  <2>3. ExitMerge(e, n, p, k)' = all'
    BY Zenon DEF ExitMerge
  <2>. HIDE DEF h, c
  <2>4. rest' = rest
    BY <1>3, <1>4, <2>1
  <2>5. In(0)' = In(0) /\ Renamed(n, h, p)' = Renamed(n, h, p)
    BY <1>3, <2>1
  <2>. HIDE DEF rest, In
  <2>. QED
    BY <2>2, <2>3, <2>4, <2>5
<1>18. \A e, p, k : MergeEquations(e, p, k)' = MergeEquations(e, p, k)
  BY <1>16, <1>17 DEF MergeEquations
<1>19. \A q : RootAt(q)' <=> RootAt(q)
  BY NodeFixed, ProgramFixed DEF RootAt
<1>20. /\ \A q, k, e, o : BodyAt(q, k, e, o)' <=> BodyAt(q, k, e, o)
       /\ \A q, k, e, o : ConnectorAt(q, k, e, o)' <=> ConnectorAt(q, k, e, o)
  BY <1>1, <1>7, <1>12, ProgramFixed DEF BodyAt, ConnectorAt
<1>21. /\ \A q, k, e, o : EntryAt(q, k, e, o)' <=> EntryAt(q, k, e, o)
       /\ \A q, k, e, o : MergeAt(q, k, e, o)' <=> MergeAt(q, k, e, o)
  BY <1>1, <1>7, <1>18, ProgramFixed DEF EntryAt, MergeAt
<1>. QED
  BY <1>19, <1>20, <1>21, ProgramFixed DEF Forever, InRound

Unwound == stage \in {"unwound", "walk"} \/ Over
KnownNode(n, k) ==
    \/ n.round = -1 /\ \A q \in n.equations : RootAt(q) \/ \E j \in 0..k : Forever(q, j)
    \/ n.round \in 0..k /\ \A q \in n.equations : InRound(q, n.round)
EquationsInv ==
    /\ stage = "built" => \A n \in nodes : n.round = -1 /\ n.loc \in Loc /\ n.equations = Node(n.loc).equations
    /\ Unwound => current \in Nat /\ \A n \in nodes : KnownNode(n, current)

LEMMA BuildEquations == ASSUME ProgramOK, Build PROVE EquationsInv'
<1>1. nodes' = {Node(l) : l \in Loc} /\ stage' = "built" /\ goto' = goto /\ defs' = defs /\ phis' = phis /\ Loc' = Loc
  BY DEF Build, Loc
<1>2. \A l \in Loc : Node(l).loc = l /\ Node(l).round = -1
  BY DEF Node
<1>3. \A l : Node(l)' = Node(l)
  BY <1>1, NodeFixed
<1>. QED
  BY <1>1, <1>2, <1>3 DEF EquationsInv, Unwound, Over

LEMMA KnownFixed ==
    ASSUME goto' = goto, defs' = defs, phis' = phis
    PROVE  \A n, k : KnownNode(n, k)' <=> KnownNode(n, k)
BY CopiesFixed DEF KnownNode

LEMMA AddedIsKnown ==
    ASSUME ProgramOK, NEW k \in Nat, NEW n \in NodesAdded(k) PROVE KnownNode(n, k)
<1>1. k \in 0..k
  OBVIOUS
<1>. QED
  BY <1>1, NodesAddedAre DEF KnownNode

LEMMA InitEquations == ASSUME ProgramOK, EquationsInv, UnwinderInit PROVE EquationsInv'
<1>1. /\ nodes' = {n \in nodes : Around(n.loc) = {}} \cup NodesAdded(0) /\ stage = "built"
      /\ current' = 0 /\ stage' = "unwound" /\ goto' = goto /\ defs' = defs /\ phis' = phis
  BY DEF UnwinderInit
<1>2. ASSUME NEW n \in nodes, Around(n.loc) = {} PROVE KnownNode(n, 0)
  BY <1>1, <1>2 DEF EquationsInv, KnownNode, RootAt
<1>3. \A n \in NodesAdded(0) : KnownNode(n, 0)
  BY AddedIsKnown
<1>4. \A n \in nodes' : KnownNode(n, 0)'
  BY <1>1, <1>2, <1>3, KnownFixed
<1>. QED
  BY <1>1, <1>4 DEF EquationsInv, Unwound

LEMMA UnwindEquations == ASSUME ProgramOK, EquationsInv, Unwind PROVE EquationsInv'
<1>1. /\ nodes' = nodes \cup NodesAdded(current + 1) /\ stage = "unwound" /\ stage' = stage
      /\ current' = current + 1 /\ goto' = goto /\ defs' = defs /\ phis' = phis
  BY DEF Unwind
<1>2. current \in Nat /\ \A n \in nodes : KnownNode(n, current)
  BY <1>1 DEF EquationsInv, Unwound
<1>3. 0..current \subseteq 0..(current + 1) /\ current + 1 \in Nat
  BY <1>2
<1>4. \A n \in nodes : KnownNode(n, current + 1)
  BY <1>2, <1>3 DEF KnownNode
<1>5. \A n \in NodesAdded(current + 1) : KnownNode(n, current + 1)
  BY <1>3, AddedIsKnown
<1>6. \A n \in nodes' : KnownNode(n, current)'
  BY <1>1, <1>4, <1>5, KnownFixed
<1>. QED
  BY <1>1, <1>3, <1>6 DEF EquationsInv, Unwound

LEMMA EquationsKept ==
    ASSUME EquationsInv, UNCHANGED <<goto, defs, phis, nodes, current>>, stage' # "built", Unwound' => Unwound
    PROVE  EquationsInv'
BY KnownFixed DEF EquationsInv

(* A guard is true exactly if the execution comes to its location, in that *)
(* copy: for all functions, numbers of loops and rounds, and however the   *)
(* loops nest, the equations of the guards hold for what an execution has  *)
(* come to when it ends, is blocked or runs out of copies.                 *)
THEOREM GuardsFollowTheExecution ==
    ExecutionSpec /\ []Structured /\ []JumpsOK => []GuardsAgree
<1>. DEFINE Inv == TypeInv /\ CopiesInv /\ WalkInv /\ EquationsInv
<1>1. Init /\ Structured => Inv
  <2>1. Init => CopiesInv
    BY DEF Init, AnalysisInit, CopiesInv, ContinuationExact, Over
  <2>2. Init => WalkInv /\ EquationsInv
    BY DEF Init, AnalysisInit, WalkInv, EquationsInv, Unwound, Over
  <2>. QED
    BY <2>1, <2>2, InitTypes DEF Structured
<1>2. Inv /\ Structured /\ JumpsOK /\ [ExecutionNext]_vars => Inv'
  <2>1. SUFFICES ASSUME TypeInv, CopiesInv, WalkInv, EquationsInv, Structured, JumpsOK, [ExecutionNext]_vars
                 PROVE Inv'
    OBVIOUS
  <2>2. ProgramOK /\ (stage # "analyse" => NamesOfLoop)
    BY <2>1 DEF Structured
  <2>3. TypeInv' /\ CopiesInv'
    BY <2>1, NextTypes, NextCopies
  <2>4. CASE Analyse
    BY <2>3, <2>4 DEF Analyse, Visit, WalkInv, EquationsInv, Unwound, Over
  <2>5. CASE BuildSSA
    <3>1. EquationsInv'
      BY <2>2, <2>5, BuildEquations DEF BuildSSA
    <3>. QED
      BY <2>3, <2>5, <3>1 DEF BuildSSA, Build, WalkInv, Over
  <2>6. CASE InitUnwinder
    <3>1. EquationsInv'
      BY <2>1, <2>2, <2>6, InitEquations DEF InitUnwinder
    <3>. QED
      BY <2>3, <2>6, <3>1 DEF InitUnwinder, UnwinderInit, WalkInv, Over
  <2>7. CASE UnwindAll
    <3>1. EquationsInv'
      BY <2>1, <2>2, <2>7, UnwindEquations DEF UnwindAll
    <3>. QED
      BY <2>3, <2>7, <3>1 DEF UnwindAll, Unwind, WalkInv, Over
  <2>8. CASE StartWalk
    <3>1. EquationsInv'
      BY <2>1, <2>8, EquationsKept DEF StartWalk, Unwound
    <3>2. WalkInv'
      BY <2>1, <2>2, <2>8, StartWalks
    <3>. QED
      BY <2>3, <3>1, <3>2
  <2>9. CASE Step
    <3>1. EquationsInv'
      <4>1. stage = "walk" /\ UNCHANGED <<goto, defs, phis, nodes, current>> /\ stage' # "built"
        BY <2>9 DEF Step
      <4>. QED
        BY <2>1, <4>1, EquationsKept DEF Unwound
    <3>2. WalkInv'
      BY <2>1, <2>2, <2>9, StepWalks DEF Step
    <3>. QED
      BY <2>3, <3>1, <3>2
  <2>10. CASE Return
    <3>1. EquationsInv'
      BY <2>1, <2>10, EquationsKept DEF Return, Unwound
    <3>2. WalkInv'
      BY <2>1, <2>2, <2>10, ReturnWalks
    <3>. QED
      BY <2>3, <3>1, <3>2
  <2>11. CASE UNCHANGED vars
    <3>1. UNCHANGED <<goto, defs, phis, nodes, current, stage, at, odo, val>>
      BY <2>11 DEF vars, unwinderVars, ssaVars, walkVars
    <3>2. EquationsInv'
      BY <2>1, <3>1, NodeFixed, KnownFixed, ProgramFixed DEF EquationsInv, Unwound, Over
    <3>3. WalkInv'
      BY <2>1, <3>1, WalkedFixed DEF WalkInv, Over
    <3>. QED
      BY <2>3, <3>2, <3>3
  <2>. QED
    BY <2>1, <2>4, <2>5, <2>6, <2>7, <2>8, <2>9, <2>10, <2>11 DEF ExecutionNext
<1>3. Inv /\ Structured /\ JumpsOK => GuardsAgree
  <2>1. SUFFICES ASSUME Inv, Structured, JumpsOK, Over,
                        NEW q \in Equations, Relevant(q), q.lhs.obj = "$guard"
                 PROVE  Agrees(q)
    BY DEF GuardsAgree
  <2>2. ProgramOK /\ NamesOfLoop /\ current \in Nat /\ Ended(val) /\ TypeInv
    BY <2>1 DEF Structured, Over, EquationsInv, Unwound, WalkInv
  <2>3. PICK n \in nodes : n.round \in {-1, current} /\ q \in n.equations
    BY DEF Equations, Enabled
  <2>4. \/ RootAt(q) \/ \E j \in 0..current : Forever(q, j)
        \/ InRound(q, current)
    <3>1. KnownNode(n, current)
      BY <2>1 DEF EquationsInv, Unwound
    <3>2. -1 \notin 0..current
      BY <2>2
    <3>. QED
      BY <2>3, <3>1, <3>2 DEF KnownNode
  <2>5. GuardHolds(val, q)
    <3>1. CASE RootAt(q)
      BY <2>1, <2>2, <3>1, RootHolds
    <3>2. ASSUME NEW j \in 0..current, Forever(q, j) PROVE GuardHolds(val, q)
      BY <2>1, <2>2, <3>2, ForeverHolds
    <3>3. CASE InRound(q, current)
      <4>1. q.lhs.loc # 0
        <5>1. Around(q.lhs.loc) # {}
          BY <2>2, <3>3, RoundIsInLoop
        <5>2. PICK e \in Around(q.lhs.loc) : TRUE
          BY <5>1
        <5>. QED
          BY <2>2, AroundIs, LoopIs, HeadIsLoc
      <4>2. OfCopy(q.lhs)
        BY <2>1, <4>1 DEF Relevant, OfCopy
      <4>. QED
        BY <2>1, <2>2, <3>3, <4>2, RoundHolds
    <3>. QED
      BY <2>4, <3>1, <3>2, <3>3
  <2>. QED
    BY <2>5 DEF GuardHolds, Agrees
<1>. QED
  BY <1>1, <1>2, <1>3, PTL DEF ExecutionSpec
=============================================================================
