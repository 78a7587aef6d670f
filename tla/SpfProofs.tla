------------------------------ MODULE SpfProofs -----------------------------
(***************************************************************************)
(* Proofs about SpfWalk, for trees of any shape and size and any limits:   *)
(* what a walk may cost, what it says when it is given up, and that what   *)
(* it counts and finds is what there is in the tree.                       *)
(***************************************************************************)
EXTENDS SpfTree, SequenceTheorems, FiniteSetTheorems, TLAPS

-----------------------------------------------------------------------------
(***************************************************************************)
(* Types.                                                                  *)
(***************************************************************************)
Vias == {"root", "include", "redirect", "lookup", "opaque"}
Outcomes == Missing \cup {"ok", "temperror", "cycle", "limit", "macro_unexpanded", "void"}
PermErrors == {"", "syntax", "over_term_limit", "multiple_records", "include_no_record",
               "over_void_limit"}

Node == [parent : Names \cup {NoName}, target : Names \cup {NoName}, via : Vias,
         depth : Int, outcome : Outcomes, termAt : Nat]

BrokenTarget == [parent : Names, target : Names, via : Vias, reason : Missing]

\* The lists of a result.
Nodes == Seq(Node)
Includes == Seq(Names)
BrokenTargets == Seq(BrokenTarget)
Cycles == Seq(Seq(Names))

Result ==
    [found : BOOLEAN, all : BOOLEAN, terms : Nat, termsExact : BOOLEAN, void : Nat,
     nodes : Nodes, includes : Includes, broken : BrokenTargets, cycles : Cycles,
     permError : PermErrors, tempError : BOOLEAN]

\* redirect: none, or the term that was noted.
FrameType == [name : Names, next : Nat \ {0}, redirect : {<<>>} \cup {<<t>> : t \in Term}]

Typed ==
    /\ zone \in [Names -> Published]
    /\ lim \in [terms : Nat, void : Nat, depth : Nat]
    /\ started \in BOOLEAN
    /\ stack \in Seq(FrameType)
    /\ out \in Result

\* What a walk on its way knows of the record on top.
LEMMA TopTypes ==
    ASSUME Typed, stack # <<>>
    PROVE  /\ Len(stack) \in Nat \ {0}
           /\ Top = stack[Len(stack)] /\ Top \in FrameType
           /\ Top.name \in Names /\ Depth \in Nat /\ Depth = Len(stack) - 1
           /\ Terms \in Seq(Term) /\ Top.next \in Nat \ {0}
           /\ Path \in Seq(Names)
           /\ \A t \in Names : Append(Path, t) \in Seq(Names)
  <1>1. stack \in Seq(FrameType) /\ Len(stack) \in Nat \ {0}
    BY DEF Typed
  <1>2. Top = stack[Len(stack)] /\ Top \in FrameType
    BY <1>1 DEF Top, Last
  <1>3. Top.name \in Names /\ Top.next \in Nat \ {0}
    BY <1>2 DEF FrameType
  <1>4. zone[Top.name] \in Published
    BY <1>3 DEF Typed
  <1>5. Terms \in Seq(Term)
    <2>1. Records \subseteq Seq(Term)
      BY WalkAssumption
    <2>2. <<>> \in Seq(Term)
      OBVIOUS
    <2>3. \A r \in Published : r.terms \in Records \cup {<<>>}
      BY DEF Published
    <2> QED BY <1>4, <2>1, <2>2, <2>3 DEF Terms
  <1>6. Path \in Seq(Names)
    <2>1. \A i \in 1 .. Len(stack) : stack[i] \in FrameType
      BY <1>1
    <2>2. \A f \in FrameType : f.name \in Names
      BY DEF FrameType
    <2> QED BY <1>1, <2>1, <2>2 DEF Path
  <1> QED BY <1>1, <1>2, <1>3, <1>5, <1>6 DEF Depth

LEMMA CountedType ==
    ASSUME Typed
    PROVE  /\ Counted \in Result /\ Counted.terms = out.terms + 1
           /\ Counted.nodes = out.nodes /\ Counted.permError = out.permError
           /\ Counted.tempError = out.tempError /\ Counted.termsExact = out.termsExact
  BY DEF Typed, Counted, Result

\* A visit adds one node and changes nothing else.
LEMMA VisitType ==
    ASSUME Typed, stack # <<>>, NEW o \in Result, NEW target \in Names \cup {NoName},
           NEW via \in Vias, NEW outcome \in Outcomes
    PROVE  LET v == Visit(o, target, via, outcome)
           IN  /\ v \in Result /\ v.terms = o.terms /\ Len(v.nodes) = Len(o.nodes) + 1
               /\ v.permError = o.permError /\ v.tempError = o.tempError
               /\ v.termsExact = o.termsExact
  <1> DEFINE node == [parent |-> Top.name, target |-> target, via |-> via,
                      depth |-> Depth + 1, outcome |-> outcome, termAt |-> o.terms]
  <1>1. node \in Node
    BY TopTypes DEF Node, Result
  <1>2. Append(o.nodes, node) \in Nodes /\ Len(Append(o.nodes, node)) = Len(o.nodes) + 1
    BY <1>1 DEF Result, Nodes
  <1>3. Visit(o, target, via, outcome) = [o EXCEPT !.nodes = Append(o.nodes, node)]
    BY DEF Visit
  <1> HIDE DEF node
  <1> QED BY <1>2, <1>3 DEF Result

LEMMA ReachedType ==
    ASSUME Typed, NEW target \in Names
    PROVE  /\ Reached(target) \in Result /\ Reached(target).terms = out.terms + 1
           /\ Reached(target).nodes = out.nodes
           /\ Reached(target).permError = out.permError
           /\ Reached(target).tempError = out.tempError
           /\ Reached(target).termsExact = out.termsExact
  <1> DEFINE new == IF Contains(Counted.includes, target) THEN Counted.includes
                    ELSE Append(Counted.includes, target)
  <1>1. Counted.includes \in Seq(Names)
    BY CountedType DEF Result, Includes
  <1>2. new \in Includes
    BY <1>1 DEF Includes
  <1>3. Reached(target) = [Counted EXCEPT !.includes = new]
    BY DEF Reached
  <1> HIDE DEF new
  <1> QED BY <1>2, <1>3, CountedType DEF Result

LEMMA FailedType ==
    ASSUME NEW o \in Result
    PROVE  /\ Failed(o) \in Result /\ Failed(o).terms = o.terms
           /\ Failed(o).nodes = o.nodes /\ Failed(o).permError = o.permError
           /\ Failed(o).tempError /\ ~Failed(o).termsExact
  BY DEF Failed, Result

\* Reading on, noting a redirect and forgetting it change the frame on top.
LEMMA StackTypes ==
    ASSUME Typed, stack # <<>>
    PROVE  /\ Advanced \in Seq(FrameType) /\ Len(Advanced) = Len(stack)
           /\ Front(stack) \in Seq(FrameType) /\ Len(Front(stack)) = Len(stack) - 1
           /\ LET forgetting == [stack EXCEPT ![Len(stack)].redirect = <<>>]
              IN  forgetting \in Seq(FrameType) /\ Len(forgetting) = Len(stack)
           /\ \A t \in Term :
                 LET noting == [Advanced EXCEPT ![Len(stack)].redirect = <<t>>]
                 IN  noting \in Seq(FrameType) /\ Len(noting) = Len(stack)
  <1>1. /\ stack \in Seq(FrameType) /\ Len(stack) \in Nat \ {0}
        /\ stack[Len(stack)] \in FrameType
    BY TopTypes DEF Typed
  <1>2. \A f \in FrameType : /\ [f EXCEPT !.next = f.next + 1] \in FrameType
                             /\ [f EXCEPT !.redirect = <<>>] \in FrameType
                             /\ \A t \in Term : [f EXCEPT !.redirect = <<t>>] \in FrameType
    BY DEF FrameType
  <1>3. \A s \in Seq(FrameType), n \in Nat, f \in FrameType :
           n \in 1 .. Len(s) => /\ [s EXCEPT ![n] = f] \in Seq(FrameType)
                                /\ Len([s EXCEPT ![n] = f]) = Len(s)
                                /\ [s EXCEPT ![n] = f][n] = f
    OBVIOUS
  <1>4. Len(stack) \in 1 .. Len(stack)
    BY <1>1
  <1>5. Advanced = [stack EXCEPT ![Len(stack)] = [stack[Len(stack)] EXCEPT !.next = stack[Len(stack)].next + 1]]
    BY <1>1 DEF Advanced
  <1>6. /\ Advanced \in Seq(FrameType) /\ Len(Advanced) = Len(stack)
        /\ Advanced[Len(stack)] \in FrameType
    <2>1. PICK f \in FrameType : f = [stack[Len(stack)] EXCEPT !.next = stack[Len(stack)].next + 1]
      BY <1>1, <1>2
    <2>2. Advanced = [stack EXCEPT ![Len(stack)] = f] /\ stack \in Seq(FrameType)
      BY <1>1, <1>5, <2>1
    <2> QED BY <1>1, <1>3, <1>4, <2>2
  <1>7. [stack EXCEPT ![Len(stack)].redirect = <<>>]
           = [stack EXCEPT ![Len(stack)] = [stack[Len(stack)] EXCEPT !.redirect = <<>>]]
    BY <1>1
  <1>8. LET forgetting == [stack EXCEPT ![Len(stack)].redirect = <<>>]
        IN  forgetting \in Seq(FrameType) /\ Len(forgetting) = Len(stack)
    BY <1>1, <1>2, <1>3, <1>4, <1>7
  <1>9. ASSUME NEW t \in Term
        PROVE  LET noting == [Advanced EXCEPT ![Len(stack)].redirect = <<t>>]
               IN  noting \in Seq(FrameType) /\ Len(noting) = Len(stack)
    <2>1. [Advanced EXCEPT ![Len(stack)].redirect = <<t>>]
             = [Advanced EXCEPT ![Len(stack)] = [Advanced[Len(stack)] EXCEPT !.redirect = <<t>>]]
      BY <1>6
    <2> QED BY <1>1, <1>2, <1>3, <1>4, <1>6, <2>1
  <1>10. Front(stack) \in Seq(FrameType) /\ Len(Front(stack)) = Len(stack) - 1
    <2> DEFINE m == Len(stack) - 1
    <2>1. Front(stack) = SubSeq(stack, 1, m)
      BY DEF Front
    <2>2. m \in Int /\ \A i \in 1 .. m : stack[i] \in FrameType
      BY <1>1
    <2>3. /\ SubSeq(stack, 1, m) \in Seq(FrameType)
          /\ Len(SubSeq(stack, 1, m)) = IF 1 <= m THEN m - 1 + 1 ELSE 0
      <3> HIDE DEF m
      <3> QED BY <2>2, SubSeqProperties
    <2>4. m \in Nat
      BY <1>1
    <2>5. Len(SubSeq(stack, 1, m)) = m
      <3> HIDE DEF m
      <3> QED BY <2>3, <2>4
    <2> QED BY <2>1, <2>3, <2>5
  <1> QED BY <1>6, <1>8, <1>9, <1>10

-----------------------------------------------------------------------------
(***************************************************************************)
(* The inductive invariant.  LimitVerdict speaks of walks that are over; a *)
(* walk on its way is within the limit and has had no reason to stop.      *)
(***************************************************************************)
Fresh == ~started => stack = <<>> /\ out = EmptyResult

Going ==
    stack # <<>> => /\ started
                    /\ out.terms <= lim.terms
                    /\ ~out.tempError

\* Counting stops one term past the limit, and that is the verdict.
Verdict ==
    /\ out.terms <= lim.terms + 1
    /\ out.permError = "over_term_limit" <=> out.terms > lim.terms
    /\ out.permError = "over_term_limit" => ~out.tempError /\ ~out.termsExact

IInv == Typed /\ Fresh /\ Going /\ Verdict /\ WorkBounded

\* What a step may do to a walk: nothing that costs,
Costless ==
    /\ out'.terms = out.terms /\ Len(out'.nodes) = Len(out.nodes)
    /\ out'.permError = out.permError /\ out'.tempError = out.tempError
    /\ out'.termsExact = out.termsExact
    /\ Len(stack') <= Len(stack)

\* reach the limit, and end,
GivenUp ==
    /\ out'.terms = out.terms + 1 /\ out'.terms > lim.terms
    /\ Len(out'.nodes) <= Len(out.nodes) + 1
    /\ out'.permError = "over_term_limit" /\ out'.tempError = out.tempError
    /\ ~out'.termsExact
    /\ stack' = <<>>

\* or spend a term, for one node at most.
PaidFor ==
    /\ out'.terms = out.terms + 1 /\ out'.terms <= lim.terms
    /\ Len(out'.nodes) <= Len(out.nodes) + 1
    /\ out'.permError # "over_term_limit"
    /\ out'.tempError = out.tempError \/ stack' = <<>>
    /\ Len(stack') <= lim.depth + 1

LEMMA OutcomeStep ==
    ASSUME IInv, stack # <<>>, Typed', UNCHANGED <<lim, started>>,
           Costless \/ GivenUp \/ PaidFor
    PROVE  IInv'
  <1>1. /\ lim.terms \in Nat /\ lim.depth \in Nat /\ out.terms \in Nat /\ out'.terms \in Nat
        /\ Len(out.nodes) \in Nat /\ Len(out'.nodes) \in Nat
        /\ Len(stack) \in Nat /\ Len(stack') \in Nat
        /\ out.termsExact \in BOOLEAN /\ out'.termsExact \in BOOLEAN
        /\ out.tempError \in BOOLEAN /\ out'.tempError \in BOOLEAN
    BY DEF IInv, Typed, Result, Nodes
  <1>2. /\ started /\ out.terms <= lim.terms /\ ~out.tempError
        /\ Len(out.nodes) <= out.terms + 1 /\ Len(stack) <= lim.depth + 1
        /\ out.permError # "over_term_limit"
    BY <1>1 DEF IInv, Going, Verdict, WorkBounded
  <1>3. Len(<<>>) = 0
    OBVIOUS
  <1>4. CASE Costless
    <2>1. Fresh' /\ Going'
      <3>1. Fresh'
        BY <1>2 DEF Fresh
      <3>2. Going'
        BY <1>1, <1>2, <1>4, SMTT(40) DEF Costless, Going
      <3> QED BY <3>1, <3>2
    <2>2. Verdict'
      BY <1>1, <1>2, <1>4 DEF Costless, IInv, Verdict
    <2>3. WorkBounded'
      BY <1>1, <1>2, <1>4 DEF Costless, WorkBounded
    <2> QED BY <2>1, <2>2, <2>3 DEF IInv
  <1>5. CASE GivenUp
    <2>1. Fresh' /\ Going'
      <3>1. Fresh'
        BY <1>2 DEF Fresh
      <3>2. Going'
        BY <1>1, <1>2, <1>3, <1>5, SMTT(40) DEF GivenUp, Going
      <3> QED BY <3>1, <3>2
    <2>2. Verdict'
      BY <1>1, <1>2, <1>3, <1>5 DEF GivenUp, IInv, Verdict
    <2>3. WorkBounded'
      <3>1. Len(stack') = 0 /\ Len(stack') <= lim.depth + 1
        BY <1>1, <1>3, <1>5 DEF GivenUp
      <3>2. Len(out'.nodes) <= out'.terms + 1
        BY <1>1, <1>2, <1>5 DEF GivenUp
      <3> QED BY <3>1, <3>2 DEF WorkBounded
    <2> QED BY <2>1, <2>2, <2>3 DEF IInv
  <1>6. CASE PaidFor
    <2>1. Fresh' /\ Going'
      <3>1. Fresh'
        BY <1>2 DEF Fresh
      <3>2. Going'
        BY <1>1, <1>2, <1>6, SMTT(40) DEF PaidFor, Going
      <3> QED BY <3>1, <3>2
    <2>2. Verdict'
      BY <1>1, <1>2, <1>6 DEF PaidFor, IInv, Verdict
    <2>3. WorkBounded'
      BY <1>1, <1>2, <1>6 DEF PaidFor, WorkBounded
    <2> QED BY <2>1, <2>2, <2>3 DEF IInv
  <1> QED BY <1>4, <1>5, <1>6

-----------------------------------------------------------------------------
(***************************************************************************)
(* The steps.                                                              *)
(***************************************************************************)

\* A walk that has not reached the limit.
LEMMA Within ==
    ASSUME IInv, stack # <<>>, ~OverLimit
    PROVE  /\ Typed /\ out.permError # "over_term_limit" /\ out.tempError \in BOOLEAN
           /\ lim.terms \in Nat /\ lim.depth \in Nat /\ out.terms \in Nat /\ Len(out.nodes) \in Nat
           /\ out.terms + 1 <= lim.terms
           /\ Len(stack) <= lim.depth + 1 /\ Len(stack) \in Nat /\ Depth = Len(stack) - 1
  <1>1. Typed
    BY DEF IInv
  <1>2. /\ lim.terms \in Nat /\ lim.depth \in Nat /\ out.terms \in Nat /\ Len(out.nodes) \in Nat
        /\ out.tempError \in BOOLEAN
    BY <1>1 DEF Typed, Result, Nodes
  <1>3. out.terms + 1 <= lim.terms
    BY <1>1, <1>2, CountedType DEF OverLimit
  <1> QED BY <1>1, <1>2, <1>3, TopTypes DEF IInv, Going, Verdict, WorkBounded

\* A term that is within the limit, with one node for it.
LEMMA PaidNode ==
    ASSUME IInv, stack # <<>>, ~OverLimit, UNCHANGED <<zone, lim, started>>,
           NEW o \in Result, o.terms = out.terms + 1, o.nodes = out.nodes,
           o.permError # "over_term_limit", o.tempError = out.tempError \/ stack' = <<>>,
           NEW target \in Names \cup {NoName}, NEW via \in Vias, NEW outcome \in Outcomes,
           out' = Visit(o, target, via, outcome),
           stack' \in Seq(FrameType), Len(stack') <= lim.depth + 1
    PROVE  Typed' /\ PaidFor
  <1> DEFINE v == Visit(o, target, via, outcome)
  <1>1. Typed /\ Len(out.nodes) \in Nat /\ out.terms + 1 <= lim.terms
    BY Within
  <1>2. /\ v \in Result /\ v.terms = o.terms /\ Len(v.nodes) = Len(o.nodes) + 1
        /\ v.permError = o.permError /\ v.tempError = o.tempError
    BY <1>1, VisitType
  <1>3. out' = v
    OBVIOUS
  <1> HIDE DEF v
  <1>4. Len(v.nodes) <= Len(out.nodes) + 1
    BY <1>1, <1>2
  <1> QED BY <1>1, <1>2, <1>3, <1>4 DEF Typed, PaidFor

\* Following a target, whichever way it goes, costs a term and one node.
LEMMA DescendStep ==
    ASSUME IInv, stack # <<>>, ~OverLimit,
           NEW rest \in Seq(FrameType), Len(rest) = Len(stack),
           NEW target \in Names \cup {NoName}, NEW via \in Vias,
           Descend(rest, target, via), UNCHANGED <<zone, lim, started>>
    PROVE  Typed' /\ PaidFor
  <1>0. /\ Typed /\ out.permError # "over_term_limit" /\ out.tempError \in BOOLEAN
        /\ lim.terms \in Nat /\ lim.depth \in Nat /\ out.terms \in Nat /\ Len(out.nodes) \in Nat
        /\ out.terms + 1 <= lim.terms
        /\ Len(stack) <= lim.depth + 1 /\ Len(stack) \in Nat /\ Depth = Len(stack) - 1
    BY Within
  <1>1. /\ Top.name \in Names /\ Path \in Seq(Names)
        /\ \A t \in Names : Append(Path, t) \in Seq(Names)
    BY <1>0, TopTypes
  <1>2. Len(<<>>) = 0 /\ <<>> \in Seq(FrameType)
    OBVIOUS
  <1>3. \A i \in 1 .. Len(Path) : Path[i] \in Names
    BY <1>1
  <1>4. target \in Names \/ target = NoName
    OBVIOUS
  \* It is enough to look at the result and at the stack.
  <1>5. ASSUME NEW o \in Result, out' = o, o.terms = out.terms + 1,
               Len(o.nodes) <= Len(out.nodes) + 1, o.permError # "over_term_limit",
               o.tempError = out.tempError \/ stack' = <<>>,
               stack' \in Seq(FrameType), Len(stack') <= lim.depth + 1
        PROVE  Typed' /\ PaidFor
    BY <1>0, <1>5 DEF Typed, PaidFor
  <1>6. /\ \A outcome \in {"ok", "temperror", "cycle", "limit"} : outcome \in Outcomes
        /\ \A outcome \in Missing : outcome \in Outcomes
    BY DEF Outcomes
  <1>7. CASE NoTarget(rest, target)
    <2> DEFINE o == [Counted EXCEPT !.permError = "syntax"]
    <2>1. out' = o /\ stack' = rest
      BY <1>7 DEF NoTarget
    <2>2. /\ o \in Result /\ o.terms = out.terms + 1 /\ o.nodes = out.nodes
          /\ o.permError = "syntax" /\ o.tempError = out.tempError
      BY <1>0, CountedType DEF Result, PermErrors
    <2> HIDE DEF o
    <2>3. Len(o.nodes) <= Len(out.nodes) + 1
      BY <1>0, <2>2
    <2> QED BY <1>0, <1>5, <2>1, <2>2, <2>3
  <1>8. CASE OnPath(rest, target, via)
    <2> DEFINE r == Reached(target)
               o == [r EXCEPT !.cycles = Append(r.cycles, Append(Path, target))]
    <2>1. target \in Names
      BY <1>3, <1>8 DEF OnPath, Contains
    <2>2. Append(r.cycles, Append(Path, target)) \in Cycles
      BY <1>0, <1>1, <2>1, ReachedType DEF Result, Cycles
    <2>3. /\ o \in Result /\ o.terms = out.terms + 1 /\ o.nodes = out.nodes
          /\ o.permError = out.permError /\ o.tempError = out.tempError
      <3> HIDE DEF r
      <3> QED BY <1>0, <2>1, <2>2, ReachedType DEF Result, r
    <2>4. out' = Visit(o, target, via, "cycle") /\ stack' = rest
      BY <1>8 DEF OnPath
    <2> HIDE DEF o
    <2> QED BY <1>0, <1>6, PaidNode, <2>3, <2>4
  <1>9. CASE TooDeep(target, via)
    <2> DEFINE o == [Reached(target) EXCEPT !.termsExact = FALSE]
    <2>1. target \in Names
      BY <1>9 DEF TooDeep
    <2>2. /\ o \in Result /\ o.terms = out.terms + 1 /\ o.nodes = out.nodes
          /\ o.permError = out.permError /\ o.tempError = out.tempError
      BY <1>0, <2>1, ReachedType DEF Result
    <2>3. out' = Visit(o, target, via, "limit") /\ stack' = <<>>
      BY <1>9 DEF TooDeep, Halted
    <2> HIDE DEF o
    <2>4. stack' \in Seq(FrameType) /\ Len(stack') <= lim.depth + 1
      BY <1>0, <1>2, <2>3
    <2>5. "limit" \in Outcomes
      BY <1>6
    <2> QED BY <2>1, <2>2, <2>3, <2>4, <2>5, <1>0, PaidNode
  <1>10. CASE Unanswered(target, via)
    <2>1. target \in Names
      BY <1>10 DEF Unanswered, LooksUp
    <2>2. out' = Visit(Failed(Reached(target)), target, via, "temperror") /\ stack' = <<>>
      BY <1>10 DEF Unanswered, Halted
    <2>3. /\ Failed(Reached(target)) \in Result
          /\ Failed(Reached(target)).terms = out.terms + 1
          /\ Failed(Reached(target)).nodes = out.nodes
          /\ Failed(Reached(target)).permError = out.permError
      BY <1>0, <2>1, ReachedType, FailedType
    <2>4. stack' \in Seq(FrameType) /\ Len(stack') <= lim.depth + 1
      BY <1>0, <1>2, <2>2
    <2>5. "temperror" \in Outcomes
      BY <1>6
    <2> DEFINE o == Failed(Reached(target))
    <2>6. /\ o \in Result /\ o.terms = out.terms + 1 /\ o.nodes = out.nodes
          /\ o.permError # "over_term_limit"
          /\ out' = Visit(o, target, via, "temperror")
      BY <1>0, <2>2, <2>3
    <2> HIDE DEF o
    <2> QED BY <2>1, <2>2, <2>4, <2>5, <2>6, PaidNode
  <1>11. CASE Broken(rest, target, via)
    <2> DEFINE r == Reached(target)
               b == [parent |-> Top.name, target |-> target, via |-> via,
                     reason |-> zone[target].outcome]
               r1 == [r EXCEPT !.broken = Append(r.broken, b)]
               error == IF r1.permError = "" THEN "include_no_record" ELSE r1.permError
               o == [r1 EXCEPT !.permError = error]
    <2>1. target \in Names /\ zone[target].outcome \in Missing
      BY <1>11 DEF Broken, LooksUp
    <2>2. zone[target].outcome \in Outcomes
      BY <1>6, <2>1
    <2>3. Append(r.broken, b) \in BrokenTargets
      <3>1. b \in BrokenTarget
        BY <1>1, <2>1, <2>2 DEF BrokenTarget
      <3>2. r.broken \in Seq(BrokenTarget)
        BY <1>0, <2>1, ReachedType DEF Result, BrokenTargets
      <3> HIDE DEF b, r
      <3> QED BY <3>1, <3>2 DEF BrokenTargets
    <2>4. out' = Visit(o, target, via, zone[target].outcome) /\ stack' = rest
      BY <1>11 DEF Broken
    <2>5. /\ r1 \in Result /\ r1.terms = out.terms + 1 /\ r1.nodes = out.nodes
          /\ r1.permError = out.permError /\ r1.tempError = out.tempError
      <3> HIDE DEF r, b
      <3> QED BY <1>0, <2>1, <2>3, ReachedType DEF Result, r
    <2> HIDE DEF r1
    <2>6. error \in PermErrors /\ error # "over_term_limit"
      <3>1. r1.permError \in PermErrors /\ r1.permError # "over_term_limit"
        BY <1>0, <2>5 DEF Result
      <3> QED BY <3>1 DEF PermErrors
    <2> HIDE DEF error
    <2>7. /\ o \in Result /\ o.terms = out.terms + 1 /\ o.nodes = out.nodes
          /\ o.permError # "over_term_limit" /\ o.tempError = out.tempError
      BY <1>0, <2>5, <2>6 DEF Result
    <2> HIDE DEF o
    <2> QED BY <1>0, <1>6, PaidNode, <2>2, <2>4, <2>7
  <1>12. CASE Enter(rest, target, via)
    <2>1. target \in Names /\ Depth + 1 <= lim.depth
      BY <1>12 DEF Enter, LooksUp
    <2>2. out' = Visit(Reached(target), target, via, "ok") /\ stack' = Append(rest, Frame(target))
      BY <1>12 DEF Enter
    <2>3. Frame(target) \in FrameType
      BY <2>1 DEF Frame, FrameType
    <2>4. stack' \in Seq(FrameType) /\ Len(stack') = Len(stack) + 1
      BY <2>2, <2>3
    <2>5. Len(stack') <= lim.depth + 1
      BY <1>0, <2>1, <2>4
    <2> DEFINE r == Reached(target)
    <2>6. /\ r \in Result /\ r.terms = out.terms + 1 /\ r.nodes = out.nodes
          /\ r.permError = out.permError /\ r.tempError = out.tempError
      BY <1>0, <2>1, ReachedType
    <2>7. out' = Visit(r, target, via, "ok")
      BY <2>2
    <2> HIDE DEF r
    <2> QED BY <1>0, <1>6, PaidNode, <2>4, <2>5, <2>6, <2>7
  <1> QED BY <1>7, <1>8, <1>9, <1>10, <1>11, <1>12 DEF Descend

\* The terms that are not followed.
LEMMA TermStep ==
    ASSUME IInv, stack # <<>>,
           Free \/ NoteRedirect \/ All \/ Return \/ TermOverLimit \/ RedirectOverLimit
             \/ Opaque \/ Answered \/ Void \/ LookupFails
    PROVE  Typed' /\ (Costless \/ GivenUp \/ PaidFor)
  <1>0. /\ Typed /\ Len(stack) \in Nat /\ Len(stack) <= lim.depth + 1 /\ out \in Result
        /\ stack \in Seq(FrameType) /\ Len(out.nodes) \in Nat /\ out.terms \in Nat
        /\ Len(Advanced) = Len(stack) /\ Advanced \in Seq(FrameType)
    BY TopTypes, StackTypes, SMTT(40) DEF IInv, Typed, WorkBounded, Result, Nodes
  <1>1. Len(<<>>) = 0 /\ <<>> \in Seq(FrameType)
    OBVIOUS
  <1> DEFINE t == Terms[Top.next]
  <1>2. ASSUME NEW kinds, Reading(kinds)
        PROVE  /\ t \in Term /\ t.kind \in kinds /\ UNCHANGED <<zone, lim, started>>
               /\ ValueOrDomain(t) \in Names \cup {NoName}
    <2>1. Top.next \in 1 .. Len(Terms) /\ Terms \in Seq(Term) /\ Top.name \in Names
      BY <1>0, <1>2, TopTypes DEF Reading
    <2>2. t \in Term
      BY <2>1
    <2>3. t.target \in Names \cup {NoName}
      BY <2>2 DEF Term
    <2> QED BY <1>2, <2>1, <2>2, <2>3 DEF Reading, ValueOrDomain
  <1> HIDE DEF t
  <1>3. CASE Free
    <2>1. out' = out /\ stack' = Advanced /\ UNCHANGED <<zone, lim, started>>
      BY <1>3 DEF Free, Reading
    <2> QED BY <1>0, <2>1 DEF Typed, Costless
  <1>4. CASE NoteRedirect
    <2>1. out' = out /\ stack' = [Advanced EXCEPT ![Len(stack)].redirect = <<t>>]
      BY <1>4 DEF NoteRedirect, t
    <2>2. t \in Term /\ UNCHANGED <<zone, lim, started>>
      BY <1>2, <1>4 DEF NoteRedirect
    <2>3. stack' \in Seq(FrameType) /\ Len(stack') = Len(stack)
      BY <1>0, <2>1, <2>2, StackTypes
    <2> QED BY <1>0, <2>1, <2>2, <2>3 DEF Typed, Costless
  <1>5. CASE All
    <2>1. /\ stack' = Front(stack) /\ out' \in {out, [out EXCEPT !.all = TRUE]}
          /\ UNCHANGED <<zone, lim, started>>
      BY <1>5 DEF All, Reading
    <2>2. /\ out' \in Result /\ out'.terms = out.terms /\ out'.nodes = out.nodes
          /\ out'.permError = out.permError /\ out'.tempError = out.tempError
          /\ out'.termsExact = out.termsExact
      <3>1. CASE out' = out
        BY <1>0, <3>1
      <3>2. CASE out' = [out EXCEPT !.all = TRUE]
        BY <1>0, <3>2 DEF Result
      <3> QED BY <2>1, <3>1, <3>2
    <2>3. stack' \in Seq(FrameType) /\ Len(stack') <= Len(stack)
      BY <1>0, <2>1, StackTypes
    <2> QED BY <1>0, <2>1, <2>2, <2>3 DEF Typed, Costless
  <1>6. CASE Return
    <2>1. stack' = Front(stack) /\ out' = out /\ UNCHANGED <<zone, lim, started>>
      BY <1>6 DEF Return, AtEnd
    <2>2. stack' \in Seq(FrameType) /\ Len(stack') <= Len(stack)
      BY <1>0, <2>1, StackTypes
    <2> QED BY <1>0, <2>1, <2>2 DEF Typed, Costless
  <1>7. OverLimit =>
           /\ Stopped \in Result /\ Stopped.terms = out.terms + 1 /\ Stopped.terms > lim.terms
           /\ Stopped.nodes = out.nodes /\ Stopped.permError = "over_term_limit"
           /\ Stopped.tempError = out.tempError /\ ~Stopped.termsExact
    BY <1>0, CountedType DEF OverLimit, Stopped, Result, PermErrors
  <1>8. CASE TermOverLimit
    <2>1. /\ t \in Term /\ t.kind \in {"include", "lookup", "opaque"} /\ OverLimit
          /\ UNCHANGED <<zone, lim, started>> /\ ValueOrDomain(t) \in Names \cup {NoName}
      BY <1>2, <1>8 DEF TermOverLimit
    <2> DEFINE v == Visit(Stopped, ValueOrDomain(t), t.kind, "limit")
    <2>2. out' = v /\ stack' = <<>>
      BY <1>8 DEF TermOverLimit, Halted, t
    <2>3. t.kind \in Vias /\ "limit" \in Outcomes
      BY <2>1 DEF Vias, Outcomes
    <2>4. /\ v \in Result /\ v.terms = Stopped.terms /\ Len(v.nodes) = Len(Stopped.nodes) + 1
          /\ v.permError = Stopped.permError /\ v.tempError = Stopped.tempError
          /\ v.termsExact = Stopped.termsExact
      BY <1>0, <1>7, <2>1, <2>3, VisitType
    <2> HIDE DEF v
    <2>5. Len(v.nodes) <= Len(out.nodes) + 1
      BY <1>0, <1>7, <2>1, <2>4
    <2> QED BY <1>0, <1>1, <1>7, <2>1, <2>2, <2>4, <2>5 DEF Typed, GivenUp
  <1>9. CASE RedirectOverLimit
    <2>1. out' = Stopped /\ stack' = <<>> /\ OverLimit /\ UNCHANGED <<zone, lim, started>>
      BY <1>9 DEF RedirectOverLimit, AtEnd, Halted
    <2>2. Len(Stopped.nodes) <= Len(out.nodes) + 1
      BY <1>0, <1>7, <2>1
    <2> QED BY <1>0, <1>1, <1>7, <2>1, <2>2 DEF Typed, GivenUp
  <1>10. /\ "opaque" \in Vias /\ "lookup" \in Vias
         /\ \A x \in {"macro_unexpanded", "ok", "void", "temperror"} : x \in Outcomes
    BY DEF Vias, Outcomes
  <1>11. CASE Opaque
    <2>1. /\ ~OverLimit /\ UNCHANGED <<zone, lim, started>>
          /\ ValueOrDomain(t) \in Names \cup {NoName}
          /\ out' = Visit(Counted, ValueOrDomain(t), "opaque", "macro_unexpanded")
          /\ stack' = Advanced
      BY <1>2, <1>11 DEF Opaque, t
    <2> QED BY <1>0, <1>10, <2>1, CountedType, Within, PaidNode
  <1>12. CASE Answered
    <2>1. /\ ~OverLimit /\ UNCHANGED <<zone, lim, started>>
          /\ ValueOrDomain(t) \in Names \cup {NoName}
          /\ out' = Visit(Counted, ValueOrDomain(t), "lookup", "ok")
          /\ stack' = Advanced
      BY <1>2, <1>12 DEF Answered, t
    <2> QED BY <1>0, <1>10, <2>1, CountedType, Within, PaidNode
  <1>13. CASE Void
    <2> DEFINE r1 == [Counted EXCEPT !.void = Counted.void + 1]
               error == IF Counted.void + 1 > lim.void /\ r1.permError = ""
                        THEN "over_void_limit" ELSE r1.permError
               o == [r1 EXCEPT !.permError = error]
    <2>1. /\ ~OverLimit /\ UNCHANGED <<zone, lim, started>>
          /\ ValueOrDomain(t) \in Names \cup {NoName}
      BY <1>2, <1>13 DEF Void
    <2>2. out' = Visit(o, ValueOrDomain(t), "lookup", "void") /\ stack' = Advanced
      BY <1>13 DEF Void, t
    <2>3. /\ r1 \in Result /\ r1.terms = out.terms + 1 /\ r1.nodes = out.nodes
          /\ r1.permError = out.permError /\ r1.tempError = out.tempError
      <3> DEFINE new == Counted.void + 1
      <3>1. new \in Nat
        BY <1>0, CountedType DEF Result
      <3>2. r1 = [Counted EXCEPT !.void = new]
        OBVIOUS
      <3> HIDE DEF new, r1
      <3> QED BY <1>0, <3>1, <3>2, CountedType DEF Result
    <2> HIDE DEF r1
    <2>4. error \in PermErrors /\ error # "over_term_limit"
      <3>1. r1.permError \in PermErrors /\ r1.permError # "over_term_limit"
        BY <2>1, <2>3, Within DEF Result
      <3> QED BY <3>1 DEF PermErrors
    <2> HIDE DEF error
    <2>5. /\ o \in Result /\ o.terms = out.terms + 1 /\ o.nodes = out.nodes
          /\ o.permError # "over_term_limit" /\ o.tempError = out.tempError
      BY <2>3, <2>4 DEF Result
    <2> HIDE DEF o
    <2> QED BY <1>0, <1>10, <2>1, <2>2, <2>5, PaidNode
  <1>14. CASE LookupFails
    <2>1. /\ ~OverLimit /\ UNCHANGED <<zone, lim, started>>
          /\ ValueOrDomain(t) \in Names \cup {NoName}
          /\ out' = Visit(Failed(Counted), ValueOrDomain(t), "lookup", "temperror")
          /\ stack' = <<>>
      BY <1>2, <1>14 DEF LookupFails, Halted, t
    <2>2. /\ Failed(Counted) \in Result /\ Failed(Counted).terms = out.terms + 1
          /\ Failed(Counted).nodes = out.nodes
          /\ Failed(Counted).permError = out.permError
      BY <1>0, CountedType, FailedType
    <2>3. Len(stack') <= lim.depth + 1
      BY <1>1, <2>1, Within
    <2> QED BY <1>0, <1>1, <1>10, <2>1, <2>2, <2>3, Within, PaidNode
  <1> QED BY <1>3, <1>4, <1>5, <1>6, <1>8, <1>9, <1>11, <1>12, <1>13, <1>14

-----------------------------------------------------------------------------
(***************************************************************************)
(* The invariant.                                                          *)
(***************************************************************************)
LEMMA Initially == Init => IInv
  <1> SUFFICES ASSUME Init PROVE IInv
    OBVIOUS
  <1>1. /\ <<>> \in Nodes /\ <<>> \in Includes /\ <<>> \in BrokenTargets /\ <<>> \in Cycles
        /\ "" \in PermErrors /\ Len(<<>>) = 0
    BY DEF Nodes, Includes, BrokenTargets, Cycles, PermErrors
  <1>2. EmptyResult \in Result
    BY <1>1 DEF EmptyResult, Result
  <1>3. lim \in [terms : Nat, void : Nat, depth : Nat]
    BY WalkAssumption DEF Init
  <1>4. Typed
    <2>1. <<>> \in Seq(FrameType) /\ FALSE \in BOOLEAN
      OBVIOUS
    <2> QED BY <1>2, <1>3, <2>1 DEF Init, Typed
  <1>5. /\ out.terms = 0 /\ out.permError # "over_term_limit" /\ out.nodes = <<>> /\ stack = <<>>
        /\ ~started /\ out = EmptyResult
    BY DEF Init, EmptyResult
  <1>6. lim.terms \in Nat /\ lim.depth \in Nat
    BY <1>3
  <1>7. out.tempError = FALSE
    BY DEF Init, EmptyResult
  <1>8. Fresh /\ Going
    BY <1>5 DEF Fresh, Going
  <1>9. out.terms \in Nat /\ Len(out.nodes) = 0 /\ Len(stack) = 0
    <2>1. Len(out.nodes) = 0
      <3>1. out.nodes = <<>>
        BY <1>5
      <3> QED BY <3>1
    <2>2. Len(stack) = 0
      <3>1. stack = <<>>
        BY <1>5
      <3> QED BY <3>1
    <2>3. out.terms \in Nat
      BY <1>4 DEF Typed, Result
    <2> QED BY <2>1, <2>2, <2>3
  <1>10. /\ out.terms <= lim.terms + 1 /\ ~(out.terms > lim.terms)
         /\ Len(out.nodes) <= out.terms + 1 /\ Len(stack) <= lim.depth + 1
    BY <1>5, <1>6, <1>9
  <1>11. Verdict
    BY <1>5, <1>10 DEF Verdict
  <1>12. WorkBounded
    BY <1>10 DEF WorkBounded
  <1> QED BY <1>4, <1>8, <1>11, <1>12 DEF IInv

\* The walk begins with the root's record, which costs no term.
LEMMA StartStep == IInv /\ Start => IInv'
  <1> SUFFICES ASSUME IInv, Start PROVE IInv'
    OBVIOUS
  <1>1. /\ Typed /\ out = EmptyResult /\ started' /\ UNCHANGED <<zone, lim>>
        /\ started' \in BOOLEAN
    BY DEF IInv, Fresh, Start
  <1>2. /\ out \in Result /\ out.terms = 0 /\ out.permError # "over_term_limit" /\ out.nodes = <<>>
        /\ ~out.tempError /\ lim.terms \in Nat /\ lim.depth \in Nat
    BY <1>1 DEF EmptyResult, Typed
  <1>3. /\ RootSeen \in Result /\ RootSeen.terms = 0 /\ Len(RootSeen.nodes) = 1
        /\ RootSeen.permError # "over_term_limit" /\ ~RootSeen.tempError
    <2> DEFINE node == [parent |-> NoName, target |-> Root, via |-> "root", depth |-> 0,
                        outcome |-> zone[Root].outcome, termAt |-> 0]
    <2>1. zone[Root].outcome \in Outcomes
      <3>1. zone[Root] \in Published
        BY <1>1, WalkAssumption DEF Typed
      <3> QED BY <3>1 DEF Published, Outcomes
    <2>2. node \in Node
      BY <2>1, WalkAssumption DEF Node, Vias
    <2>3. RootSeen = [out EXCEPT !.nodes = <<node>>]
      BY DEF RootSeen
    <2> HIDE DEF node
    <2>4. <<node>> \in Nodes /\ Len(<<node>>) = 1
      BY <2>2 DEF Nodes
    <2> QED BY <1>2, <2>3, <2>4 DEF Result
  <1>4. Frame(Root) \in FrameType
    BY WalkAssumption DEF Frame, FrameType
  <1>5. Len(<<>>) = 0 /\ <<>> \in Seq(FrameType)
    OBVIOUS
  <1> DEFINE Allowed == /\ stack' \in Seq(FrameType) /\ Len(stack') <= 1
                        /\ out' \in Result /\ out'.terms = 0 /\ Len(out'.nodes) <= 1
                        /\ out'.permError # "over_term_limit"
                        /\ stack' # <<>> => ~out'.tempError
  <1>6. ASSUME stack' = <<Frame(Root)>> /\ out' = [RootSeen EXCEPT !.found = TRUE]
        PROVE  Allowed
    <2>1. stack' \in Seq(FrameType) /\ Len(stack') = 1
      BY <1>4, <1>6
    <2> DEFINE o == [RootSeen EXCEPT !.found = TRUE]
    <2>2. /\ o \in Result /\ o.terms = 0 /\ o.nodes = RootSeen.nodes /\ o.permError # "over_term_limit"
          /\ ~o.tempError
      BY <1>3 DEF Result
    <2>3. out' = o
      BY <1>6
    <2> HIDE DEF o
    <2>4. Len(o.nodes) <= 1
      <3>1. o.nodes = RootSeen.nodes
        BY <2>2
      <3>2. Len(RootSeen.nodes) = 1
        BY <1>3
      <3> QED BY <3>1, <3>2
    <2> QED BY <2>1, <2>2, <2>3, <2>4
  <1>7. ASSUME stack' = <<>> /\ out' = [RootSeen EXCEPT !.permError = "multiple_records"]
        PROVE  Allowed
    <2> DEFINE o == [RootSeen EXCEPT !.permError = "multiple_records"]
    <2>1. "multiple_records" \in PermErrors
      BY DEF PermErrors
    <2>2. /\ o \in Result /\ o.terms = 0 /\ o.nodes = RootSeen.nodes
          /\ o.permError = "multiple_records"
      BY <1>3, <2>1 DEF Result
    <2>3. out' = o
      BY <1>7
    <2> HIDE DEF o
    <2>4. Len(o.nodes) <= 1
      <3>1. o.nodes = RootSeen.nodes
        BY <2>2
      <3>2. Len(RootSeen.nodes) = 1
        BY <1>3
      <3> QED BY <3>1, <3>2
    <2>5. stack' = <<>> /\ stack' \in Seq(FrameType) /\ Len(stack') <= 1
      BY <1>5, <1>7
    <2>6. o.permError # "over_term_limit"
      BY <2>2
    <2> QED BY <2>2, <2>3, <2>4, <2>5, <2>6
  <1>8. ASSUME stack' = <<>> /\ out' = RootSeen
        PROVE  Allowed
    <2>1. Len(RootSeen.nodes) <= 1
      BY <1>3
    <2>2. Len(stack') <= 1 /\ stack' \in Seq(FrameType)
      BY <1>5, <1>8
    <2> QED BY <1>3, <1>8, <2>1, <2>2
  <1>9. ASSUME stack' = <<>> /\ out' = Failed(out)
        PROVE  Allowed
    <2> DEFINE o == Failed(out)
    <2>1. o \in Result /\ o.terms = 0 /\ o.nodes = <<>> /\ o.permError # "over_term_limit"
      BY <1>2, FailedType
    <2>2. out' = o
      BY <1>9
    <2> HIDE DEF o
    <2>3. Len(o.nodes) <= 1
      BY <1>5, <2>1
    <2> QED BY <1>5, <1>9, <2>1, <2>2, <2>3
  <1>10. Allowed
    BY <1>6, <1>7, <1>8, <1>9 DEF Start, Halted
  <1>11. /\ Len(stack') \in Nat /\ Len(out'.nodes) \in Nat
         /\ out'.tempError \in BOOLEAN /\ out'.termsExact \in BOOLEAN
    BY <1>10 DEF Result, Nodes
  <1>12. Typed'
    BY <1>1, <1>10 DEF Typed
  <1>13. Fresh' /\ Going'
    BY <1>1, <1>2, <1>10, <1>11 DEF Fresh, Going
  <1>14. Verdict'
    BY <1>1, <1>2, <1>10, <1>11 DEF Verdict
  <1>15. WorkBounded'
    BY <1>1, <1>2, <1>10, <1>11 DEF WorkBounded
  <1> QED BY <1>12, <1>13, <1>14, <1>15 DEF IInv

LEMMA IncludeStep ==
    ASSUME IInv, Include
    PROVE  stack # <<>> /\ Typed' /\ PaidFor /\ UNCHANGED <<zone, lim, started>>
  <1>1. /\ stack # <<>> /\ ~OverLimit /\ UNCHANGED <<zone, lim, started>>
        /\ Top.next <= Len(Terms)
        /\ Descend(Advanced, Terms[Top.next].target, "include")
    BY DEF Include, Reading
  <1>2. Advanced \in Seq(FrameType) /\ Len(Advanced) = Len(stack)
    BY <1>1, StackTypes DEF IInv
  <1>3. Terms[Top.next] \in Term
    BY <1>1, TopTypes DEF IInv
  <1>4. Terms[Top.next].target \in Names \cup {NoName} /\ "include" \in Vias
    BY <1>3 DEF Term, Vias
  <1> QED BY <1>1, <1>2, <1>4, DescendStep

LEMMA RedirectStep ==
    ASSUME IInv, Redirect
    PROVE  stack # <<>> /\ Typed' /\ PaidFor /\ UNCHANGED <<zone, lim, started>>
  <1> DEFINE rest == [stack EXCEPT ![Len(stack)].redirect = <<>>]
             target == Head(Top.redirect).target
  <1>1. /\ stack # <<>> /\ ~OverLimit /\ UNCHANGED <<zone, lim, started>>
        /\ Top.redirect # <<>> /\ Descend(rest, target, "redirect")
    BY DEF Redirect, AtEnd
  <1>2. rest \in Seq(FrameType) /\ Len(rest) = Len(stack)
    BY <1>1, StackTypes DEF IInv
  <1>3. target \in Names \cup {NoName}
    <2>1. PICK t \in Term : Top.redirect = <<t>>
      BY <1>1, TopTypes DEF IInv, FrameType
    <2>2. Head(Top.redirect) = t
      BY <2>1
    <2> QED BY <2>2 DEF Term
  <1>4. "redirect" \in Vias
    BY DEF Vias
  <1> HIDE DEF rest, target
  <1> QED BY <1>1, <1>2, <1>3, <1>4, DescendStep

LEMMA Preserved == IInv /\ [Next]_vars => IInv'
  <1> SUFFICES ASSUME IInv, [Next]_vars PROVE IInv'
    OBVIOUS
  <1>1. CASE Start
    BY <1>1, StartStep
  <1>2. CASE Free \/ NoteRedirect \/ All \/ Return \/ TermOverLimit \/ RedirectOverLimit
               \/ Opaque \/ Answered \/ Void \/ LookupFails
    <2>1. stack # <<>> /\ UNCHANGED <<lim, started>>
      BY <1>2 DEF Free, NoteRedirect, All, Return, TermOverLimit, RedirectOverLimit,
                  Opaque, Answered, Void, LookupFails, Reading, AtEnd
    <2> QED BY <1>2, <2>1, TermStep, OutcomeStep
  <1>3. CASE Include
    BY <1>3, IncludeStep, OutcomeStep
  <1>4. CASE Redirect
    BY <1>4, RedirectStep, OutcomeStep
  <1>5. CASE UNCHANGED vars
    BY <1>5 DEF vars, IInv, Typed, Fresh, Going, Verdict, WorkBounded
  <1> QED BY <1>1, <1>2, <1>3, <1>4, <1>5 DEF Next

LEMMA Invariance == Spec => []IInv
  BY Initially, Preserved, PTL DEF Spec

-----------------------------------------------------------------------------
\* Whatever a stranger publishes, the work of spf.Evaluate is bounded by the
\* limits it is called with: each record visited below the root was paid for
\* with a counted term, and the records open at a time are one more than
\* MaxDepth at most (walk, descend).
THEOREM WorkIsBounded == Spec => []WorkBounded
  <1>1. IInv => WorkBounded
    BY DEF IInv
  <1> QED BY <1>1, Invariance, PTL

\* A walk that is over says over_term_limit in Result.PermError exactly when
\* Result.OverTermLimit does, has counted one term past the limit and no more,
\* and never calls that count exact, whatever else it met on the way.
THEOREM LimitIsVerdict == Spec => []LimitVerdict
  <1>1. IInv => LimitVerdict
    <2> SUFFICES ASSUME IInv PROVE LimitVerdict
      OBVIOUS
    <2>1. out.terms \in Nat /\ lim.terms \in Nat
      BY DEF IInv, Typed, Result
    <2> QED BY <2>1 DEF IInv, Verdict, LimitVerdict, OverTermLimit
  <1> QED BY <1>1, Invariance, PTL

-----------------------------------------------------------------------------
(***************************************************************************)
(* What is counted and found.  The places a walk can stand at are ordered  *)
(* as it comes to them: Visited is the ways that are not ahead of the      *)
(* stack.  The invariant says that these are what has been counted and     *)
(* found, as long as the count is exact.                                   *)
(***************************************************************************)
\* Where a record is read up to.  A redirect is followed at the end of its record.
At(f) ==
    IF f.next = End(f.name) /\ f.redirect = <<>> /\ Redirects(f.name) # {}
    THEN f.next ELSE f.next - 1
Place(s) == [j \in 1 .. Len(s) |-> <<s[j].name, At(s[j])>>]

Kind(n, i) == zone[n].terms[i].kind

\* A record on its way: no all has been read, and the last redirect is kept until
\* the end, where it may have been followed.
FrameSound(f) ==
    /\ Usable(f.name)
    /\ f.next \in 1 .. End(f.name)
    /\ \A j \in 1 .. f.next - 1 : Kind(f.name, j) # "all"
    /\ f.redirect # <<>> =>
          \E i \in 1 .. f.next - 1 :
             /\ Kind(f.name, i) = "redirect" /\ f.redirect = <<zone[f.name].terms[i]>>
             /\ \A j \in i + 1 .. f.next - 1 : Kind(f.name, j) # "redirect"
    /\ f.redirect = <<>> /\ f.next < End(f.name) =>
          \A j \in 1 .. f.next - 1 : Kind(f.name, j) # "redirect"

\* The ways the walk has still to go, and those it has been.
Ahead(w, p) ==
    \E j \in DOMAIN w \cap DOMAIN p :
        /\ \A i \in 1 .. j - 1 : w[i] = p[i]
        /\ w[j][1] = p[j][1] /\ w[j][2] > p[j][2]
Visited(p) == {w \in Ways : ~Ahead(w, p)}

OnTheWay(s) == /\ s # <<>> => Linked(Place(s))
               /\ \A j \in 1 .. Len(s) : FrameSound(s[j])

\* What has been found is at the end of a way.
FindingsReal(o) == FoundBroken(o) \subseteq RealBroken /\ Values(o.cycles) \subseteq RealCycles

\* What is counted and found is what was visited.
BrokenAt(w, t) == <<Parent(w), t, zone[t].outcome>>
Exact(p, o) ==
    /\ IsFiniteSet(Visited(p)) /\ Cardinality(Visited(p)) = o.terms
    /\ \A w \in Visited(p), t \in Names :
          /\ Leads(w, t) /\ zone[t].outcome \in Missing => BrokenAt(w, t) \in FoundBroken(o)
          /\ Leads(w, t) /\ Contains(Chain(w), t) => Append(Chain(w), t) \in Values(o.cycles)
    /\ o.found => (o.permError = "" <=> /\ o.void <= lim.void
                                        /\ o.broken = <<>>
                                        /\ \A w \in Visited(p) : ~Leads(w, NoName))

TreeInv(s, o) == OnTheWay(s) /\ FindingsReal(o) /\ (o.termsExact => Exact(Place(s), o))

-----------------------------------------------------------------------------
(***************************************************************************)
(* Records and ways.                                                       *)
(***************************************************************************)

\* Where a name's record costs something.
LEMMA RecordType ==
    ASSUME Typed, NEW n \in Names
    PROVE  /\ Len(zone[n].terms) \in Nat /\ DOMAIN zone[n].terms = 1 .. Len(zone[n].terms)
           /\ \A i \in 1 .. Len(zone[n].terms) : zone[n].terms[i] \in Term
           /\ End(n) \in Nat \ {0} /\ End(n) = Len(zone[n].terms) + 1
           /\ \A kinds : Of(n, kinds) \subseteq 1 .. Len(zone[n].terms)
           /\ Redirects(n) \subseteq 1 .. Len(zone[n].terms)
           /\ Costs(n) \subseteq 1 .. End(n)
  <1>1. zone[n] \in Published
    BY DEF Typed
  <1>2. zone[n].terms \in Seq(Term)
    <2>1. Records \subseteq Seq(Term)
      BY WalkAssumption
    <2>2. <<>> \in Seq(Term)
      OBVIOUS
    <2>3. \A r \in Published : r.terms \in Records \cup {<<>>}
      BY DEF Published
    <2> QED BY <1>1, <2>1, <2>2, <2>3
  <1>3. PICK ts \in Seq(Term) : ts = zone[n].terms
    BY <1>2
  <1>4. PICK m \in Nat : m = Len(ts)
    OBVIOUS
  <1>5. DOMAIN ts = 1 .. m /\ \A i \in 1 .. m : ts[i] \in Term
    BY <1>4
  <1>6. \A kinds : Of(n, kinds) \subseteq 1 .. m
    BY <1>3, <1>5 DEF Of
  <1>7. Redirects(n) \subseteq 1 .. m
    BY <1>6 DEF Redirects
  <1>8. End(n) = m + 1
    BY <1>3, <1>4 DEF End
  <1>9. Costs(n) \subseteq 1 .. End(n)
    <2>1. Of(n, {"include", "lookup", "opaque"}) \subseteq 1 .. m
      BY <1>6
    <2> QED BY <1>8, <2>1 DEF Costs
  <1> QED BY <1>3, <1>4, <1>5, <1>6, <1>7, <1>8, <1>9

\* What leads on is paid for, and leads to one name.
LEMMA SendsOne ==
    ASSUME Typed, NEW n \in Names, NEW k, NEW t, Sends(n, k, t)
    PROVE  /\ k \in Costs(n) /\ t \in Names \cup {NoName}
           /\ \A u : Sends(n, k, u) => u = t
  <1>1. /\ Len(zone[n].terms) \in Nat
        /\ End(n) = Len(zone[n].terms) + 1
        /\ \A kinds : Of(n, kinds) \subseteq 1 .. Len(zone[n].terms)
        /\ Redirects(n) \subseteq 1 .. Len(zone[n].terms)
        /\ \A i \in 1 .. Len(zone[n].terms) : zone[n].terms[i] \in Term
    BY RecordType
  <1>2. \A i, j \in Redirects(n) : i = j
    <2> SUFFICES ASSUME NEW i \in Redirects(n), NEW j \in Redirects(n)
                 PROVE  i = j
      OBVIOUS
    <2>1. i <= j /\ j <= i
      BY DEF Redirects
    <2>2. i \in Int /\ j \in Int
      BY <1>1
    <2> QED BY <2>1, <2>2
  <1>3. PICK i : /\ zone[n].terms[i].target = t
                 /\ \/ i \in Of(n, {"include"}) /\ i = k
                    \/ i \in Redirects(n) /\ k = End(n)
    BY DEF Sends
  <1>4. i \in 1 .. Len(zone[n].terms)
    BY <1>1, <1>3
  <1>5. t \in Names \cup {NoName}
    <2>1. zone[n].terms[i] \in Term
      BY <1>1, <1>4
    <2> QED BY <1>3, <2>1 DEF Term
  <1>6. k \in Costs(n)
    <2>1. CASE i \in Of(n, {"include"}) /\ i = k
      BY <2>1 DEF Of, Costs
    <2>2. CASE i \in Redirects(n) /\ k = End(n)
      BY <2>2 DEF Costs
    <2> QED BY <1>3, <2>1, <2>2
  <1>7. ASSUME NEW u, Sends(n, k, u)
        PROVE  u = t
    <2>1. PICK j : /\ zone[n].terms[j].target = u
                   /\ \/ j \in Of(n, {"include"}) /\ j = k
                      \/ j \in Redirects(n) /\ k = End(n)
      BY <1>7 DEF Sends
    <2>2. ~(End(n) \in Of(n, {"include"}))
      BY <1>1
    <2>3. i = j
      BY <1>2, <1>3, <2>1, <2>2
    <2> QED BY <1>3, <2>1, <2>3
  <1> QED BY <1>5, <1>6, <1>7

\* The steps of a way.
WayOf(w, m) ==
    /\ m = Len(w) /\ DOMAIN w = 1 .. m
    /\ \A i \in 1 .. m : /\ w[i] = <<w[i][1], w[i][2]>> /\ Usable(w[i][1])
                         /\ w[i][2] \in Costs(w[i][1]) /\ w[i][2] \in Nat
    /\ w[1][1] = Root
    /\ \A i \in 1 .. m - 1 : Sends(w[i][1], w[i][2], w[i + 1][1])
    /\ \A i, j \in 1 .. m : w[i][1] = w[j][1] => i = j

LEMMA WayType ==
    ASSUME Typed, NEW w \in Ways
    PROVE  \E m \in Nat \ {0} : WayOf(w, m)
  <1>1. PICK m \in 1 .. Cardinality(Names) : w \in [1 .. m -> Payments]
    BY DEF Ways
  <1>2. m \in Nat \ {0} /\ DOMAIN w = 1 .. m /\ Len(w) = m
    BY <1>1
  <1>3. ASSUME NEW i \in 1 .. m
        PROVE  /\ w[i] = <<w[i][1], w[i][2]>> /\ Usable(w[i][1])
               /\ w[i][2] \in Costs(w[i][1]) /\ w[i][2] \in Nat
    <2>1. w[i] \in Payments
      BY <1>1
    <2>2. PICK n \in Names : Usable(n) /\ w[i] \in {n} \X Costs(n)
      BY <2>1 DEF Payments
    <2>3. w[i][1] = n /\ w[i][2] \in Costs(n) /\ w[i] = <<w[i][1], w[i][2]>>
      BY <2>2
    <2>4. w[i][2] \in Nat
      BY <2>3, RecordType
    <2> QED BY <2>2, <2>3, <2>4
  <1>4. Linked(w)
    BY DEF Ways
  <1>5. WayOf(w, m)
    BY <1>2, <1>3, <1>4 DEF Linked, WayOf
  <1> QED BY <1>2, <1>5

\* A place in the tree: open records down from the root, each where it leads on.
Standing(p, m) ==
    /\ m \in Nat \ {0} /\ p = [i \in 1 .. m |-> p[i]] /\ Len(p) = m
    /\ \A i \in 1 .. m : /\ p[i] = <<p[i][1], p[i][2]>>
                         /\ Usable(p[i][1]) /\ p[i][2] \in Nat
    /\ Linked(p)

\* The same with the last record read up to k.
With(p, k) == [p EXCEPT ![Len(p)] = <<p[Len(p)][1], k>>]

\* It is a place as well, one that differs from p at its end.
LEMMA WithType ==
    ASSUME NEW p, NEW m, Standing(p, m), NEW k \in Nat
    PROVE  /\ Standing(With(p, k), m)
           /\ With(p, k)[m][2] = k
           /\ \A i \in 1 .. m - 1 : With(p, k)[i] = p[i]
           /\ \A i \in 1 .. m : With(p, k)[i][1] = p[i][1]
  <1> DEFINE a == p[m][1]
             w == With(p, k)
  <1>1. m \in Nat \ {0} /\ DOMAIN p = 1 .. m /\ Len(p) = m
    BY DEF Standing
  <1>2. w = [p EXCEPT ![m] = <<a, k>>]
    BY <1>1 DEF With
  <1>3. m \in 1 .. m /\ \A i \in 1 .. m - 1 : i \in 1 .. m /\ i # m
    BY <1>1
  <1>4. /\ w[m] = <<a, k>> /\ \A i \in 1 .. m - 1 : w[i] = p[i]
        /\ DOMAIN w = 1 .. m /\ w = [i \in 1 .. m |-> w[i]]
    BY <1>1, <1>2, <1>3
  <1> HIDE DEF w
  <1>5. \A i \in 1 .. m : i = m \/ i \in 1 .. m - 1
    BY <1>1
  <1>6. ASSUME NEW i \in 1 .. m
        PROVE  /\ w[i][1] = p[i][1]
               /\ w[i] = <<w[i][1], w[i][2]>> /\ w[i][2] \in Nat
    <2>1. CASE i = m
      BY <1>4, <2>1
    <2>2. CASE i # m
      <3>1. i \in 1 .. m - 1
        BY <1>5, <2>2
      <3>2. w[i] = p[i]
        BY <1>4, <3>1
      <3> QED BY <3>2 DEF Standing
    <2> QED BY <2>1, <2>2
  <1>7. \A i \in 1 .. m : w[i] = <<w[i][1], w[i][2]>> /\ w[i][2] \in Nat
    BY <1>6
  <1>8. Len(w) = m
    BY <1>1, <1>4
  <1>9. Linked(w)
    <2>1. /\ p[1][1] = Root
          /\ \A i \in 1 .. m - 1 : Sends(p[i][1], p[i][2], p[i + 1][1])
          /\ \A i, j \in 1 .. m : p[i][1] = p[j][1] => i = j
      BY <1>1 DEF Standing, Linked
    <2>2. 1 \in 1 .. m /\ \A i \in 1 .. m - 1 : i + 1 \in 1 .. m
      BY <1>1
    <2>3. \A i \in 1 .. m - 1 : Sends(w[i][1], w[i][2], w[i + 1][1])
      BY <1>4, <1>6, <2>1, <2>2
    <2>4. w[1][1] = Root
      BY <1>6, <2>1, <2>2
    <2>5. \A i, j \in 1 .. m : w[i][1] = w[j][1] => i = j
      BY <1>6, <2>1
    <2> QED BY <1>4, <1>8, <2>3, <2>4, <2>5 DEF Linked
  <1>10. Standing(w, m)
    <2>1. \A i \in 1 .. m : Usable(w[i][1])
      BY <1>6 DEF Standing
    <2> QED BY <1>1, <1>4, <1>7, <1>8, <1>9, <2>1 DEF Standing
  <1>11. w[m][2] = k
    BY <1>4
  <1> QED BY <1>4, <1>6, <1>10, <1>11 DEF w

\* No name twice: no more records are open than there are names.
LEMMA Shallow ==
    ASSUME NEW p, NEW m, Standing(p, m)
    PROVE  m \in 1 .. Cardinality(Names)
  <1> DEFINE f == [i \in 1 .. m |-> p[i][1]]
             D == 1 .. m
  <1>1. m \in Nat \ {0} /\ DOMAIN p = 1 .. m
    BY DEF Standing
  <1>2. IsFiniteSet(D) /\ Cardinality(D) = m
    BY <1>1, FS_Interval
  <1>3. f \in Injection(D, Names)
    <2>1. \A i \in 1 .. m : p[i][1] \in Names
      BY DEF Standing, Usable
    <2>2. \A i, j \in 1 .. m : p[i][1] = p[j][1] => i = j
      BY <1>1 DEF Standing, Linked
    <2>3. f \in [D -> Names]
      BY <2>1
    <2>4. \A i, j \in D : f[i] = f[j] => i = j
      BY <2>2
    <2> HIDE DEF f, D
    <2> QED BY <2>3, <2>4 DEF Injection, IsInjective
  <1>4. IsFiniteSet(Names)
    BY TreeAssumption
  <1> HIDE DEF f, D
  <1>5. Cardinality(D) <= Cardinality(Names)
    BY <1>3, <1>4, FS_Injection
  <1>6. Cardinality(Names) \in Nat
    BY <1>4, FS_CardinalityType
  <1> QED BY <1>1, <1>2, <1>5, <1>6

\* A place where something is paid for is the end of a way.
LEMMA WayMade ==
    ASSUME Typed, NEW w, NEW m, Standing(w, m), w[m][2] \in Costs(w[m][1])
    PROVE  /\ w \in Ways /\ Parent(w) = w[m][1]
           /\ \A t : Leads(w, t) <=> Sends(w[m][1], w[m][2], t)
  <1>1. m \in Nat \ {0} /\ m \in 1 .. m
    BY DEF Standing
  <1>5. /\ w = [i \in 1 .. m |-> w[i]] /\ Len(w) = m /\ Linked(w)
        /\ \A i \in 1 .. m : w[i] = <<w[i][1], w[i][2]>> /\ Usable(w[i][1])
    BY DEF Standing
  <1>6. ASSUME NEW i \in 1 .. m
        PROVE  w[i][2] \in Costs(w[i][1])
    <2>1. CASE i = m
      BY <2>1
    <2>2. CASE i # m
      <3>1. i \in 1 .. m - 1
        BY <1>1, <2>2
      <3>2. Sends(w[i][1], w[i][2], w[i + 1][1])
        BY <1>5, <3>1 DEF Linked
      <3>3. w[i][1] \in Names
        BY <1>5 DEF Usable
      <3> QED BY <3>2, <3>3, SendsOne
    <2> QED BY <2>1, <2>2
  <1>7. \A i \in 1 .. m : w[i] \in Payments
    <2> SUFFICES ASSUME NEW i \in 1 .. m
                 PROVE  w[i] \in Payments
      OBVIOUS
    <2>1. w[i] \in {w[i][1]} \X Costs(w[i][1])
      <3>1. w[i] = <<w[i][1], w[i][2]>> /\ w[i][2] \in Costs(w[i][1])
        BY <1>5, <1>6
      <3> QED BY <3>1
    <2>2. w[i][1] \in Names /\ Usable(w[i][1])
      BY <1>5 DEF Usable
    <2> QED BY <2>1, <2>2 DEF Payments
  <1>8. m \in 1 .. Cardinality(Names)
    BY Shallow
  <1>9. w \in Ways
    <2>1. w \in [1 .. m -> Payments]
      BY <1>5, <1>7
    <2> QED BY <1>5, <1>8, <2>1 DEF Ways
  <1>10. Parent(w) = w[m][1] /\ \A t : Leads(w, t) <=> Sends(w[m][1], w[m][2], t)
    BY <1>5 DEF Parent, Leads
  <1> QED BY <1>9, <1>10

\* Reading on past something free leaves nothing more to visit, or less.
LEMMA ReadFree ==
    ASSUME Typed, NEW p, NEW m, Standing(p, m), NEW q, Standing(q, m),
           q[m][1] = p[m][1], q[m][2] > p[m][2], q[m][2] <= p[m][2] + 1,
           q[m][2] \notin Costs(p[m][1]), \A i \in 1 .. m - 1 : q[i] = p[i]
    PROVE  Visited(q) = Visited(p)
  <1>1. m \in Nat \ {0} /\ DOMAIN p = 1 .. m /\ p[m][2] \in Nat
    BY DEF Standing
  <1>5. PICK k \in Nat : k = q[m][2]
    BY <1>1 DEF Standing
  <1>2. /\ Standing(q, m) /\ q[m][1] = p[m][1] /\ q[m][2] = k /\ k = p[m][2] + 1
        /\ k \notin Costs(p[m][1]) /\ \A i \in 1 .. m - 1 : q[i] = p[i]
    BY <1>1, <1>5
  <1>3. DOMAIN q = 1 .. m
    BY <1>2 DEF Standing
  <1>4. ASSUME NEW v \in Ways
        PROVE  Ahead(v, p) <=> Ahead(v, q)
    <2>1. PICK l \in Nat \ {0} :
             /\ DOMAIN v = 1 .. l
             /\ \A i \in 1 .. l : v[i][2] \in Costs(v[i][1]) /\ v[i][2] \in Nat
      <3>1. PICK l \in Nat \ {0} : WayOf(v, l)
        BY WayType
      <3> QED BY <3>1 DEF WayOf
    <2>2. ASSUME NEW j \in 1 .. m, NEW i \in 1 .. j - 1
          PROVE  q[i] = p[i]
      BY <1>1, <1>2
    <2>3. ASSUME NEW j \in 1 .. m, j \in 1 .. l, v[j][1] = p[j][1]
          PROVE  q[j][1] = p[j][1] /\ (v[j][2] > p[j][2] <=> v[j][2] > q[j][2])
      <3>1. CASE j = m
        <4>1. v[j][2] # k /\ v[j][2] \in Nat
          BY <1>2, <2>1, <2>3, <3>1
        <4> QED BY <1>1, <1>2, <3>1, <4>1
      <3>2. CASE j # m
        <4>1. j \in 1 .. m - 1
          BY <1>1, <3>2
        <4> QED BY <1>2, <4>1
      <3> QED BY <3>1, <3>2
    <2>4. ASSUME NEW j \in 1 .. m
          PROVE  q[j][1] = p[j][1]
      <3>1. j = m \/ j \in 1 .. m - 1
        BY <1>1
      <3> QED BY <1>2, <3>1
    <2>5. ASSUME Ahead(v, p)
          PROVE  Ahead(v, q)
      <3>1. PICK j \in 1 .. l : /\ j \in 1 .. m /\ \A i \in 1 .. j - 1 : v[i] = p[i]
                                /\ v[j][1] = p[j][1] /\ v[j][2] > p[j][2]
        BY <1>1, <2>1, <2>5 DEF Ahead
      <3>2. v[j][1] = q[j][1] /\ v[j][2] > q[j][2] /\ \A i \in 1 .. j - 1 : v[i] = q[i]
        BY <2>2, <2>3, <3>1
      <3> QED BY <1>3, <2>1, <3>1, <3>2 DEF Ahead
    <2>6. ASSUME Ahead(v, q)
          PROVE  Ahead(v, p)
      <3>1. PICK j \in 1 .. l : /\ j \in 1 .. m /\ \A i \in 1 .. j - 1 : v[i] = q[i]
                                /\ v[j][1] = q[j][1] /\ v[j][2] > q[j][2]
        BY <1>3, <2>1, <2>6 DEF Ahead
      <3>2. v[j][1] = p[j][1] /\ v[j][2] > p[j][2] /\ \A i \in 1 .. j - 1 : v[i] = p[i]
        BY <2>2, <2>3, <2>4, <3>1
      <3> QED BY <1>1, <2>1, <3>1, <3>2 DEF Ahead
    <2> QED BY <2>5, <2>6
  <1> QED BY <1>4 DEF Visited

\* Nor does leaving a record with nothing more to pay for.
LEMMA ReadOut ==
    ASSUME Typed, NEW p, NEW m, Standing(p, m),
           \A k \in Costs(p[m][1]) : k <= p[m][2],
           NEW q, DOMAIN q = 1 .. m - 1, \A i \in 1 .. m - 1 : q[i] = p[i]
    PROVE  Visited(q) = Visited(p)
  <1>1. m \in Nat \ {0} /\ DOMAIN p = 1 .. m /\ p[m][2] \in Nat
    BY DEF Standing
  <1>2. ASSUME NEW v \in Ways
        PROVE  Ahead(v, p) <=> Ahead(v, q)
    <2>1. PICK l \in Nat \ {0} :
             /\ DOMAIN v = 1 .. l
             /\ \A i \in 1 .. l : v[i][2] \in Costs(v[i][1]) /\ v[i][2] \in Nat
      <3>1. PICK l \in Nat \ {0} : WayOf(v, l)
        BY WayType
      <3> QED BY <3>1 DEF WayOf
    <2>2. ASSUME NEW j \in 1 .. m, j \in 1 .. l, v[j][1] = p[j][1], v[j][2] > p[j][2]
          PROVE  j \in 1 .. m - 1
      <3>1. j # m
        <4> SUFFICES ASSUME j = m
                     PROVE  FALSE
          OBVIOUS
        <4>1. v[j][2] \in Costs(p[m][1]) /\ v[j][2] \in Nat
          BY <2>1, <2>2
        <4>2. v[j][2] <= p[m][2]
          BY <4>1
        <4> QED BY <1>1, <2>2, <4>1, <4>2
      <3> QED BY <1>1, <3>1
    <2>3. ASSUME NEW j \in 1 .. m - 1
          PROVE  j \in 1 .. m /\ q[j] = p[j] /\ \A i \in 1 .. j - 1 : q[i] = p[i]
      BY <1>1
    <2>4. ASSUME Ahead(v, p)
          PROVE  Ahead(v, q)
      <3>1. PICK j \in 1 .. l : /\ j \in 1 .. m /\ \A i \in 1 .. j - 1 : v[i] = p[i]
                                /\ v[j][1] = p[j][1] /\ v[j][2] > p[j][2]
        BY <1>1, <2>1, <2>4 DEF Ahead
      <3>2. j \in 1 .. m - 1
        BY <2>2, <3>1
      <3> QED BY <2>1, <2>3, <3>1, <3>2 DEF Ahead
    <2>5. ASSUME Ahead(v, q)
          PROVE  Ahead(v, p)
      <3>1. PICK j \in 1 .. l : /\ j \in 1 .. m - 1 /\ \A i \in 1 .. j - 1 : v[i] = q[i]
                                /\ v[j][1] = q[j][1] /\ v[j][2] > q[j][2]
        BY <2>1, <2>5 DEF Ahead
      <3> QED BY <1>1, <2>1, <2>3, <3>1 DEF Ahead
    <2> QED BY <2>4, <2>5
  <1> QED BY <1>2 DEF Visited

\* Reading something that is paid for visits one way more: nothing is below it, or
\* what is below it is still ahead.
LEMMA ReadPaid ==
    ASSUME Typed, NEW p, NEW m, Standing(p, m), NEW w \in Ways, Standing(w, m),
           w[m][1] = p[m][1], w[m][2] > p[m][2], w[m][2] <= p[m][2] + 1,
           \A i \in 1 .. m - 1 : w[i] = p[i],
           NEW q, NEW n, n \in {m, m + 1}, DOMAIN q = 1 .. n,
           \A i \in 1 .. m : q[i] = w[i],
           \A t : Sends(p[m][1], w[m][2], t) /\ Usable(t) /\ (\A i \in 1 .. m : p[i][1] # t)
                    => n = m + 1 /\ q[n][1] = t /\ q[n][2] = 0
    PROVE  w \notin Visited(p) /\ Visited(q) = Visited(p) \cup {w}
  <1> DEFINE a == p[m][1]
  <1>1. m \in Nat \ {0} /\ m \in 1 .. m /\ DOMAIN p = 1 .. m /\ p[m][2] \in Nat
    BY DEF Standing
  <1>20. PICK k \in Nat : k = w[m][2]
    BY <1>1 DEF Standing
  <1>21. k = p[m][2] + 1
    BY <1>1, <1>20
  <1>22. w[m] = <<a, k>>
    BY <1>1, <1>20 DEF Standing
  <1>2. /\ w \in Ways /\ w[m] = <<a, k>> /\ \A i \in 1 .. m - 1 : w[i] = p[i]
        /\ \A i \in 1 .. m : w[i][1] = p[i][1]
        /\ Standing(w, m)
    <2>1. ASSUME NEW i \in 1 .. m
          PROVE  w[i][1] = p[i][1]
      <3>1. i = m \/ i \in 1 .. m - 1
        BY <1>1
      <3> QED BY <3>1
    <2> QED BY <1>22, <2>1
  <1>3. DOMAIN w = 1 .. m /\ w = [i \in 1 .. m |-> w[i]]
    BY <1>2 DEF Standing
  <1>4. \A i \in 1 .. m : q[i] = w[i]
    OBVIOUS
  <1>5. n \in Nat /\ m \in 1 .. n /\ \A j \in 1 .. n : j \in 1 .. m \/ (j = m + 1 /\ n = m + 1)
    BY <1>1
  <1>6. \A j \in 1 .. m : j \in 1 .. n /\ \A i \in 1 .. j - 1 : i \in 1 .. m - 1
    BY <1>1, <1>5
  <1>7. \A j \in 1 .. m - 1 : j \in 1 .. m /\ q[j] = p[j]
    BY <1>1, <1>2, <1>4
  <1>8. Ahead(w, p)
    <2>1. w[m][1] = p[m][1] /\ w[m][2] > p[m][2]
      OBVIOUS
    <2> QED BY <1>1, <1>2, <1>3, <2>1 DEF Ahead
  <1>9. ~Ahead(w, q)
    <2>1. ASSUME NEW j \in 1 .. m
          PROVE  ~(w[j][2] > q[j][2])
      <3>1. w[j][2] \in Nat /\ q[j] = w[j]
        BY <1>2, <1>4 DEF Standing
      <3> QED BY <3>1
    <2> QED BY <1>3, <2>1 DEF Ahead
  <1>10. ASSUME NEW v \in Ways, v # w
         PROVE  Ahead(v, p) <=> Ahead(v, q)
    <2>1. PICK l \in Nat \ {0} :
             /\ DOMAIN v = 1 .. l
             /\ \A i \in 1 .. l : /\ v[i] = <<v[i][1], v[i][2]>> /\ Usable(v[i][1])
                                  /\ v[i][2] \in Costs(v[i][1]) /\ v[i][2] \in Nat
             /\ \A i \in 1 .. l - 1 : Sends(v[i][1], v[i][2], v[i + 1][1])
             /\ \A i, j \in 1 .. l : v[i][1] = v[j][1] => i = j
      <3>1. PICK l \in Nat \ {0} : WayOf(v, l)
        BY WayType
      <3> QED BY <3>1 DEF WayOf
    <2>2. v = [i \in 1 .. l |-> v[i]]
      BY <2>1 DEF Ways
    <2>3. ASSUME Ahead(v, p)
          PROVE  Ahead(v, q)
      <3>1. PICK j \in 1 .. l : /\ j \in 1 .. m /\ \A i \in 1 .. j - 1 : v[i] = p[i]
                                /\ v[j][1] = p[j][1] /\ v[j][2] > p[j][2]
        BY <1>1, <2>1, <2>3 DEF Ahead
      <3>2. \A i \in 1 .. j - 1 : v[i] = q[i]
        BY <1>6, <1>7, <3>1
      <3>3. CASE j # m
        <4>1. j \in 1 .. m - 1
          BY <1>1, <3>1, <3>3
        <4> QED BY <1>6, <1>7, <2>1, <3>1, <3>2, <4>1 DEF Ahead
      <3>4. CASE j = m /\ v[j][2] # k
        <4>1. q[m] = <<a, k>>
          BY <1>1, <1>2, <1>4
        <4>2. v[j][2] > k
          BY <1>1, <1>21, <2>1, <3>1, <3>4
        <4>3. v[j][1] = q[j][1] /\ v[j][2] > q[j][2]
          BY <3>1, <3>4, <4>1, <4>2
        <4> QED BY <1>5, <2>1, <3>1, <3>2, <3>4, <4>3 DEF Ahead
      <3>5. CASE j = m /\ v[j][2] = k
        <4>1. v[m] = w[m]
          BY <1>2, <2>1, <3>1, <3>5
        <4>2. \A i \in 1 .. m : i = m \/ i \in 1 .. m - 1
          BY <1>1
        <4>3. \A i \in 1 .. m : v[i] = w[i]
          BY <1>2, <3>1, <3>5, <4>1, <4>2
        <4>4. l # m
          BY <1>3, <1>10, <2>2, <4>3
        <4>5. m \in 1 .. l - 1 /\ m + 1 \in 1 .. l /\ 1 .. m \subseteq 1 .. l
          BY <1>1, <2>1, <3>1, <3>5, <4>4
        <4> DEFINE t == v[m + 1][1]
        <4>6. Sends(a, k, t) /\ Usable(t)
          BY <2>1, <3>1, <3>5, <4>5
        <4>7. \A i \in 1 .. m : p[i][1] # t
          <5> SUFFICES ASSUME NEW i \in 1 .. m, p[i][1] = t
                       PROVE  FALSE
            OBVIOUS
          <5>1. v[i][1] = v[m + 1][1]
            BY <1>2, <4>3
          <5>2. i \in 1 .. l /\ i # m + 1
            BY <1>1, <4>5
          <5> QED BY <2>1, <4>5, <5>1, <5>2
        <4>8. n = m + 1 /\ q[n][1] = t /\ q[n][2] = 0
          BY <1>20, <4>6, <4>7
        <4>9. v[n][1] = q[n][1] /\ v[n][2] > q[n][2]
          <5>1. v[m + 1][2] \in Costs(t) /\ t \in Names
            BY <2>1, <4>5, <4>6 DEF Usable
          <5>2. v[m + 1][2] > 0
            <6>1. Costs(t) \subseteq 1 .. End(t) /\ End(t) \in Nat
              BY <5>1, RecordType
            <6> QED BY <5>1, <6>1
          <5> QED BY <4>8, <5>2
        <4>10. \A i \in 1 .. n - 1 : v[i] = q[i]
          BY <1>1, <1>4, <4>3, <4>8
        <4>11. n \in 1 .. n /\ n \in 1 .. l
          BY <1>1, <4>5, <4>8
        <4> QED BY <2>1, <4>9, <4>10, <4>11 DEF Ahead
      <3> QED BY <3>3, <3>4, <3>5
    <2>4. ASSUME Ahead(v, q)
          PROVE  Ahead(v, p)
      <3>1. PICK j \in 1 .. l : /\ j \in 1 .. n /\ \A i \in 1 .. j - 1 : v[i] = q[i]
                                /\ v[j][1] = q[j][1] /\ v[j][2] > q[j][2]
        BY <2>1, <2>4 DEF Ahead
      <3>2. CASE j \in 1 .. m - 1
        <4>1. v[j][1] = p[j][1] /\ v[j][2] > p[j][2] /\ j \in 1 .. m
          BY <1>7, <3>1, <3>2
        <4>2. \A i \in 1 .. j - 1 : v[i] = p[i]
          <5> SUFFICES ASSUME NEW i \in 1 .. j - 1
                       PROVE  v[i] = p[i]
            OBVIOUS
          <5>1. i \in 1 .. m - 1
            BY <1>1, <3>2
          <5> QED BY <1>7, <3>1, <5>1
        <4> QED BY <1>1, <2>1, <4>1, <4>2 DEF Ahead
      <3>3. CASE j = m
        <4>1. q[m] = <<a, k>>
          BY <1>1, <1>2, <1>4
        <4>2. v[m][1] = p[m][1] /\ v[m][2] > p[m][2]
          BY <1>1, <1>21, <2>1, <3>1, <3>3, <4>1
        <4>3. \A i \in 1 .. m - 1 : v[i] = p[i]
          BY <1>7, <3>1, <3>3
        <4> QED BY <1>1, <2>1, <3>1, <3>3, <4>2, <4>3 DEF Ahead
      <3>4. CASE j = m + 1
        <4>1. m \in 1 .. j - 1 /\ \A i \in 1 .. m - 1 : i \in 1 .. j - 1
          BY <1>1, <3>4
        <4>2. v[m] = <<a, k>>
          BY <1>1, <1>2, <1>4, <3>1, <4>1
        <4>3. v[m][1] = p[m][1] /\ v[m][2] > p[m][2]
          BY <1>1, <1>21, <4>2
        <4>4. \A i \in 1 .. m - 1 : v[i] = p[i]
          BY <1>7, <3>1, <4>1
        <4>5. m \in 1 .. l
          BY <1>1, <3>1, <3>4
        <4> QED BY <1>1, <2>1, <4>3, <4>4, <4>5 DEF Ahead
      <3> QED BY <1>1, <1>5, <3>1, <3>2, <3>3, <3>4
    <2> QED BY <2>3, <2>4
  <1>11. Visited(q) = Visited(p) \cup {w}
    BY <1>2, <1>8, <1>9, <1>10 DEF Visited
  <1> QED BY <1>8, <1>11 DEF Visited

-----------------------------------------------------------------------------
(***************************************************************************)
(* The record on top: what its next term, or its end, is to the ways.      *)
(***************************************************************************)
\* What the next term of a record is to the ways, and what reading it makes of
\* the frame.
LEMMA TermRead ==
    ASSUME Typed, NEW f \in FrameType, FrameSound(f), NEW x, x = f.next, NEW n, n = f.name,
           x <= Len(zone[n].terms)
    PROVE  /\ x \in Nat /\ x # 0 /\ At(f) = x - 1
           /\ Kind(n, x) \in {"include", "lookup", "opaque"} <=> x \in Costs(n)
           /\ \A t : Sends(n, x, t) <=> Kind(n, x) = "include" /\ t = zone[n].terms[x].target
           /\ Kind(n, x) = "all" => \A k \in Costs(n) : k <= x - 1
  <1>1. n \in Names /\ x \in Nat \ {0}
    BY DEF FrameType
  <1>2. PICK m \in Nat : /\ m = Len(zone[n].terms) /\ DOMAIN zone[n].terms = 1 .. m
                         /\ End(n) = m + 1
                         /\ \A kinds : Of(n, kinds) \subseteq 1 .. m
                         /\ Redirects(n) \subseteq 1 .. m
    BY <1>1, RecordType
  <1>3. x \in 1 .. m /\ x # End(n)
    BY <1>1, <1>2
  <1>4. At(f) = x - 1
    BY <1>3 DEF At
  <1>5. \A j \in 1 .. x - 1 : Kind(n, j) # "all"
    BY DEF FrameSound
  <1>6. ASSUME NEW kinds, "all" \notin kinds
        PROVE  x \in Of(n, kinds) <=> Kind(n, x) \in kinds
    <2>1. ASSUME Kind(n, x) \in kinds, NEW j \in 1 .. x
          PROVE  Kind(n, j) # "all"
      <3>1. j = x \/ j \in 1 .. x - 1
        BY <1>1
      <3> QED BY <1>5, <1>6, <2>1, <3>1
    <2> QED BY <1>2, <1>3, <2>1 DEF Of, Kind
  <1>7. x \in Costs(n) <=> x \in Of(n, {"include", "lookup", "opaque"})
    BY <1>3 DEF Costs
  <1>8. Kind(n, x) \in {"include", "lookup", "opaque"} <=> x \in Costs(n)
    <2>1. "all" \notin {"include", "lookup", "opaque"}
      OBVIOUS
    <2> QED BY <1>6, <1>7, <2>1
  <1>9. ASSUME NEW t
        PROVE  Sends(n, x, t) <=> Kind(n, x) = "include" /\ t = zone[n].terms[x].target
    <2>1. Sends(n, x, t) <=> x \in Of(n, {"include"}) /\ zone[n].terms[x].target = t
      BY <1>3 DEF Sends
    <2>2. x \in Of(n, {"include"}) <=> Kind(n, x) \in {"include"}
      <3>1. "all" \notin {"include"}
        OBVIOUS
      <3> QED BY <1>6, <3>1
    <2> QED BY <2>1, <2>2
  <1>10. ASSUME Kind(n, x) = "all", NEW k \in Costs(n)
         PROVE  k <= x - 1
    <2>1. HasAll(n)
      BY <1>2, <1>3, <1>10 DEF HasAll, Kind
    <2>2. Redirects(n) = {}
      BY <2>1 DEF Redirects
    <2>3. k \in Of(n, {"include", "lookup", "opaque"})
      BY <1>10, <2>2 DEF Costs
    <2>4. k \in 1 .. m /\ x \notin 1 .. k
      BY <1>2, <1>10, <2>3 DEF Of, Kind
    <2> QED BY <1>1, <2>4
  <1> QED BY <1>1, <1>4, <1>8, <1>9, <1>10

\* Reading a term leaves a frame sound, one term further.
LEMMA FrameRead ==
    ASSUME Typed, NEW f \in FrameType, FrameSound(f), NEW x, x = f.next, NEW n, n = f.name,
           x <= Len(zone[n].terms), Kind(n, x) # "all", NEW g,
           g.name = n, g.next = x + 1,
           \/ Kind(n, x) # "redirect" /\ g.redirect = f.redirect
           \/ Kind(n, x) = "redirect" /\ g.redirect = <<zone[n].terms[x]>>
    PROVE  FrameSound(g) /\ At(g) = x
  <1>1. n \in Names /\ x \in Nat \ {0}
    BY DEF FrameType
  <1>2. PICK m \in Nat : /\ m = Len(zone[n].terms) /\ DOMAIN zone[n].terms = 1 .. m
                         /\ End(n) = m + 1
                         /\ \A kinds : Of(n, kinds) \subseteq 1 .. m
                         /\ Redirects(n) \subseteq 1 .. m
    BY <1>1, RecordType
  <1>3. x \in 1 .. m /\ x < End(n)
    BY <1>1, <1>2
  <1>4. \A j \in 1 .. x : j = x \/ j \in 1 .. x - 1
    BY <1>1
  <1>5. Usable(n) /\ \A j \in 1 .. x : Kind(n, j) # "all"
    BY <1>4 DEF FrameSound
  <1>6. g.next - 1 = x /\ g.next \in 1 .. End(n)
    BY <1>1, <1>2, <1>3
  <1>7. CASE Kind(n, x) = "redirect" /\ g.redirect = <<zone[n].terms[x]>>
    <2>1. g.redirect # <<>>
      BY <1>7
    <2>2. At(g) = x
      BY <1>6, <2>1 DEF At
    <2>3. x \in 1 .. g.next - 1 /\ \A j \in x + 1 .. g.next - 1 : Kind(n, j) # "redirect"
      BY <1>1, <1>6
    <2> QED BY <1>5, <1>6, <1>7, <2>1, <2>2, <2>3 DEF FrameSound
  <1>8. CASE Kind(n, x) # "redirect" /\ g.redirect = f.redirect
    <2>1. ASSUME f.redirect = <<>>
          PROVE  \A j \in 1 .. x : Kind(n, j) # "redirect"
      BY <1>3, <1>4, <1>8, <2>1 DEF FrameSound
    <2>2. ASSUME f.redirect = <<>>, x + 1 = End(n)
          PROVE  Redirects(n) = {}
      <3>1. Of(n, {"redirect"}) = {}
        <4>1. \A j \in 1 .. m : j \in 1 .. x
          BY <1>1, <1>2, <2>2
        <4> QED BY <1>2, <2>1, <2>2, <4>1 DEF Of, Kind
      <3> QED BY <3>1 DEF Redirects
    <2>3. At(g) = x
      BY <1>6, <1>8, <2>2 DEF At
    <2>4. ASSUME f.redirect # <<>>
          PROVE  \E i \in 1 .. x : /\ Kind(n, i) = "redirect" /\ f.redirect = <<zone[n].terms[i]>>
                                   /\ \A j \in i + 1 .. x : Kind(n, j) # "redirect"
      <3>1. PICK i \in 1 .. x - 1 :
              /\ Kind(n, i) = "redirect" /\ f.redirect = <<zone[n].terms[i]>>
              /\ \A j \in i + 1 .. x - 1 : Kind(n, j) # "redirect"
        BY <2>4 DEF FrameSound
      <3>2. \A j \in i + 1 .. x : j = x \/ j \in i + 1 .. x - 1
        BY <1>1
      <3>3. i \in 1 .. x
        BY <1>1
      <3> QED BY <1>8, <3>1, <3>2, <3>3
    <2>5. g.redirect = <<>> => \A j \in 1 .. g.next - 1 : Kind(n, j) # "redirect"
      BY <1>6, <1>8, <2>1
    <2>6. g.redirect # <<>> =>
             \E i \in 1 .. g.next - 1 :
                /\ Kind(n, i) = "redirect" /\ g.redirect = <<zone[n].terms[i]>>
                /\ \A j \in i + 1 .. g.next - 1 : Kind(n, j) # "redirect"
      BY <1>6, <1>8, <2>4
    <2> QED BY <1>5, <1>6, <2>3, <2>5, <2>6 DEF FrameSound
  <1> QED BY <1>7, <1>8

\* The end of a record.
LEMMA FrameEnd ==
    ASSUME Typed, NEW f \in FrameType, FrameSound(f), NEW n, n = f.name,
           f.next > Len(zone[n].terms)
    PROVE  /\ f.redirect = <<>> => \A k \in Costs(n) : k <= At(f)
           /\ f.redirect # <<>> =>
                 /\ At(f) = End(n) - 1 /\ End(n) \in Costs(n)
                 /\ \A t : Sends(n, End(n), t) <=> t = Head(f.redirect).target
                 /\ \A g : g.name = n /\ g.next = f.next /\ g.redirect = <<>>
                             => FrameSound(g) /\ At(g) = End(n)
  <1>1. n \in Names /\ f.next \in Nat \ {0}
    BY DEF FrameType
  <1>2. PICK m \in Nat : /\ m = Len(zone[n].terms) /\ DOMAIN zone[n].terms = 1 .. m
                         /\ End(n) = m + 1
                         /\ \A kinds : Of(n, kinds) \subseteq 1 .. m
                         /\ Redirects(n) \subseteq 1 .. m
    BY <1>1, RecordType
  <1>3. f.next = End(n) /\ f.next - 1 = m /\ End(n) - 1 = m
    BY <1>1, <1>2 DEF FrameSound
  <1>4. ASSUME f.redirect = <<>>, NEW k \in Costs(n)
        PROVE  k <= At(f)
    <2>1. k \in 1 .. m \/ (k = m + 1 /\ Redirects(n) # {})
      BY <1>2, <1>4 DEF Costs
    <2>2. Redirects(n) # {} => At(f) = m + 1
      BY <1>2, <1>3, <1>4 DEF At
    <2>3. Redirects(n) = {} => At(f) = m
      BY <1>2, <1>3, <1>4 DEF At
    <2> QED BY <2>1, <2>2, <2>3
  <1>5. ASSUME f.redirect # <<>>
        PROVE  /\ At(f) = End(n) - 1 /\ End(n) \in Costs(n)
               /\ \A t : Sends(n, End(n), t) <=> t = Head(f.redirect).target
               /\ \A g : g.name = n /\ g.next = f.next /\ g.redirect = <<>>
                           => FrameSound(g) /\ At(g) = End(n)
    <2>1. PICK i \in 1 .. m :
            /\ Kind(n, i) = "redirect" /\ f.redirect = <<zone[n].terms[i]>>
            /\ \A j \in i + 1 .. m : Kind(n, j) # "redirect"
      BY <1>3, <1>5 DEF FrameSound
    <2>2. \A j \in 1 .. m : Kind(n, j) # "all"
      BY <1>3 DEF FrameSound
    <2>3. ~HasAll(n)
      BY <1>2, <2>2 DEF HasAll, Kind
    <2>4. i \in Of(n, {"redirect"})
      <3>1. \A j \in 1 .. i : j \in 1 .. m
        BY <1>2
      <3> QED BY <1>2, <2>1, <2>2, <3>1 DEF Of, Kind
    <2>5. \A j \in Of(n, {"redirect"}) : j <= i
      <3> SUFFICES ASSUME NEW j \in Of(n, {"redirect"}) PROVE j <= i
        OBVIOUS
      <3>1. j \in 1 .. m /\ Kind(n, j) = "redirect"
        BY <1>2 DEF Of, Kind
      <3>2. ~(j \in i + 1 .. m)
        BY <2>1, <3>1
      <3> QED BY <1>2, <3>1, <3>2
    <2>6. i \in Redirects(n)
      BY <2>3, <2>4, <2>5 DEF Redirects
    <2>7. At(f) = End(n) - 1
      BY <1>3, <1>5 DEF At
    <2>8. End(n) \in Costs(n)
      BY <2>6 DEF Costs
    <2>9. Head(f.redirect) = zone[n].terms[i]
      BY <2>1
    <2>10. ASSUME NEW t
           PROVE  Sends(n, End(n), t) <=> t = Head(f.redirect).target
      <3>1. Sends(n, End(n), Head(f.redirect).target)
        BY <2>6, <2>9 DEF Sends
      <3> QED BY <1>1, <3>1, SendsOne
    <2>11. ASSUME NEW g, g.name = n, g.next = f.next, g.redirect = <<>>
           PROVE  FrameSound(g) /\ At(g) = End(n)
      <3>1. At(g) = End(n)
        BY <1>3, <2>6, <2>11 DEF At
      <3>2. ~(g.next < End(n)) /\ g.next \in 1 .. End(n)
        BY <1>2, <1>3, <2>11
      <3>3. Usable(n) /\ \A j \in 1 .. f.next - 1 : Kind(n, j) # "all"
        BY DEF FrameSound
      <3> QED BY <2>11, <3>1, <3>2, <3>3 DEF FrameSound
    <2> QED BY <2>7, <2>8, <2>10, <2>11
  <1> QED BY <1>4, <1>5

\* A record that has just been found.
LEMMA FrameNew ==
    ASSUME Typed, NEW b, Usable(b)
    PROVE  FrameSound(Frame(b)) /\ At(Frame(b)) = 0 /\ Frame(b) \in FrameType
  <1>1. b \in Names /\ Frame(b).name = b /\ Frame(b).next = 1 /\ Frame(b).redirect = <<>>
    BY DEF Usable, Frame
  <1>2. PICK m \in Nat : End(b) = m + 1 /\ Redirects(b) \subseteq 1 .. m
    BY <1>1, RecordType
  <1>3. At(Frame(b)) = 0
    <2>1. 1 = End(b) => Redirects(b) = {}
      BY <1>2
    <2> QED BY <1>1, <2>1 DEF At
  <1>4. 1 \in 1 .. End(b) /\ \A j \in 1 .. 1 - 1 : FALSE
    BY <1>2
  <1>5. FrameSound(Frame(b))
    BY <1>1, <1>4 DEF FrameSound
  <1> QED BY <1>1, <1>3, <1>5 DEF Frame, FrameType

-----------------------------------------------------------------------------
(***************************************************************************)
(* What a step makes of the place the walk stands at.                      *)
(***************************************************************************)
\* The length of a sequence that is given as a function.
LEMMA Long ==
    ASSUME NEW q, NEW l \in Nat, q = [i \in 1 .. l |-> q[i]]
    PROVE  Len(q) = l
  OBVIOUS

\* Where the walk stands.
LEMMA PlaceOf ==
    ASSUME NEW s \in Seq(FrameType), s # <<>>, OnTheWay(s)
    PROVE  /\ Standing(Place(s), Len(s)) /\ Len(s) \in Nat \ {0}
           /\ \A i \in 1 .. Len(s) : /\ s[i] \in FrameType /\ FrameSound(s[i])
                                     /\ Place(s)[i] = <<s[i].name, At(s[i])>>
  <1>1. Len(s) \in Nat \ {0} /\ \A i \in 1 .. Len(s) : s[i] \in FrameType /\ FrameSound(s[i])
    BY DEF OnTheWay
  <1>2. Linked(Place(s))
    BY DEF OnTheWay
  <1>3. \A i \in 1 .. Len(s) : Place(s)[i] = <<s[i].name, At(s[i])>>
    BY DEF Place
  <1>4. DOMAIN Place(s) = 1 .. Len(s) /\ Place(s) = [i \in 1 .. Len(s) |-> Place(s)[i]]
    BY DEF Place
  <1>5. ASSUME NEW i \in 1 .. Len(s)
        PROVE  Usable(s[i].name) /\ At(s[i]) \in Nat
    <2>1. PICK f \in FrameType : f = s[i]
      BY <1>1
    <2>2. Usable(f.name) /\ f.next \in Nat \ {0}
      BY <1>1, <2>1 DEF FrameSound, FrameType
    <2>3. At(f) \in Nat
      BY <2>2 DEF At
    <2> QED BY <2>1, <2>2, <2>3
  <1>6. PICK p : p = Place(s)
    OBVIOUS
  <1>7. PICK m \in Nat \ {0} : m = Len(s)
    BY <1>1
  <1>8. p = [i \in 1 .. m |-> p[i]]
    BY <1>4, <1>6, <1>7
  <1>9. Len(p) = m
    <2>1. DOMAIN p = 1 .. m
      BY <1>4, <1>6, <1>7
    <2>2. p \in Seq(Range(p))
      BY <1>8, <2>1 DEF Range
    <2> QED BY <2>1, <2>2
  <1>10. \A i \in 1 .. m : p[i] = <<p[i][1], p[i][2]>> /\ Usable(p[i][1]) /\ p[i][2] \in Nat
    BY <1>3, <1>5, <1>6, <1>7
  <1>11. Standing(p, m)
    BY <1>2, <1>6, <1>8, <1>9, <1>10 DEF Standing
  <1> QED BY <1>1, <1>3, <1>6, <1>7, <1>11

\* The record on top is read on, or its redirect is forgotten.
LEMMA Replaced ==
    ASSUME NEW s \in Seq(FrameType), s # <<>>, OnTheWay(s), NEW m \in Nat, Len(s) = m,
           NEW rest \in Seq(FrameType), Len(rest) = m,
           \A i \in 1 .. m - 1 : rest[i] = s[i],
           rest[m].name = s[m].name, FrameSound(rest[m])
    PROVE  /\ OnTheWay(rest) /\ Standing(Place(rest), m)
           /\ \A i \in 1 .. m - 1 : Place(rest)[i] = Place(s)[i]
           /\ Place(rest)[m][1] = s[m].name /\ Place(rest)[m][2] = At(rest[m])
  <1>1. /\ m \in Nat \ {0} /\ Standing(Place(s), m)
        /\ \A i \in 1 .. m : /\ s[i] \in FrameType /\ FrameSound(s[i])
                             /\ Place(s)[i] = <<s[i].name, At(s[i])>>
    BY PlaceOf
  <1>2. m \in 1 .. m /\ \A i \in 1 .. m : i = m \/ i \in 1 .. m - 1
    BY <1>1
  <1>3. \A i \in 1 .. m : FrameSound(rest[i]) /\ rest[i] \in FrameType
    BY <1>1, <1>2
  <1>4. PICK k \in Nat : k = At(rest[m])
    <2>1. PICK f \in FrameType : f = rest[m]
      BY <1>2, <1>3
    <2>2. f.next \in Nat \ {0}
      BY DEF FrameType
    <2>3. At(f) \in Nat
      BY <2>2 DEF At
    <2> QED BY <2>1, <2>3
  <1>5. PICK p : p = Place(s)
    OBVIOUS
  <1>6. Standing(p, m)
    BY <1>1, <1>5
  <1>7. /\ Standing(With(p, k), m)
        /\ With(p, k)[m][2] = k /\ \A i \in 1 .. m : With(p, k)[i][1] = p[i][1]
        /\ \A i \in 1 .. m - 1 : With(p, k)[i] = p[i]
    BY <1>6, WithType, SMTT(60)
  <1>8. PICK q : q = With(p, k)
    OBVIOUS
  <1>9. \A i \in 1 .. m : q[i] = <<rest[i].name, At(rest[i])>>
    <2>1. q[m] = <<rest[m].name, At(rest[m])>>
      <3>1. q[m][1] = s[m].name /\ q[m][2] = k
        BY <1>1, <1>2, <1>5, <1>7, <1>8
      <3>2. q[m] = <<q[m][1], q[m][2]>>
        BY <1>2, <1>7, <1>8 DEF Standing
      <3> QED BY <1>4, <3>1, <3>2
    <2>2. \A i \in 1 .. m - 1 : q[i] = <<rest[i].name, At(rest[i])>>
      BY <1>1, <1>2, <1>5, <1>7, <1>8
    <2> QED BY <1>2, <2>1, <2>2
  <1>10. Place(rest) = q
    <2>1. q = [i \in 1 .. m |-> q[i]]
      BY <1>7, <1>8 DEF Standing
    <2>2. Place(rest) = [i \in 1 .. m |-> <<rest[i].name, At(rest[i])>>]
      BY DEF Place
    <2> QED BY <1>9, <2>1, <2>2
  <1>11. Linked(Place(rest))
    BY <1>7, <1>8, <1>10 DEF Standing
  <1>12. OnTheWay(rest)
    BY <1>3, <1>11 DEF OnTheWay
  <1> QED BY <1>1, <1>2, <1>4, <1>5, <1>7, <1>8, <1>10, <1>12

\* A record is done with.
LEMMA Popped ==
    ASSUME NEW s \in Seq(FrameType), s # <<>>, OnTheWay(s), NEW m \in Nat, Len(s) = m,
           NEW rest \in Seq(FrameType), Len(rest) = m - 1,
           \A i \in 1 .. m - 1 : rest[i] = s[i]
    PROVE  /\ OnTheWay(rest) /\ DOMAIN Place(rest) = 1 .. m - 1
           /\ \A i \in 1 .. m - 1 : Place(rest)[i] = Place(s)[i]
  <1>1. /\ m \in Nat \ {0} /\ Standing(Place(s), m)
        /\ \A i \in 1 .. m : /\ s[i] \in FrameType /\ FrameSound(s[i])
                             /\ Place(s)[i] = <<s[i].name, At(s[i])>>
    BY PlaceOf
  <1>2. \A i \in 1 .. m - 1 : i \in 1 .. m /\ FrameSound(rest[i])
    BY <1>1
  <1>3. Place(rest) = [i \in 1 .. m - 1 |-> <<rest[i].name, At(rest[i])>>]
    BY DEF Place
  <1>4. DOMAIN Place(rest) = 1 .. m - 1 /\ \A i \in 1 .. m - 1 : Place(rest)[i] = Place(s)[i]
    BY <1>1, <1>2, <1>3
  <1>5. ASSUME rest # <<>>
        PROVE  Linked(Place(rest))
    <2>1. Len(rest) # 0
      BY <1>5
    <2>2. m - 1 \in Nat \ {0} /\ 1 \in 1 .. m - 1
      BY <1>1, <2>1
    <2>3. PICK l \in Nat : l = m - 1
      BY <2>2
    <2> DEFINE p == Place(s)
               q == Place(rest)
    <2>11. q = [i \in 1 .. l |-> q[i]]
      BY <1>3, <1>4, <2>3
    <2>12. DOMAIN q = 1 .. l /\ \A i \in 1 .. l : q[i] = p[i] /\ i \in 1 .. m
      BY <1>2, <1>4, <2>3
    <2>13. Standing(p, m)
      BY <1>1
    <2> HIDE DEF p, q
    <2>4. /\ p[1][1] = Root /\ Len(p) = m
          /\ \A i \in 1 .. Len(p) - 1 : Sends(p[i][1], p[i][2], p[i + 1][1])
          /\ \A i, j \in DOMAIN p : p[i][1] = p[j][1] => i = j
          /\ DOMAIN p = 1 .. m
      BY <2>13 DEF Standing, Linked
    <2>5. DOMAIN q = 1 .. l /\ \A i \in 1 .. l : q[i] = p[i] /\ i \in 1 .. m
      BY <2>12
    <2>6. Len(q) = l
      BY <2>11, Long
    <2>7. q[1][1] = Root
      BY <2>2, <2>3, <2>4, <2>5
    <2>8. \A i \in 1 .. l - 1 : Sends(q[i][1], q[i][2], q[i + 1][1])
      <3>1. \A i \in 1 .. l - 1 : i \in 1 .. l /\ i + 1 \in 1 .. l /\ i \in 1 .. Len(p) - 1
        BY <1>1, <2>3, <2>4
      <3> QED BY <2>4, <2>5, <3>1
    <2>9. \A i, j \in DOMAIN q : q[i][1] = q[j][1] => i = j
      BY <2>4, <2>5
    <2>10. Linked(q)
      BY <2>6, <2>7, <2>8, <2>9 DEF Linked
    <2> QED BY <2>10 DEF q
  <1> QED BY <1>2, <1>4, <1>5 DEF OnTheWay

\* A record that is led to is begun.
LEMMA Pushed ==
    ASSUME Typed, NEW s \in Seq(FrameType), s # <<>>, OnTheWay(s), NEW m \in Nat, Len(s) = m,
           NEW b, Usable(b), Sends(s[m].name, At(s[m]), b), \A i \in 1 .. m : s[i].name # b,
           NEW more \in Seq(FrameType), Len(more) = m + 1, \A i \in 1 .. m : more[i] = s[i],
           more[m + 1] = Frame(b)
    PROVE  /\ OnTheWay(more) /\ DOMAIN Place(more) = 1 .. m + 1
           /\ \A i \in 1 .. m : Place(more)[i] = Place(s)[i]
           /\ Place(more)[m + 1] = <<b, 0>>
  <1>1. /\ m \in Nat \ {0} /\ Standing(Place(s), m)
        /\ \A i \in 1 .. m : /\ s[i] \in FrameType /\ FrameSound(s[i])
                             /\ Place(s)[i] = <<s[i].name, At(s[i])>>
    BY PlaceOf
  <1>2. /\ FrameSound(Frame(b)) /\ At(Frame(b)) = 0 /\ Frame(b).name = b
    BY FrameNew DEF Frame
  <1>3. /\ m + 1 \in 1 .. m + 1 /\ \A i \in 1 .. m : i \in 1 .. m + 1
        /\ \A i \in 1 .. m + 1 : i = m + 1 \/ i \in 1 .. m
    BY <1>1
  <1>4. \A i \in 1 .. m + 1 : FrameSound(more[i])
    BY <1>1, <1>2, <1>3
  <1>5. Place(more) = [i \in 1 .. m + 1 |-> <<more[i].name, At(more[i])>>]
    BY DEF Place
  <1>6. /\ DOMAIN Place(more) = 1 .. m + 1
        /\ \A i \in 1 .. m : Place(more)[i] = Place(s)[i]
        /\ Place(more)[m + 1] = <<b, 0>>
    <2>1. DOMAIN Place(more) = 1 .. m + 1
      BY <1>5
    <2>2. \A i \in 1 .. m + 1 : Place(more)[i] = <<more[i].name, At(more[i])>>
      BY <1>5
    <2>3. \A i \in 1 .. m : Place(more)[i] = Place(s)[i]
      BY <1>1, <1>3, <2>2
    <2>4. PICK l : l = m + 1
      OBVIOUS
    <2>5. Place(more)[l] = <<b, 0>>
      <3>1. l \in 1 .. m + 1 /\ more[l] = Frame(b)
        BY <1>3, <2>4
      <3> QED BY <1>2, <2>2, <3>1
    <2> QED BY <2>1, <2>3, <2>4, <2>5
  <1>7. Linked(Place(more))
    <2>1. PICK l \in Nat : l = m + 1
      BY <1>1
    <2> DEFINE p == Place(s)
               q == Place(more)
    <2>9. q = [i \in 1 .. l |-> q[i]]
      BY <1>5, <1>6, <2>1
    <2>10. Standing(p, m) /\ \A i \in 1 .. m : p[i] = <<s[i].name, At(s[i])>>
      BY <1>1
    <2>11. DOMAIN q = 1 .. l /\ q[l] = <<b, 0>> /\ \A i \in 1 .. m : q[i] = p[i] /\ i \in 1 .. l
      BY <1>3, <1>6, <2>1
    <2> HIDE DEF p, q
    <2>2. /\ p[1][1] = Root /\ Len(p) = m
          /\ \A i \in 1 .. m - 1 : Sends(p[i][1], p[i][2], p[i + 1][1])
          /\ \A i, j \in 1 .. m : p[i][1] = p[j][1] => i = j
          /\ p[m] = <<s[m].name, At(s[m])>>
          /\ \A i \in 1 .. m : p[i][1] # b
      <3>1. Standing(p, m) /\ DOMAIN p = 1 .. m
        BY <2>10 DEF Standing
      <3>2. m \in 1 .. m
        BY <1>1
      <3>3. p[m] = <<s[m].name, At(s[m])>> /\ \A i \in 1 .. m : p[i][1] # b
        <4>1. p[m] = <<s[m].name, At(s[m])>>
          BY <2>10, <3>2
        <4>2. \A i \in 1 .. m : p[i][1] = s[i].name
          BY <2>10
        <4> QED BY <4>1, <4>2
      <3>4. Linked(p) /\ Len(p) = m
        BY <3>1 DEF Standing
      <3>5. /\ p[1][1] = Root
            /\ \A i \in 1 .. m - 1 : Sends(p[i][1], p[i][2], p[i + 1][1])
            /\ \A i, j \in 1 .. m : p[i][1] = p[j][1] => i = j
        BY <3>1, <3>4 DEF Linked
      <3> QED BY <3>3, <3>4, <3>5
    <2>3. DOMAIN q = 1 .. l /\ q[l] = <<b, 0>> /\ \A i \in 1 .. m : q[i] = p[i] /\ i \in 1 .. l
      BY <2>11
    <2>4. Len(q) = l
      BY <2>9, Long
    <2>5. q[1][1] = Root
      <3>1. 1 \in 1 .. m
        BY <1>1
      <3> QED BY <2>2, <2>3, <3>1
    <2>6. \A i \in 1 .. l - 1 : Sends(q[i][1], q[i][2], q[i + 1][1])
      <3> SUFFICES ASSUME NEW i \in 1 .. l - 1 PROVE Sends(q[i][1], q[i][2], q[i + 1][1])
        OBVIOUS
      <3>1. CASE i \in 1 .. m - 1
        <4>1. i \in 1 .. m /\ i + 1 \in 1 .. m
          BY <1>1, <3>1
        <4> QED BY <2>2, <2>3, <3>1, <4>1
      <3>2. CASE i = m
        <4>1. m \in 1 .. m
          BY <1>1
        <4>2. q[m] = <<s[m].name, At(s[m])>> /\ q[m + 1] = <<b, 0>>
          BY <2>1, <2>2, <2>3, <4>1
        <4>3. q[i][1] = s[m].name /\ q[i][2] = At(s[m]) /\ q[i + 1][1] = b
          BY <3>2, <4>2
        <4> QED BY <4>3
      <3>3. i = m \/ i \in 1 .. m - 1
        BY <1>1, <2>1
      <3> QED BY <3>1, <3>2, <3>3
    <2>7. \A i, j \in 1 .. l : q[i][1] = q[j][1] => i = j
      <3>1. \A i \in 1 .. l : i = l \/ i \in 1 .. m
        BY <1>3, <2>1
      <3>2. q[l][1] = b
        BY <2>3
      <3>3. \A i \in 1 .. m : q[i][1] = p[i][1] /\ q[i][1] # b
        BY <2>2, <2>3
      <3> QED BY <2>2, <3>1, <3>2, <3>3
    <2>8. Linked(q)
      BY <2>3, <2>4, <2>5, <2>6, <2>7 DEF Linked
    <2> QED BY <2>8 DEF q
  <1> QED BY <1>4, <1>6, <1>7 DEF OnTheWay

\* Something that is paid for is read: the way that is visited by it.
LEMMA PaidAt ==
    ASSUME Typed, NEW p, NEW l \in Nat \ {0}, Standing(p, l),
           NEW w, Standing(w, l), \A i \in 1 .. l - 1 : w[i] = p[i],
           w[l][1] = p[l][1], w[l][2] > p[l][2], w[l][2] <= p[l][2] + 1,
           w[l][2] \in Costs(w[l][1])
    PROVE  /\ w \in Ways /\ w \notin Visited(p)
           /\ (\A t : Sends(w[l][1], w[l][2], t) /\ Usable(t) => \E i \in 1 .. l : p[i][1] = t)
                => Visited(w) = Visited(p) \cup {w}
           /\ \A q, b : /\ DOMAIN q = 1 .. l + 1 /\ \A i \in 1 .. l : q[i] = w[i]
                        /\ q[l + 1][1] = b /\ q[l + 1][2] = 0 /\ Sends(w[l][1], w[l][2], b)
                   => Visited(q) = Visited(p) \cup {w}
  <1>1. w \in Ways
    BY WayMade
  <1>2. PICK k : k = w[l][2]
    OBVIOUS
  <1>3. DOMAIN w = 1 .. l
    BY DEF Standing
  <1>8. p[l][1] \in Names
    BY DEF Standing, Usable
  <1>9. ASSUME NEW q, NEW n, n \in {l, l + 1}, DOMAIN q = 1 .. n, \A i \in 1 .. l : q[i] = w[i],
               \A t : Sends(p[l][1], k, t) /\ Usable(t) /\ (\A i \in 1 .. l : p[i][1] # t)
                        => n = l + 1 /\ q[n][1] = t /\ q[n][2] = 0
        PROVE  w \notin Visited(p) /\ Visited(q) = Visited(p) \cup {w}
    <2>1. \A t : Sends(p[l][1], w[l][2], t) /\ Usable(t) /\ (\A i \in 1 .. l : p[i][1] # t)
                   => n = l + 1 /\ q[n][1] = t /\ q[n][2] = 0
      BY <1>2, <1>9
    <2> QED BY <1>1, <1>9, <2>1, ReadPaid, SMTT(40)
  <1>10. w \notin Visited(p)
    <2>1. l \in DOMAIN w \cap DOMAIN p
      BY <1>3 DEF Standing
    <2>2. Ahead(w, p)
      BY <2>1 DEF Ahead
    <2> QED BY <2>2 DEF Visited
  <1>11. ASSUME \A t : Sends(w[l][1], w[l][2], t) /\ Usable(t) => \E i \in 1 .. l : p[i][1] = t
         PROVE  Visited(w) = Visited(p) \cup {w}
    <2>1. PICK n : n = l
      OBVIOUS
    <2>2. n \in {l, l + 1} /\ DOMAIN w = 1 .. n
      BY <1>3, <2>1
    <2>3. \A t : Sends(p[l][1], k, t) /\ Usable(t) => ~(\A i \in 1 .. l : p[i][1] # t)
      BY <1>2, <1>11
    <2> QED BY <1>9, <2>2, <2>3
  <1>12. ASSUME NEW q, NEW b, DOMAIN q = 1 .. l + 1, \A i \in 1 .. l : q[i] = w[i],
                q[l + 1][1] = b, q[l + 1][2] = 0, Sends(w[l][1], w[l][2], b)
         PROVE  Visited(q) = Visited(p) \cup {w}
    <2>1. PICK n : n = l + 1
      OBVIOUS
    <2>2. n \in {l, l + 1} /\ DOMAIN q = 1 .. n
      BY <1>12, <2>1
    <2>3. Sends(p[l][1], k, b)
      BY <1>2, <1>12
    <2>4. \A t : Sends(p[l][1], k, t) => n = l + 1 /\ q[n][1] = t /\ q[n][2] = 0
      <3>1. \A t : Sends(p[l][1], k, t) => t = b
        BY <1>8, <2>3, SendsOne
      <3>2. q[n][1] = b /\ q[n][2] = 0
        BY <1>12, <2>1
      <3> QED BY <2>1, <3>1, <3>2
    <2> QED BY <1>9, <1>12, <2>2, <2>4
  <1> QED BY <1>1, <1>10, <1>11, <1>12

\* What pushing a frame makes of a stack.
LEMMA Longer ==
    ASSUME NEW rest \in Seq(FrameType), NEW g \in FrameType
    PROVE  /\ Append(rest, g) \in Seq(FrameType) /\ Len(Append(rest, g)) = Len(rest) + 1
           /\ Append(rest, g)[Len(rest) + 1] = g
           /\ \A i \in 1 .. Len(rest) : Append(rest, g)[i] = rest[i]
  OBVIOUS

\* Where the walk stands when it reads a term, or follows a redirect, that is paid
\* for.  rest is the stack then, and w the place.
Pays(rest, w) ==
    /\ Len(rest) = Len(stack)
    /\ \A i \in 1 .. Len(stack) - 1 : rest[i] = stack[i]
    /\ rest[Len(stack)].name = Top.name
    /\ FrameSound(rest[Len(stack)])
    /\ At(rest[Len(stack)]) \in Costs(Top.name)
    /\ At(rest[Len(stack)]) > At(Top) /\ At(rest[Len(stack)]) <= At(Top) + 1
    /\ w = Place(rest)

\* The way that is visited by it.
LEMMA PaidWay ==
    ASSUME Typed, stack # <<>>, OnTheWay(stack), NEW rest \in Seq(FrameType), NEW w,
           Pays(rest, w)
    PROVE  /\ OnTheWay(rest) /\ w \in Ways /\ w \notin Visited(Place(stack))
           /\ Parent(w) = Top.name /\ Chain(w) = Path
           /\ \A t : Leads(w, t) <=> Sends(Top.name, At(rest[Len(stack)]), t)
           /\ (\A t : Leads(w, t) /\ Usable(t) => Contains(Path, t))
                => Visited(Place(rest)) = Visited(Place(stack)) \cup {w}
           /\ \A b : Leads(w, b) /\ Usable(b) /\ ~Contains(Path, b)
                => /\ OnTheWay(Append(rest, Frame(b)))
                   /\ Visited(Place(Append(rest, Frame(b)))) = Visited(Place(stack)) \cup {w}
  <1>1. PICK m \in Nat \ {0} : m = Len(stack)
    BY TopTypes
  <1>2. /\ stack \in Seq(FrameType) /\ Top = stack[m] /\ Top.name \in Names
        /\ Path = [i \in 1 .. m |-> stack[i].name] /\ Len(Path) = m
    <2>1. stack \in Seq(FrameType) /\ Top = stack[m] /\ Top.name \in Names
      BY <1>1, TopTypes DEF Typed
    <2>2. Path = [i \in 1 .. m |-> stack[i].name]
      BY <1>1 DEF Path
    <2> QED BY <2>1, <2>2
  <1>3. /\ Len(rest) = m /\ \A i \in 1 .. m - 1 : rest[i] = stack[i]
        /\ rest[m].name = stack[m].name /\ FrameSound(rest[m])
    BY <1>1, <1>2 DEF Pays
  <1>4. /\ OnTheWay(rest) /\ Standing(Place(rest), m)
        /\ \A i \in 1 .. m - 1 : Place(rest)[i] = Place(stack)[i]
        /\ Place(rest)[m][1] = stack[m].name /\ Place(rest)[m][2] = At(rest[m])
    BY <1>1, <1>2, <1>3, Replaced
  <1>5. /\ Standing(Place(stack), m)
        /\ \A i \in 1 .. m : Place(stack)[i] = <<stack[i].name, At(stack[i])>>
    BY <1>1, <1>2, PlaceOf
  <1>6. PICK p, a, k, j : /\ p = Place(stack) /\ a = Top.name
                          /\ k = At(rest[m]) /\ j = At(Top)
    OBVIOUS
  <1>7. k \in Costs(a) /\ k > j /\ k <= j + 1 /\ w = Place(rest)
    BY <1>1, <1>6 DEF Pays
  <1>8. Standing(p, m) /\ \A i \in 1 .. m : p[i] = <<stack[i].name, At(stack[i])>>
    BY <1>5, <1>6
  <1>9. p[m][1] = a /\ p[m][2] = j /\ w[m][1] = a /\ w[m][2] = k
    BY <1>2, <1>4, <1>6, <1>7, <1>8
  <1>10. /\ Standing(w, m) /\ \A i \in 1 .. m - 1 : w[i] = p[i]
    BY <1>4, <1>6, <1>7
  <1>11. /\ w[m][1] = p[m][1] /\ w[m][2] > p[m][2] /\ w[m][2] <= p[m][2] + 1
         /\ w[m][2] \in Costs(w[m][1])
    BY <1>7, <1>9
  <1>12. /\ w \in Ways /\ w \notin Visited(p)
         /\ (\A t : Sends(w[m][1], w[m][2], t) /\ Usable(t) => \E i \in 1 .. m : p[i][1] = t)
              => Visited(w) = Visited(p) \cup {w}
         /\ \A q, b : /\ DOMAIN q = 1 .. m + 1 /\ \A i \in 1 .. m : q[i] = w[i]
                      /\ q[m + 1][1] = b /\ q[m + 1][2] = 0 /\ Sends(w[m][1], w[m][2], b)
                 => Visited(q) = Visited(p) \cup {w}
    BY <1>8, <1>10, <1>11, PaidAt, SMTT(60)
  <1>13. /\ Parent(w) = w[m][1] /\ \A t : Leads(w, t) <=> Sends(w[m][1], w[m][2], t)
    BY <1>10, <1>11, WayMade, SMTT(60)
  <1>14. \A t : Leads(w, t) <=> Sends(a, k, t)
    BY <1>9, <1>13
  <1>15. \A i \in 1 .. m : p[i][1] = Path[i]
    BY <1>2, <1>8
  <1>16. Chain(w) = Path
    <2>1. DOMAIN w = 1 .. m /\ \A i \in 1 .. m : i = m \/ i \in 1 .. m - 1
      BY <1>10 DEF Standing
    <2>2. \A i \in 1 .. m : w[i][1] = stack[i].name
      BY <1>2, <1>8, <1>10, <1>11, <2>1
    <2> QED BY <1>2, <2>1, <2>2 DEF Chain
  <1>17. \A t : Contains(Path, t) <=> \E i \in 1 .. m : p[i][1] = t
    <2>1. \A t : Contains(Path, t) <=> \E i \in 1 .. m : Path[i] = t
      BY <1>2 DEF Contains
    <2> QED BY <1>15, <2>1
  <1>18. ASSUME \A t : Leads(w, t) /\ Usable(t) => Contains(Path, t)
         PROVE  Visited(Place(rest)) = Visited(Place(stack)) \cup {w}
    <2>1. \A t : Sends(w[m][1], w[m][2], t) /\ Usable(t) => \E i \in 1 .. m : p[i][1] = t
      BY <1>13, <1>17, <1>18
    <2>2. Visited(w) = Visited(p) \cup {w}
      BY <1>12, <2>1
    <2> QED BY <1>6, <1>7, <2>2
  <1>19. ASSUME NEW b, Leads(w, b), Usable(b), ~Contains(Path, b)
         PROVE  /\ OnTheWay(Append(rest, Frame(b)))
                /\ Visited(Place(Append(rest, Frame(b)))) = Visited(Place(stack)) \cup {w}
    <2>1. PICK g \in FrameType : g = Frame(b)
      BY <1>19, FrameNew
    <2>2. /\ Append(rest, g) \in Seq(FrameType) /\ Len(Append(rest, g)) = m + 1
          /\ Append(rest, g)[m + 1] = g /\ \A i \in 1 .. m : Append(rest, g)[i] = rest[i]
      BY <1>3, Longer
    <2>3. PICK more \in Seq(FrameType) : more = Append(rest, g)
      BY <2>2
    <2>4. Len(more) = m + 1 /\ more[m + 1] = Frame(b) /\ \A i \in 1 .. m : more[i] = rest[i]
      BY <2>1, <2>2, <2>3
    <2>5. \A i \in 1 .. m : rest[i].name # b
      <3>1. \A i \in 1 .. m : i = m \/ i \in 1 .. m - 1
        OBVIOUS
      <3>2. \A i \in 1 .. m : rest[i].name = stack[i].name
        BY <1>3, <3>1
      <3> QED BY <1>2, <1>19, <3>2 DEF Contains
    <2>6. Sends(rest[m].name, At(rest[m]), b) /\ rest # <<>>
      <3>1. rest[m].name = a /\ At(rest[m]) = k
        BY <1>2, <1>3, <1>6
      <3>2. Len(rest) # 0
        BY <1>3
      <3> QED BY <1>14, <1>19, <3>1, <3>2
    <2>7. /\ OnTheWay(more) /\ DOMAIN Place(more) = 1 .. m + 1
          /\ \A i \in 1 .. m : Place(more)[i] = Place(rest)[i]
          /\ Place(more)[m + 1] = <<b, 0>>
      BY <1>3, <1>4, <1>19, <2>4, <2>5, <2>6, Pushed, SMTT(60)
    <2>8. PICK q : q = Place(more)
      OBVIOUS
    <2>9. /\ DOMAIN q = 1 .. m + 1 /\ \A i \in 1 .. m : q[i] = w[i]
          /\ q[m + 1][1] = b /\ q[m + 1][2] = 0
      <3>1. q[m + 1] = <<b, 0>>
        BY <2>7, <2>8
      <3> QED BY <1>7, <2>7, <2>8, <3>1
    <2>10. Visited(q) = Visited(p) \cup {w}
      BY <1>12, <1>13, <1>19, <2>9
    <2> QED BY <1>6, <2>1, <2>3, <2>7, <2>8, <2>10
  <1>20. \A t : Leads(w, t) <=> Sends(Top.name, At(rest[Len(stack)]), t)
    BY <1>1, <1>6, <1>14
  <1>21. w \in Ways /\ w \notin Visited(Place(stack)) /\ Parent(w) = Top.name
    BY <1>6, <1>9, <1>12, <1>13
  <1> QED BY <1>4, <1>16, <1>18, <1>19, <1>20, <1>21

-----------------------------------------------------------------------------
(***************************************************************************)
(* What a step makes of the findings.                                      *)
(***************************************************************************)
LEMMA ValuesAppend ==
    ASSUME NEW S, NEW s \in Seq(S), NEW b \in S
    PROVE  Values(Append(s, b)) = Values(s) \cup {b} /\ Append(s, b) # <<>>
  <1>1. PICK l \in Nat : l = Len(s)
    OBVIOUS
  <1>2. /\ DOMAIN s = 1 .. l /\ DOMAIN Append(s, b) = 1 .. l + 1
        /\ Append(s, b)[l + 1] = b /\ \A i \in 1 .. l : Append(s, b)[i] = s[i]
    BY <1>1
  <1>3. PICK q : q = Append(s, b)
    OBVIOUS
  <1>4. \A i \in 1 .. l + 1 : i = l + 1 \/ i \in 1 .. l
    OBVIOUS
  <1>5. 1 .. l \subseteq 1 .. l + 1 /\ l + 1 \in 1 .. l + 1
    OBVIOUS
  <1>6. DOMAIN q = 1 .. l + 1 /\ q[l + 1] = b /\ \A i \in 1 .. l : q[i] = s[i]
    BY <1>2, <1>3
  <1>7. PICK n : n = l + 1
    OBVIOUS
  <1>8. ASSUME NEW x \in Values(q)
        PROVE  x \in Values(s) \cup {b}
    <2>1. PICK i \in 1 .. l + 1 : x = q[i]
      BY <1>6 DEF Values
    <2>2. CASE i = l + 1
      BY <1>6, <2>1, <2>2
    <2>3. CASE i \in 1 .. l
      BY <1>2, <1>6, <2>1, <2>3 DEF Values
    <2> QED BY <1>4, <2>2, <2>3
  <1>9. ASSUME NEW x \in Values(s) \cup {b}
        PROVE  x \in Values(q)
    <2>1. CASE x = b
      <3>1. n \in DOMAIN q /\ q[n] = x
        BY <1>5, <1>6, <1>7, <2>1
      <3> QED BY <3>1 DEF Values
    <2>2. CASE x \in Values(s)
      <3>1. PICK i \in 1 .. l : x = s[i]
        BY <1>2, <2>2 DEF Values
      <3>2. i \in DOMAIN q /\ q[i] = x
        BY <1>5, <1>6, <3>1
      <3> QED BY <3>2 DEF Values
    <2> QED BY <2>1, <2>2
  <1>10. Append(s, b) # <<>>
    BY <1>2
  <1> QED BY <1>3, <1>8, <1>9, <1>10

\* The verdict is about what has been visited: nothing is wrong with the way just
\* visited, or there has been one void lookup more, or an error is recorded for it.
Judged(o, w) ==
    \/ /\ o.permError = out.permError /\ o.void = out.void /\ o.broken = out.broken
       /\ ~Leads(w, NoName)
    \/ /\ o.void = out.void + 1 /\ o.broken = out.broken /\ ~Leads(w, NoName)
       /\ o.permError = "" <=> out.permError = "" /\ o.void <= lim.void
    \/ o.permError # "" /\ (o.broken # <<>> \/ Leads(w, NoName))

\* One way more is visited: counted once, its findings added, and judged.
LEMMA ExactGrows ==
    ASSUME Typed, NEW p, NEW q, NEW w \in Ways, w \notin Visited(p),
           Visited(q) = Visited(p) \cup {w}, Exact(p, out),
           NEW o, o.terms = out.terms + 1, o.found = out.found,
           FoundBroken(out) \subseteq FoundBroken(o), Values(out.cycles) \subseteq Values(o.cycles),
           \A t \in Names :
              /\ Leads(w, t) /\ zone[t].outcome \in Missing => BrokenAt(w, t) \in FoundBroken(o)
              /\ Leads(w, t) /\ Contains(Chain(w), t) => Append(Chain(w), t) \in Values(o.cycles),
           Judged(o, w)
    PROVE  Exact(q, o)
  <1>1. IsFiniteSet(Visited(p)) /\ Cardinality(Visited(p)) = out.terms
    BY DEF Exact
  <1>2. IsFiniteSet(Visited(q)) /\ Cardinality(Visited(q)) = o.terms
    BY <1>1, FS_AddElement
  <1>3. ASSUME NEW v \in Visited(q), NEW t \in Names
        PROVE  /\ Leads(v, t) /\ zone[t].outcome \in Missing => BrokenAt(v, t) \in FoundBroken(o)
               /\ Leads(v, t) /\ Contains(Chain(v), t) => Append(Chain(v), t) \in Values(o.cycles)
    <2>1. CASE v = w
      BY <2>1
    <2>2. CASE v \in Visited(p)
      BY <2>2 DEF Exact
    <2> QED BY <2>1, <2>2
  <1>4. ASSUME o.found
        PROVE  o.permError = "" <=> /\ o.void <= lim.void
                                    /\ o.broken = <<>>
                                    /\ \A v \in Visited(q) : ~Leads(v, NoName)
    <2>1. out.permError = "" <=> /\ out.void <= lim.void
                                 /\ out.broken = <<>>
                                 /\ \A v \in Visited(p) : ~Leads(v, NoName)
      BY <1>4 DEF Exact
    <2>2. \/ Leads(w, NoName) /\ ~\A v \in Visited(q) : ~Leads(v, NoName)
          \/ /\ ~Leads(w, NoName)
             /\ (\A v \in Visited(q) : ~Leads(v, NoName)) <=> \A v \in Visited(p) : ~Leads(v, NoName)
      OBVIOUS
    <2>3. out.void \in Nat /\ lim.void \in Nat
      BY DEF Typed, Result
    <2>4. CASE /\ o.permError = out.permError /\ o.void = out.void /\ o.broken = out.broken
               /\ ~Leads(w, NoName)
      BY <2>1, <2>2, <2>4
    <2>5. CASE /\ o.void = out.void + 1 /\ o.broken = out.broken /\ ~Leads(w, NoName)
               /\ o.permError = "" <=> out.permError = "" /\ o.void <= lim.void
      <3>1. o.void <= lim.void => out.void <= lim.void
        <4>1. o.void = out.void + 1
          BY <2>5
        <4> QED BY <2>3, <4>1
      <3> QED BY <2>1, <2>2, <2>5, <3>1
    <2>6. CASE o.permError # "" /\ (o.broken # <<>> \/ Leads(w, NoName))
      BY <2>2, <2>6
    <2> QED BY <2>4, <2>5, <2>6 DEF Judged
  <1> QED BY <1>2, <1>3, <1>4 DEF Exact

\* What is found at the end of a way: nothing, a broken target or a cycle.
Finds(o, w) ==
    \/ /\ o.broken = out.broken /\ o.cycles = out.cycles
       /\ \A t \in Names : Leads(w, t) => zone[t].outcome \notin Missing /\ ~Contains(Path, t)
    \/ \E t \in Names, b \in BrokenTarget :
          /\ Leads(w, t) /\ zone[t].outcome \in Missing /\ ~Contains(Path, t)
          /\ b.parent = Parent(w) /\ b.target = t /\ b.reason = zone[t].outcome
          /\ o.broken = Append(out.broken, b) /\ o.cycles = out.cycles
    \/ \E t \in Names :
          /\ Leads(w, t) /\ zone[t].outcome \notin Missing /\ Contains(Path, t)
          /\ o.cycles = Append(out.cycles, Append(Path, t)) /\ o.broken = out.broken

\* What is found at the end of a way that is visited is real, and all there is.
LEMMA FindingsGrow ==
    ASSUME Typed, stack # <<>>, NEW w \in Ways, Chain(w) = Path, Parent(w) \in Names,
           \A t, u : Leads(w, t) /\ Leads(w, u) => t = u,
           FindingsReal(out), NEW o, Finds(o, w)
    PROVE  /\ FindingsReal(o)
           /\ FoundBroken(out) \subseteq FoundBroken(o)
           /\ Values(out.cycles) \subseteq Values(o.cycles)
           /\ \A t \in Names :
                 /\ Leads(w, t) /\ zone[t].outcome \in Missing => BrokenAt(w, t) \in FoundBroken(o)
                 /\ Leads(w, t) /\ Contains(Chain(w), t) => Append(Chain(w), t) \in Values(o.cycles)
  <1>1. /\ out.broken \in Seq(BrokenTarget) /\ out.cycles \in Seq(Seq(Names))
        /\ \A t \in Names : Append(Path, t) \in Seq(Names)
    BY TopTypes DEF Typed, Result, BrokenTargets, Cycles
  <1>2. CASE /\ o.broken = out.broken /\ o.cycles = out.cycles
             /\ \A t \in Names : Leads(w, t) => zone[t].outcome \notin Missing /\ ~Contains(Path, t)
    <2>1. FoundBroken(o) = FoundBroken(out) /\ Values(o.cycles) = Values(out.cycles)
      BY <1>2 DEF FoundBroken
    <2> QED BY <1>2, <2>1 DEF FindingsReal
  <1>3. ASSUME NEW t \in Names, NEW b \in BrokenTarget,
               Leads(w, t), zone[t].outcome \in Missing, ~Contains(Path, t),
               b.parent = Parent(w), b.target = t, b.reason = zone[t].outcome,
               o.broken = Append(out.broken, b), o.cycles = out.cycles
        PROVE  /\ FindingsReal(o)
               /\ FoundBroken(out) \subseteq FoundBroken(o)
               /\ Values(out.cycles) \subseteq Values(o.cycles)
               /\ BrokenAt(w, t) \in FoundBroken(o)
    <2>1. Values(o.broken) = Values(out.broken) \cup {b}
      BY <1>1, <1>3, ValuesAppend
    <2>2. BrokenAt(w, t) = <<b.parent, b.target, b.reason>>
      BY <1>3 DEF BrokenAt
    <2>3. FoundBroken(o) = FoundBroken(out) \cup {BrokenAt(w, t)}
      BY <2>1, <2>2 DEF FoundBroken
    <2>4. BrokenAt(w, t) \in RealBroken
      <3>1. BrokenAt(w, t) \in Names \X Names \X Missing
        BY <1>3 DEF BrokenAt
      <3>2. /\ BrokenAt(w, t)[1] = Parent(w) /\ BrokenAt(w, t)[2] = t
            /\ BrokenAt(w, t)[3] = zone[t].outcome
        BY DEF BrokenAt
      <3>3. PICK l \in Names \X Names \X Missing : l = BrokenAt(w, t)
        BY <3>1
      <3>4. /\ zone[l[2]].outcome = l[3]
            /\ \E v \in Ways : Parent(v) = l[1] /\ Leads(v, l[2])
        BY <1>3, <3>2, <3>3
      <3> QED BY <3>3, <3>4 DEF RealBroken
    <2>5. Values(o.cycles) = Values(out.cycles)
      BY <1>3
    <2> QED BY <2>3, <2>4, <2>5 DEF FindingsReal
  <1>4. ASSUME NEW t \in Names, Leads(w, t), zone[t].outcome \notin Missing, Contains(Path, t),
               o.cycles = Append(out.cycles, Append(Path, t)), o.broken = out.broken
        PROVE  /\ FindingsReal(o)
               /\ FoundBroken(out) \subseteq FoundBroken(o)
               /\ Values(out.cycles) \subseteq Values(o.cycles)
               /\ Append(Chain(w), t) \in Values(o.cycles)
    <2>1. PICK c \in Seq(Names) : c = Append(Path, t)
      BY <1>1
    <2>2. Values(o.cycles) = Values(out.cycles) \cup {c}
      <3>1. o.cycles = Append(out.cycles, c)
        BY <1>4, <2>1
      <3>2. PICK S : S = Seq(Names)
        OBVIOUS
      <3>3. out.cycles \in Seq(S) /\ c \in S
        BY <1>1, <3>2
      <3>4. Values(Append(out.cycles, c)) = Values(out.cycles) \cup {c}
        BY <3>3, ValuesAppend
      <3> QED BY <3>1, <3>4
    <2>3. c \in RealCycles
      <3>1. PICK l \in {m \in Ways \X Names : Leads(m[1], m[2]) /\ Contains(Chain(m[1]), m[2])} :
              l = <<w, t>>
        BY <1>4
      <3>2. c = Append(Chain(l[1]), l[2])
        BY <2>1, <3>1
      <3> QED BY <3>2 DEF RealCycles
    <2>4. FoundBroken(o) = FoundBroken(out)
      BY <1>4 DEF FoundBroken
    <2> QED BY <2>1, <2>2, <2>3, <2>4 DEF FindingsReal
  <1>5. ASSUME NEW t \in Names, NEW b \in BrokenTarget,
               Leads(w, t), zone[t].outcome \in Missing, ~Contains(Path, t),
               b.parent = Parent(w), b.target = t, b.reason = zone[t].outcome,
               o.broken = Append(out.broken, b), o.cycles = out.cycles
        PROVE  \A u \in Names :
                 /\ Leads(w, u) /\ zone[u].outcome \in Missing => BrokenAt(w, u) \in FoundBroken(o)
                 /\ Leads(w, u) /\ Contains(Chain(w), u) => Append(Chain(w), u) \in Values(o.cycles)
    BY <1>3, <1>5
  <1>6. ASSUME NEW t \in Names, Leads(w, t), zone[t].outcome \notin Missing, Contains(Path, t),
               o.cycles = Append(out.cycles, Append(Path, t)), o.broken = out.broken
        PROVE  \A u \in Names :
                 /\ Leads(w, u) /\ zone[u].outcome \in Missing => BrokenAt(w, u) \in FoundBroken(o)
                 /\ Leads(w, u) /\ Contains(Chain(w), u) => Append(Chain(w), u) \in Values(o.cycles)
    BY <1>4, <1>6
  <1> QED BY <1>2, <1>3, <1>4, <1>5, <1>6 DEF Finds

\* A term that is paid for, whatever it turns out to be, is counted and judged.
LEMMA PaidStep ==
    ASSUME Typed, stack # <<>>, TreeInv(stack, out),
           NEW rest \in Seq(FrameType), NEW w, Pays(rest, w),
           NEW o, o.terms = out.terms + 1, o.found = out.found, o.termsExact = out.termsExact,
           Finds(o, w), Judged(o, w),
           NEW s, \/ s = rest /\ \A t : Leads(w, t) /\ Usable(t) => Contains(Path, t)
                  \/ \E b : /\ Leads(w, b) /\ Usable(b) /\ ~Contains(Path, b)
                            /\ s = Append(rest, Frame(b))
    PROVE  TreeInv(s, o)
  <1>1. OnTheWay(stack) /\ FindingsReal(out) /\ (out.termsExact => Exact(Place(stack), out))
    BY DEF TreeInv
  <1>2. Top.name \in Names
    BY TopTypes
  <1>3. /\ OnTheWay(rest) /\ w \in Ways /\ w \notin Visited(Place(stack))
        /\ Parent(w) = Top.name /\ Chain(w) = Path
        /\ \A t : Leads(w, t) <=> Sends(Top.name, At(rest[Len(stack)]), t)
        /\ (\A t : Leads(w, t) /\ Usable(t) => Contains(Path, t))
             => Visited(Place(rest)) = Visited(Place(stack)) \cup {w}
        /\ \A b : Leads(w, b) /\ Usable(b) /\ ~Contains(Path, b)
             => /\ OnTheWay(Append(rest, Frame(b)))
                /\ Visited(Place(Append(rest, Frame(b)))) = Visited(Place(stack)) \cup {w}
    BY <1>1, PaidWay
  <1>4. OnTheWay(s) /\ Visited(Place(s)) = Visited(Place(stack)) \cup {w}
    <2>1. CASE s = rest /\ \A t : Leads(w, t) /\ Usable(t) => Contains(Path, t)
      BY <1>3, <2>1
    <2>2. ASSUME NEW b, Leads(w, b), Usable(b), ~Contains(Path, b), s = Append(rest, Frame(b))
          PROVE  OnTheWay(s) /\ Visited(Place(s)) = Visited(Place(stack)) \cup {w}
      BY <1>3, <2>2
    <2> QED BY <2>1, <2>2
  <1>5. \A t, u : Leads(w, t) /\ Leads(w, u) => t = u
    <2> SUFFICES ASSUME NEW t, NEW u, Leads(w, t), Leads(w, u) PROVE t = u
      OBVIOUS
    <2>1. PICK k : k = At(rest[Len(stack)])
      OBVIOUS
    <2>2. Sends(Top.name, k, t) /\ Sends(Top.name, k, u)
      BY <1>3, <2>1
    <2> QED BY <1>2, <2>2, SendsOne
  <1>6. /\ FindingsReal(o)
        /\ FoundBroken(out) \subseteq FoundBroken(o)
        /\ Values(out.cycles) \subseteq Values(o.cycles)
        /\ \A t \in Names :
              /\ Leads(w, t) /\ zone[t].outcome \in Missing => BrokenAt(w, t) \in FoundBroken(o)
              /\ Leads(w, t) /\ Contains(Chain(w), t) => Append(Chain(w), t) \in Values(o.cycles)
    BY <1>1, <1>2, <1>3, <1>5, FindingsGrow
  <1>7. ASSUME out.termsExact
        PROVE  Exact(Place(s), o)
    <2>1. PICK p, q : p = Place(stack) /\ q = Place(s)
      OBVIOUS
    <2>2. Exact(p, out) /\ w \in Ways /\ w \notin Visited(p) /\ Visited(q) = Visited(p) \cup {w}
      BY <1>1, <1>3, <1>4, <1>7, <2>1
    <2>3. Exact(q, o)
      BY <1>6, <2>2, ExactGrows
    <2> QED BY <2>1, <2>3
  <1> QED BY <1>4, <1>6, <1>7 DEF TreeInv

\* What is counted and found, as the nodes of a result and its includes are not.
SameFindings(o, u) ==
    /\ o.found = u.found /\ o.terms = u.terms /\ o.termsExact = u.termsExact
    /\ o.void = u.void /\ o.broken = u.broken /\ o.cycles = u.cycles
    /\ o.permError = u.permError

\* Nodes and includes are no findings; counting a term, or failing, changes one.
LEMMA VisitKeeps ==
    ASSUME NEW o \in Result, NEW target, NEW via, NEW outcome
    PROVE  SameFindings(Visit(o, target, via, outcome), o)
  BY DEF Visit, Result, SameFindings

LEMMA CountedKeeps ==
    ASSUME Typed
    PROVE  /\ Counted \in Result /\ Counted.terms = out.terms + 1
           /\ Counted.found = out.found /\ Counted.termsExact = out.termsExact
           /\ Counted.void = out.void /\ Counted.broken = out.broken
           /\ Counted.cycles = out.cycles /\ Counted.permError = out.permError
  BY DEF Typed, Counted, Result

LEMMA ReachedKeeps ==
    ASSUME Typed, NEW target \in Names
    PROVE  Reached(target) \in Result /\ SameFindings(Reached(target), Counted)
  <1> DEFINE new == IF Contains(Counted.includes, target) THEN Counted.includes
                    ELSE Append(Counted.includes, target)
  <1>1. Reached(target) = [Counted EXCEPT !.includes = new]
    BY DEF Reached
  <1> HIDE DEF new
  <1> QED BY <1>1, CountedType, ReachedType DEF Result, SameFindings

LEMMA FailedKeeps ==
    ASSUME NEW o \in Result
    PROVE  /\ Failed(o) \in Result /\ ~Failed(o).termsExact
           /\ Failed(o).broken = o.broken /\ Failed(o).cycles = o.cycles
  BY DEF Failed, Result

\* A walk that is given up has found what it had found.
LEMMA GivesUp ==
    ASSUME FindingsReal(out), NEW o, ~o.termsExact, o.broken = out.broken, o.cycles = out.cycles
    PROVE  TreeInv(<<>>, o)
  <1>1. OnTheWay(<<>>)
    BY DEF OnTheWay
  <1>2. FindingsReal(o)
    BY DEF FindingsReal, FoundBroken
  <1> QED BY <1>1, <1>2 DEF TreeInv

\* Nothing is paid for.
LEMMA QuietStep ==
    ASSUME TreeInv(stack, out), NEW s, OnTheWay(s), Visited(Place(s)) = Visited(Place(stack)),
           NEW o, SameFindings(o, out)
    PROVE  TreeInv(s, o)
  <1>1. FindingsReal(o)
    BY DEF TreeInv, FindingsReal, FoundBroken, SameFindings
  <1>2. ASSUME o.termsExact
        PROVE  Exact(Place(s), o)
    <2>1. Exact(Place(stack), out)
      BY <1>2 DEF TreeInv, SameFindings
    <2>2. PICK p, q : p = Place(stack) /\ q = Place(s)
      OBVIOUS
    <2>3. Exact(p, out) /\ Visited(q) = Visited(p)
      BY <2>1, <2>2
    <2>4. FoundBroken(o) = FoundBroken(out) /\ Values(o.cycles) = Values(out.cycles)
      BY DEF FoundBroken, SameFindings
    <2>5. Exact(q, o)
      BY <2>3, <2>4 DEF Exact, SameFindings
    <2> QED BY <2>2, <2>5
  <1> QED BY <1>1, <1>2 DEF TreeInv

\* The stack after a term, and with the redirect on top forgotten.
LEMMA TopRead ==
    ASSUME Typed, stack # <<>>
    PROVE  /\ Len(Advanced) = Len(stack) /\ Advanced \in Seq(FrameType)
           /\ \A i \in 1 .. Len(stack) - 1 : Advanced[i] = stack[i]
           /\ Advanced[Len(stack)].name = Top.name
           /\ Advanced[Len(stack)].next = Top.next + 1
           /\ Advanced[Len(stack)].redirect = Top.redirect
  <1>1. PICK m \in Nat \ {0} : m = Len(stack)
    BY TopTypes
  <1>2. PICK f \in FrameType : f = Top /\ f = stack[m] /\ f.next \in Nat
    BY <1>1, TopTypes
  <1>3. stack \in Seq(FrameType) /\ DOMAIN stack = 1 .. m
    BY <1>1 DEF Typed
  <1>4. PICK g : g = [f EXCEPT !.next = f.next + 1]
    OBVIOUS
  <1>5. Advanced = [stack EXCEPT ![m] = g]
    BY <1>1, <1>2, <1>3, <1>4 DEF Advanced
  <1>6. g.name = f.name /\ g.next = f.next + 1 /\ g.redirect = f.redirect
    BY <1>4 DEF FrameType
  <1>7. m \in 1 .. m /\ \A i \in 1 .. m - 1 : i # m /\ i \in 1 .. m
    OBVIOUS
  <1>8. Advanced[m] = g /\ \A i \in 1 .. m - 1 : Advanced[i] = stack[i]
    BY <1>3, <1>5, <1>7
  <1> QED BY <1>1, <1>2, <1>6, <1>8, StackTypes

\* Forgetting the redirect of the record on top, and noting one.
LEMMA TopForgets ==
    ASSUME Typed, stack # <<>>, NEW rest, rest = [stack EXCEPT ![Len(stack)].redirect = <<>>]
    PROVE  /\ Len(rest) = Len(stack) /\ rest \in Seq(FrameType)
           /\ \A i \in 1 .. Len(stack) - 1 : rest[i] = stack[i]
           /\ rest[Len(stack)].name = Top.name
           /\ rest[Len(stack)].next = Top.next
           /\ rest[Len(stack)].redirect = <<>>
  <1>1. PICK m \in Nat \ {0} : m = Len(stack)
    BY TopTypes
  <1>2. PICK f \in FrameType : f = Top /\ f = stack[m] /\ f.next \in Nat
    BY <1>1, TopTypes
  <1>3. stack \in Seq(FrameType) /\ DOMAIN stack = 1 .. m
    BY <1>1 DEF Typed
  <1>4. PICK g : g = [f EXCEPT !.redirect = <<>>]
    OBVIOUS
  <1>5. rest = [stack EXCEPT ![m] = g]
    BY <1>1, <1>2, <1>3, <1>4
  <1>6. g.name = f.name /\ g.next = f.next /\ g.redirect = <<>>
    BY <1>4 DEF FrameType
  <1>7. m \in 1 .. m /\ \A i \in 1 .. m - 1 : i # m /\ i \in 1 .. m
    OBVIOUS
  <1>8. rest[m] = g /\ \A i \in 1 .. m - 1 : rest[i] = stack[i]
    BY <1>3, <1>5, <1>7
  <1>9. rest \in Seq(FrameType) /\ Len(rest) = Len(stack)
    BY StackTypes
  <1> QED BY <1>1, <1>2, <1>6, <1>8, <1>9

\* What is kept when a redirect is noted.
LEMMA TopNotes ==
    ASSUME Typed, stack # <<>>, NEW t \in Term,
           NEW rest, rest = [Advanced EXCEPT ![Len(stack)].redirect = <<t>>]
    PROVE  /\ Len(rest) = Len(stack) /\ rest \in Seq(FrameType)
           /\ \A i \in 1 .. Len(stack) - 1 : rest[i] = stack[i]
           /\ rest[Len(stack)].name = Top.name
           /\ rest[Len(stack)].next = Top.next + 1
           /\ rest[Len(stack)].redirect = <<t>>
  <1>1. PICK m \in Nat \ {0} : m = Len(stack)
    BY TopTypes
  <1>2. /\ Advanced \in Seq(FrameType) /\ Len(Advanced) = m /\ DOMAIN Advanced = 1 .. m
        /\ \A i \in 1 .. m - 1 : Advanced[i] = stack[i]
        /\ Advanced[m].name = Top.name /\ Advanced[m].next = Top.next + 1
    BY <1>1, TopRead
  <1>3. PICK f \in FrameType : f = Advanced[m]
    BY <1>2
  <1>4. PICK g : g = [f EXCEPT !.redirect = <<t>>]
    OBVIOUS
  <1>5. rest = [Advanced EXCEPT ![m] = g]
    BY <1>1, <1>2, <1>3, <1>4
  <1>6. g.name = f.name /\ g.next = f.next /\ g.redirect = <<t>>
    BY <1>4 DEF FrameType
  <1>7. m \in 1 .. m /\ \A i \in 1 .. m - 1 : i # m /\ i \in 1 .. m
    OBVIOUS
  <1>8. rest[m] = g /\ \A i \in 1 .. m - 1 : rest[i] = stack[i]
    BY <1>2, <1>5, <1>7
  <1>9. rest \in Seq(FrameType) /\ Len(rest) = Len(stack)
    BY StackTypes
  <1> QED BY <1>1, <1>2, <1>3, <1>6, <1>8, <1>9

-----------------------------------------------------------------------------
(***************************************************************************)
(* The steps on the stack as it is.                                        *)
(***************************************************************************)
\* The record on top.
LEMMA TopSound ==
    ASSUME Typed, stack # <<>>, OnTheWay(stack)
    PROVE  FrameSound(Top) /\ Top \in FrameType /\ At(Top) \in Nat
  <1>1. PICK m \in Nat \ {0} : m = Len(stack) /\ Top = stack[m] /\ stack \in Seq(FrameType)
    BY TopTypes DEF Typed
  <1>2. FrameSound(stack[m]) /\ Top \in FrameType
    BY <1>1, TopTypes DEF OnTheWay
  <1>3. PICK f \in FrameType : f = Top
    BY <1>2
  <1>4. f.next \in Nat \ {0}
    BY DEF FrameType
  <1>5. At(f) \in Nat
    BY <1>4 DEF At
  <1> QED BY <1>1, <1>2, <1>3, <1>5

\* A term that costs, and a redirect that is followed, pay for the next way.
LEMMA TermPays ==
    ASSUME Typed, stack # <<>>, OnTheWay(stack), Top.next <= Len(Terms),
           Terms[Top.next].kind \in {"include", "lookup", "opaque"}
    PROVE  /\ Pays(Advanced, Place(Advanced)) /\ Advanced \in Seq(FrameType)
           /\ \A t : Leads(Place(Advanced), t)
                       <=> Terms[Top.next].kind = "include" /\ t = Terms[Top.next].target
  <1>1. PICK m \in Nat \ {0} : m = Len(stack)
    BY TopTypes
  <1>2. PICK f \in FrameType : f = Top /\ FrameSound(f) /\ At(f) \in Nat
    BY TopSound
  <1>3. PICK x, n : x = f.next /\ n = f.name
    OBVIOUS
  <1>4. x <= Len(zone[n].terms) /\ Kind(n, x) \in {"include", "lookup", "opaque"}
        /\ zone[n].terms = Terms
    BY <1>2, <1>3 DEF Terms, Kind
  <1>5. /\ x \in Nat /\ x # 0 /\ At(f) = x - 1 /\ x \in Costs(n)
        /\ \A t : Sends(n, x, t) <=> Kind(n, x) = "include" /\ t = zone[n].terms[x].target
    BY <1>2, <1>3, <1>4, TermRead
  <1>6. PICK g : g = Advanced[m]
    OBVIOUS
  <1>7. /\ Advanced \in Seq(FrameType) /\ Len(Advanced) = m
        /\ \A i \in 1 .. m - 1 : Advanced[i] = stack[i]
        /\ g.name = n /\ g.next = x + 1 /\ g.redirect = f.redirect
    BY <1>1, <1>2, <1>3, <1>6, TopRead
  <1>8. FrameSound(g) /\ At(g) = x
    <2>1. Kind(n, x) # "all" /\ Kind(n, x) # "redirect"
      BY <1>4
    <2> QED BY <1>2, <1>3, <1>4, <1>7, <2>1, FrameRead
  <1>9. Pays(Advanced, Place(Advanced))
    <2>1. At(g) \in Costs(n) /\ At(g) > At(f) /\ At(g) <= At(f) + 1
      BY <1>2, <1>5, <1>8
    <2> QED BY <1>1, <1>2, <1>3, <1>6, <1>7, <1>8, <2>1 DEF Pays
  <1>10. \A t : Leads(Place(Advanced), t) <=> Sends(Top.name, At(Advanced[Len(stack)]), t)
    BY <1>7, <1>9, PaidWay
  <1>11. \A t : Leads(Place(Advanced), t) <=> Sends(n, x, t)
    BY <1>1, <1>2, <1>3, <1>6, <1>8, <1>10
  <1>12. /\ Kind(n, x) = Terms[Top.next].kind
         /\ zone[n].terms[x] = Terms[Top.next]
    BY <1>2, <1>3 DEF Kind, Terms
  <1> QED BY <1>5, <1>7, <1>9, <1>11, <1>12

LEMMA RedirectPays ==
    ASSUME Typed, stack # <<>>, OnTheWay(stack), Top.next > Len(Terms), Top.redirect # <<>>,
           NEW rest, rest = [stack EXCEPT ![Len(stack)].redirect = <<>>]
    PROVE  /\ Pays(rest, Place(rest)) /\ rest \in Seq(FrameType)
           /\ \A t : Leads(Place(rest), t) <=> t = Head(Top.redirect).target
  <1>1. PICK m \in Nat \ {0} : m = Len(stack)
    BY TopTypes
  <1>2. PICK f \in FrameType : f = Top /\ FrameSound(f) /\ At(f) \in Nat
    BY TopSound
  <1>3. PICK n : n = f.name
    OBVIOUS
  <1>4. f.next > Len(zone[n].terms) /\ f.redirect # <<>>
    BY <1>2, <1>3 DEF Terms
  <1>5. /\ At(f) = End(n) - 1 /\ End(n) \in Costs(n)
        /\ \A t : Sends(n, End(n), t) <=> t = Head(f.redirect).target
        /\ \A g : g.name = n /\ g.next = f.next /\ g.redirect = <<>>
                    => FrameSound(g) /\ At(g) = End(n)
    BY <1>2, <1>3, <1>4, FrameEnd
  <1>6. PICK g : g = rest[m]
    OBVIOUS
  <1>7. /\ rest \in Seq(FrameType) /\ Len(rest) = m
        /\ \A i \in 1 .. m - 1 : rest[i] = stack[i]
        /\ g.name = n /\ g.next = f.next /\ g.redirect = <<>>
    BY <1>1, <1>2, <1>3, <1>6, TopForgets
  <1>8. FrameSound(g) /\ At(g) = End(n)
    BY <1>5, <1>7
  <1>9. Pays(rest, Place(rest))
    <2>1. n \in Names
      BY <1>3 DEF FrameType
    <2>2. End(n) \in Nat
      BY <2>1, RecordType
    <2>3. At(g) \in Costs(n) /\ At(g) > At(f) /\ At(g) <= At(f) + 1
      BY <1>2, <1>5, <1>8, <2>2
    <2> QED BY <1>1, <1>2, <1>3, <1>6, <1>7, <1>8, <2>3 DEF Pays
  <1>10. \A t : Leads(Place(rest), t) <=> Sends(Top.name, At(rest[Len(stack)]), t)
    BY <1>7, <1>9, PaidWay
  <1>11. \A t : Leads(Place(rest), t) <=> Sends(n, End(n), t)
    BY <1>1, <1>2, <1>3, <1>6, <1>8, <1>10
  <1> QED BY <1>2, <1>5, <1>7, <1>9, <1>11

\* A term that costs nothing is read.
LEMMA FreeRead ==
    ASSUME Typed, stack # <<>>, OnTheWay(stack), Top.next <= Len(Terms),
           Terms[Top.next].kind \in {"free", "redirect"},
           NEW rest \in Seq(FrameType), Len(rest) = Len(stack),
           \A i \in 1 .. Len(stack) - 1 : rest[i] = stack[i],
           rest[Len(stack)].name = Top.name, rest[Len(stack)].next = Top.next + 1,
           \/ Terms[Top.next].kind = "free" /\ rest[Len(stack)].redirect = Top.redirect
           \/ /\ Terms[Top.next].kind = "redirect"
              /\ rest[Len(stack)].redirect = <<Terms[Top.next]>>
    PROVE  OnTheWay(rest) /\ Visited(Place(rest)) = Visited(Place(stack))
  <1>1. PICK m \in Nat \ {0} : m = Len(stack) /\ Top = stack[m] /\ stack \in Seq(FrameType)
    BY TopTypes DEF Typed
  <1>2. PICK f \in FrameType : f = Top /\ FrameSound(f) /\ At(f) \in Nat
    BY TopSound
  <1>3. PICK x, n : x = f.next /\ n = f.name
    OBVIOUS
  <1>4. x <= Len(zone[n].terms) /\ Kind(n, x) \in {"free", "redirect"}
        /\ zone[n].terms = Terms
    BY <1>2, <1>3 DEF Terms, Kind
  <1>5. x \in Nat /\ x # 0 /\ At(f) = x - 1 /\ x \notin Costs(n)
    BY <1>2, <1>3, <1>4, TermRead
  <1>6. PICK g : g = rest[m]
    OBVIOUS
  <1>7. /\ Len(rest) = m /\ \A i \in 1 .. m - 1 : rest[i] = stack[i]
        /\ g.name = n /\ g.next = x + 1
        /\ \/ Kind(n, x) # "redirect" /\ g.redirect = f.redirect
           \/ Kind(n, x) = "redirect" /\ g.redirect = <<zone[n].terms[x]>>
    BY <1>1, <1>2, <1>3, <1>4, <1>6 DEF Kind
  <1>8. FrameSound(g) /\ At(g) = x
    <2>1. Kind(n, x) # "all"
      BY <1>4
    <2> QED BY <1>2, <1>3, <1>4, <1>7, <2>1, FrameRead
  <1>9. /\ OnTheWay(rest) /\ Standing(Place(rest), m)
        /\ \A i \in 1 .. m - 1 : Place(rest)[i] = Place(stack)[i]
        /\ Place(rest)[m][1] = stack[m].name /\ Place(rest)[m][2] = At(rest[m])
    <2>1. rest[m].name = stack[m].name /\ FrameSound(rest[m])
      BY <1>1, <1>2, <1>3, <1>6, <1>7, <1>8
    <2> QED BY <1>1, <1>7, <2>1, Replaced
  <1>10. PICK p, q : p = Place(stack) /\ q = Place(rest)
    OBVIOUS
  <1>11. Standing(p, m) /\ p[m] = <<n, At(f)>>
    <2>1. m \in 1 .. m
      OBVIOUS
    <2> QED BY <1>1, <1>2, <1>3, <1>10, <2>1, PlaceOf
  <1>12. /\ Standing(q, m) /\ \A i \in 1 .. m - 1 : q[i] = p[i]
         /\ q[m][1] = n /\ q[m][2] = x
    BY <1>1, <1>2, <1>3, <1>6, <1>8, <1>9, <1>10
  <1>13. p[m][1] = n /\ p[m][2] = x - 1
    BY <1>5, <1>11
  <1>14. /\ q[m][1] = p[m][1] /\ q[m][2] > p[m][2] /\ q[m][2] <= p[m][2] + 1
         /\ q[m][2] \notin Costs(p[m][1])
    BY <1>5, <1>12, <1>13
  <1>15. Visited(q) = Visited(p)
    BY <1>11, <1>12, <1>14, ReadFree, SMTT(60)
  <1> QED BY <1>9, <1>10, <1>15

\* A record has nothing more to pay for.
LEMMA RecordRead ==
    ASSUME Typed, stack # <<>>, OnTheWay(stack), \A k \in Costs(Top.name) : k <= At(Top)
    PROVE  /\ OnTheWay(Front(stack))
           /\ Visited(Place(Front(stack))) = Visited(Place(stack))
  <1>1. PICK m \in Nat \ {0} : m = Len(stack) /\ Top = stack[m] /\ stack \in Seq(FrameType)
    BY TopTypes DEF Typed
  <1>2. PICK rest \in Seq(FrameType) : rest = Front(stack) /\ Len(rest) = m - 1
    BY <1>1, StackTypes
  <1>3. \A i \in 1 .. m - 1 : rest[i] = stack[i]
    <2>1. rest = SubSeq(stack, 1, m - 1)
      BY <1>1, <1>2 DEF Front
    <2>2. PICK l \in Nat : l = m - 1
      OBVIOUS
    <2>3. l <= Len(stack) /\ rest = SubSeq(stack, 1, l)
      BY <1>1, <2>1, <2>2
    <2>4. \A i \in 1 .. l : rest[i] = stack[i]
      BY <1>1, <2>3
    <2> QED BY <2>2, <2>4
  <1>4. /\ OnTheWay(rest) /\ DOMAIN Place(rest) = 1 .. m - 1
        /\ \A i \in 1 .. m - 1 : Place(rest)[i] = Place(stack)[i]
    <2>1. m = Len(stack) /\ rest \in Seq(FrameType) /\ Len(rest) = m - 1
      BY <1>1, <1>2
    <2>2. stack # <<>> /\ OnTheWay(stack) /\ stack \in Seq(FrameType)
      BY <1>1
    <2> QED BY <1>3, <2>1, <2>2, Popped, SMTT(60)
  <1>5. PICK p, q : p = Place(stack) /\ q = Place(rest)
    OBVIOUS
  <1>6. Standing(p, m) /\ p[m] = <<Top.name, At(Top)>>
    <2>1. m \in 1 .. m
      OBVIOUS
    <2> QED BY <1>1, <1>5, <2>1, PlaceOf
  <1>7. /\ \A k \in Costs(p[m][1]) : k <= p[m][2]
        /\ DOMAIN q = 1 .. m - 1 /\ \A i \in 1 .. m - 1 : q[i] = p[i]
    BY <1>4, <1>5, <1>6
  <1>8. Visited(q) = Visited(p)
    BY <1>6, <1>7, ReadOut, SMTT(60)
  <1> QED BY <1>2, <1>4, <1>5, <1>8

-----------------------------------------------------------------------------
(***************************************************************************)
(* descend, and the actions that end in it.                                *)
(***************************************************************************)
\* A name on the path is one whose record is being read.
LEMMA OnPathUsable ==
    ASSUME Typed, stack # <<>>, OnTheWay(stack), NEW t, Contains(Path, t)
    PROVE  Usable(t)
  <1>1. PICK m \in Nat \ {0} : m = Len(stack)
    BY TopTypes
  <1>2. Path = [i \in 1 .. m |-> stack[i].name] /\ Len(Path) = m
    <2>1. Path = [i \in 1 .. m |-> stack[i].name]
      BY <1>1 DEF Path
    <2> QED BY <2>1
  <1>3. PICK i \in 1 .. m : stack[i].name = t
    BY <1>2 DEF Contains
  <1>4. FrameSound(stack[i])
    BY <1>1 DEF OnTheWay
  <1> QED BY <1>3, <1>4 DEF FrameSound

\* descend, out of any of its ways.
LEMMA DescendTree ==
    ASSUME Typed, stack # <<>>, TreeInv(stack, out),
           NEW rest \in Seq(FrameType), NEW w, Pays(rest, w),
           NEW target \in Names \cup {NoName}, \A t : Leads(w, t) <=> t = target,
           NEW via \in Vias, Descend(rest, target, via)
    PROVE  TreeInv(stack', out')
  <1>1. OnTheWay(stack) /\ FindingsReal(out)
    BY DEF TreeInv
  <1>2. /\ Top.name \in Names /\ NoName \notin Names
        /\ \A t \in Names : Append(Path, t) \in Seq(Names)
    BY TopTypes, WalkAssumption
  <1>3. Parent(w) = Top.name
    BY <1>1, PaidWay
  <1>4. \A t : Contains(Path, t) => Usable(t)
    BY <1>1, OnPathUsable
  <1>5. \A t : Usable(t) => t \in Names /\ zone[t].outcome = "ok" /\ zone[t].outcome \notin Missing
    BY DEF Usable, Missing
  <1>6. /\ Counted \in Result /\ Counted.terms = out.terms + 1
        /\ Counted.found = out.found /\ Counted.termsExact = out.termsExact
        /\ Counted.void = out.void /\ Counted.broken = out.broken
        /\ Counted.cycles = out.cycles /\ Counted.permError = out.permError
    BY CountedKeeps
  <1>7. CASE NoTarget(rest, target)
    <2> DEFINE o == [Counted EXCEPT !.permError = "syntax"]
    <2>1. target = NoName /\ out' = o /\ stack' = rest
      BY <1>7 DEF NoTarget
    <2>2. /\ o.terms = out.terms + 1 /\ o.found = out.found /\ o.termsExact = out.termsExact
          /\ o.void = out.void /\ o.broken = out.broken /\ o.cycles = out.cycles
          /\ o.permError = "syntax"
      BY <1>6 DEF Result
    <2> HIDE DEF o
    <2>3. Finds(o, w)
      BY <1>2, <2>1, <2>2 DEF Finds
    <2>4. Judged(o, w)
      BY <2>1, <2>2 DEF Judged
    <2>5. \A t : Leads(w, t) /\ Usable(t) => Contains(Path, t)
      BY <1>2, <1>5, <2>1
    <2>6. TreeInv(rest, o)
      BY <2>2, <2>3, <2>4, <2>5, PaidStep
    <2> QED BY <2>1, <2>6
  <1>8. CASE OnPath(rest, target, via)
    <2>1. Contains(Path, target) /\ target \in Names /\ zone[target].outcome \notin Missing
      BY <1>4, <1>5, <1>8 DEF OnPath
    <2> DEFINE r == Reached(target)
               u == [r EXCEPT !.cycles = Append(r.cycles, Append(Path, target))]
               o == Visit(u, target, via, "cycle")
    <2>2. out' = o /\ stack' = rest
      BY <1>8 DEF OnPath
    <2>3. r \in Result /\ SameFindings(r, Counted)
      BY <2>1, ReachedKeeps
    <2>4. /\ u.terms = out.terms + 1 /\ u.found = out.found /\ u.termsExact = out.termsExact
          /\ u.void = out.void /\ u.broken = out.broken
          /\ u.cycles = Append(out.cycles, Append(Path, target))
          /\ u.permError = out.permError
      <3> HIDE DEF r
      <3> QED BY <1>6, <2>3 DEF Result, SameFindings
    <2>5. u \in Result
      <3>1. r.cycles \in Seq(Seq(Names))
        BY <2>3 DEF Result, Cycles
      <3>2. Append(r.cycles, Append(Path, target)) \in Cycles
        BY <1>2, <2>1, <3>1 DEF Cycles
      <3> HIDE DEF r
      <3> QED BY <2>3, <3>2 DEF Result
    <2> HIDE DEF u
    <2>6. SameFindings(o, u)
      BY <2>5, VisitKeeps
    <2> HIDE DEF o
    <2>7. /\ o.terms = out.terms + 1 /\ o.found = out.found /\ o.termsExact = out.termsExact
          /\ o.void = out.void /\ o.broken = out.broken
          /\ o.cycles = Append(out.cycles, Append(Path, target))
          /\ o.permError = out.permError
      BY <2>4, <2>6 DEF SameFindings
    <2>8. Finds(o, w)
      BY <2>1, <2>7 DEF Finds
    <2>9. Judged(o, w)
      BY <1>2, <2>1, <2>7 DEF Judged
    <2>10. \A t : Leads(w, t) /\ Usable(t) => Contains(Path, t)
      BY <2>1
    <2>11. TreeInv(rest, o)
      BY <2>7, <2>8, <2>9, <2>10, PaidStep
    <2> QED BY <2>2, <2>11
  <1>9. CASE TooDeep(target, via)
    <2>1. target \in Names
      BY <1>9 DEF TooDeep
    <2> DEFINE r == Reached(target)
               u == [r EXCEPT !.termsExact = FALSE]
               o == Visit(u, target, via, "limit")
    <2>2. out' = o /\ stack' = <<>>
      BY <1>9 DEF TooDeep, Halted
    <2>3. r \in Result /\ SameFindings(r, Counted)
      BY <2>1, ReachedKeeps
    <2>4. u \in Result /\ ~u.termsExact /\ u.broken = out.broken /\ u.cycles = out.cycles
      <3> HIDE DEF r
      <3> QED BY <1>6, <2>3 DEF Result, SameFindings
    <2> HIDE DEF u
    <2>5. SameFindings(o, u)
      BY <2>4, VisitKeeps
    <2> HIDE DEF o
    <2>6. ~o.termsExact /\ o.broken = out.broken /\ o.cycles = out.cycles
      BY <2>4, <2>5 DEF SameFindings
    <2>7. TreeInv(<<>>, o)
      BY <1>1, <2>6, GivesUp
    <2> QED BY <2>2, <2>7
  <1>10. CASE Unanswered(target, via)
    <2>1. target \in Names
      BY <1>10 DEF Unanswered, LooksUp
    <2> DEFINE r == Reached(target)
               u == Failed(r)
               o == Visit(u, target, via, "temperror")
    <2>2. out' = o /\ stack' = <<>>
      BY <1>10 DEF Unanswered, Halted
    <2>3. r \in Result /\ SameFindings(r, Counted)
      BY <2>1, ReachedKeeps
    <2> HIDE DEF r
    <2>4. u \in Result /\ ~u.termsExact /\ u.broken = r.broken /\ u.cycles = r.cycles
      BY <2>3, FailedKeeps
    <2> HIDE DEF u
    <2>5. SameFindings(o, u)
      BY <2>4, VisitKeeps
    <2> HIDE DEF o
    <2>6. ~o.termsExact /\ o.broken = out.broken /\ o.cycles = out.cycles
      BY <1>6, <2>3, <2>4, <2>5 DEF SameFindings
    <2>7. TreeInv(<<>>, o)
      BY <1>1, <2>6, GivesUp
    <2> QED BY <2>2, <2>7
  <1>11. CASE Broken(rest, target, via)
    <2>1. target \in Names /\ ~Contains(Path, target) /\ zone[target].outcome \in Missing
      BY <1>11 DEF Broken, LooksUp
    <2> DEFINE r == Reached(target)
               b == [parent |-> Top.name, target |-> target, via |-> via,
                     reason |-> zone[target].outcome]
               u1 == [r EXCEPT !.broken = Append(r.broken, b)]
               error == IF u1.permError = "" THEN "include_no_record" ELSE u1.permError
               u == [u1 EXCEPT !.permError = error]
               o == Visit(u, target, via, zone[target].outcome)
    <2>2. out' = o /\ stack' = rest
      BY <1>11 DEF Broken
    <2>3. r \in Result /\ SameFindings(r, Counted)
      BY <2>1, ReachedKeeps
    <2>4. /\ b \in BrokenTarget /\ b.parent = Top.name /\ b.target = target
          /\ b.reason = zone[target].outcome
      BY <1>2, <2>1 DEF BrokenTarget
    <2> HIDE DEF b, r
    <2>5. Append(r.broken, b) \in BrokenTargets
      <3>1. r.broken \in Seq(BrokenTarget)
        BY <2>3 DEF Result, BrokenTargets
      <3> QED BY <2>4, <3>1 DEF BrokenTargets
    <2>6. /\ u1 \in Result
          /\ u1.terms = out.terms + 1 /\ u1.found = out.found /\ u1.termsExact = out.termsExact
          /\ u1.void = out.void /\ u1.broken = Append(out.broken, b) /\ u1.cycles = out.cycles
      BY <1>6, <2>3, <2>5 DEF Result, SameFindings
    <2> HIDE DEF u1
    <2>7. error \in PermErrors /\ error # ""
      BY <2>6 DEF Result, PermErrors
    <2> HIDE DEF error
    <2>8. /\ u \in Result /\ u.permError = error
          /\ u.terms = out.terms + 1 /\ u.found = out.found /\ u.termsExact = out.termsExact
          /\ u.void = out.void /\ u.broken = Append(out.broken, b) /\ u.cycles = out.cycles
      BY <2>6, <2>7 DEF Result
    <2> HIDE DEF u
    <2>9. SameFindings(o, u)
      BY <2>8, VisitKeeps
    <2> HIDE DEF o
    <2>10. /\ o.permError # ""
           /\ o.terms = out.terms + 1 /\ o.found = out.found /\ o.termsExact = out.termsExact
           /\ o.void = out.void /\ o.broken = Append(out.broken, b) /\ o.cycles = out.cycles
      BY <2>7, <2>8, <2>9 DEF SameFindings
    <2>11. Finds(o, w)
      <3>1. PICK d \in BrokenTarget : d = b
        BY <2>4
      <3>2. /\ Leads(w, target) /\ zone[target].outcome \in Missing /\ ~Contains(Path, target)
            /\ d.parent = Parent(w) /\ d.target = target /\ d.reason = zone[target].outcome
            /\ o.broken = Append(out.broken, d) /\ o.cycles = out.cycles
        BY <1>3, <2>1, <2>4, <2>10, <3>1
      <3> QED BY <2>1, <3>2 DEF Finds
    <2>12. Judged(o, w)
      <3>1. out.broken \in Seq(BrokenTarget)
        BY DEF Typed, Result, BrokenTargets
      <3>2. Append(out.broken, b) # <<>>
        BY <2>4, <3>1, ValuesAppend
      <3> QED BY <2>10, <3>2 DEF Judged
    <2>13. \A t : Leads(w, t) /\ Usable(t) => Contains(Path, t)
      BY <1>5, <2>1
    <2>14. TreeInv(rest, o)
      BY <2>10, <2>11, <2>12, <2>13, PaidStep
    <2> QED BY <2>2, <2>14
  <1>12. CASE Enter(rest, target, via)
    <2>1. target \in Names /\ ~Contains(Path, target) /\ zone[target].outcome = "ok"
      BY <1>12 DEF Enter, LooksUp
    <2>2. Usable(target) /\ zone[target].outcome \notin Missing
      BY <2>1 DEF Usable, Missing
    <2> DEFINE r == Reached(target)
               o == Visit(r, target, via, "ok")
    <2>3. out' = o /\ stack' = Append(rest, Frame(target))
      BY <1>12 DEF Enter
    <2>4. r \in Result /\ SameFindings(r, Counted)
      BY <2>1, ReachedKeeps
    <2> HIDE DEF r
    <2>5. SameFindings(o, r)
      BY <2>4, VisitKeeps
    <2> HIDE DEF o
    <2>6. /\ o.terms = out.terms + 1 /\ o.found = out.found /\ o.termsExact = out.termsExact
          /\ o.void = out.void /\ o.broken = out.broken /\ o.cycles = out.cycles
          /\ o.permError = out.permError
      BY <1>6, <2>4, <2>5 DEF SameFindings
    <2>7. Finds(o, w)
      BY <2>1, <2>2, <2>6 DEF Finds
    <2>8. Judged(o, w)
      BY <1>2, <2>1, <2>6 DEF Judged
    <2>9. PICK s : s = Append(rest, Frame(target))
      OBVIOUS
    <2>10. \E t : /\ Leads(w, t) /\ Usable(t) /\ ~Contains(Path, t)
                  /\ s = Append(rest, Frame(t))
      BY <2>1, <2>2, <2>9
    <2>11. TreeInv(s, o)
      BY <2>6, <2>7, <2>8, <2>10, PaidStep
    <2> QED BY <2>3, <2>9, <2>11
  <1> QED BY <1>7, <1>8, <1>9, <1>10, <1>11, <1>12 DEF Descend

\* What an include and a redirect lead to is counted and found.
LEMMA IncludeTree ==
    ASSUME Typed, stack # <<>>, TreeInv(stack, out), Include
    PROVE  TreeInv(stack', out')
  <1>1. OnTheWay(stack)
    BY DEF TreeInv
  <1>2. /\ Top.next <= Len(Terms) /\ Terms[Top.next].kind = "include"
        /\ Descend(Advanced, Terms[Top.next].target, "include")
    BY DEF Include, Reading
  <1>3. Terms[Top.next] \in Term
    BY <1>2, TopTypes
  <1>4. Terms[Top.next].target \in Names \cup {NoName} /\ "include" \in Vias
    BY <1>3 DEF Term, Vias
  <1>5. /\ Pays(Advanced, Place(Advanced)) /\ Advanced \in Seq(FrameType)
        /\ \A t : Leads(Place(Advanced), t)
                    <=> Terms[Top.next].kind = "include" /\ t = Terms[Top.next].target
    BY <1>1, <1>2, TermPays
  <1>6. PICK rest \in Seq(FrameType), target \in Names \cup {NoName} :
          rest = Advanced /\ target = Terms[Top.next].target
    BY <1>4, <1>5
  <1>7. PICK w : w = Place(rest)
    OBVIOUS
  <1>8. Pays(rest, w) /\ \A t : Leads(w, t) <=> t = target
    BY <1>2, <1>5, <1>6, <1>7
  <1>9. Descend(rest, target, "include")
    BY <1>2, <1>6
  <1> QED BY <1>4, <1>8, <1>9, DescendTree

LEMMA RedirectTree ==
    ASSUME Typed, stack # <<>>, TreeInv(stack, out), Redirect
    PROVE  TreeInv(stack', out')
  <1>1. OnTheWay(stack)
    BY DEF TreeInv
  <1> DEFINE forgetting == [stack EXCEPT ![Len(stack)].redirect = <<>>]
  <1>2. /\ Top.next > Len(Terms) /\ Top.redirect # <<>>
        /\ Descend(forgetting, Head(Top.redirect).target, "redirect")
    BY DEF Redirect, AtEnd
  <1>3. Head(Top.redirect).target \in Names \cup {NoName} /\ "redirect" \in Vias
    <2>1. PICK t \in Term : Top.redirect = <<t>>
      BY <1>2, TopTypes DEF FrameType
    <2>2. Head(Top.redirect) = t
      BY <2>1
    <2> QED BY <2>2 DEF Term, Vias
  <1>4. PICK rest, target : rest = forgetting /\ target = Head(Top.redirect).target
    OBVIOUS
  <1>5. /\ Pays(rest, Place(rest)) /\ rest \in Seq(FrameType)
        /\ \A t : Leads(Place(rest), t) <=> t = Head(Top.redirect).target
    BY <1>1, <1>2, <1>4, RedirectPays
  <1>6. PICK w : w = Place(rest)
    OBVIOUS
  <1>7. Pays(rest, w) /\ \A t : Leads(w, t) <=> t = target
    BY <1>4, <1>5, <1>6
  <1>8. Descend(rest, target, "redirect") /\ target \in Names \cup {NoName}
    BY <1>2, <1>3, <1>4
  <1> HIDE DEF forgetting
  <1> QED BY <1>3, <1>5, <1>7, <1>8, DescendTree

\* And so for what the other terms cost, and for the end of a record.
LEMMA TermTree ==
    ASSUME Typed, stack # <<>>, TreeInv(stack, out),
           Free \/ NoteRedirect \/ All \/ Return \/ TermOverLimit \/ RedirectOverLimit
             \/ Opaque \/ Answered \/ Void \/ LookupFails
    PROVE  TreeInv(stack', out')
  <1>1. OnTheWay(stack) /\ FindingsReal(out)
    BY DEF TreeInv
  <1>2. out \in Result /\ SameFindings(out, out)
    BY DEF Typed, SameFindings
  <1> DEFINE t == Terms[Top.next]
  <1>3. ASSUME NEW kinds, Reading(kinds)
        PROVE  Top.next <= Len(Terms) /\ t.kind \in kinds /\ t \in Term
    <2>1. Top.next \in 1 .. Len(Terms) /\ Terms \in Seq(Term)
      BY <1>3, TopTypes DEF Reading
    <2> QED BY <1>3, <2>1 DEF Reading
  <1> HIDE DEF t
  <1>4. /\ Counted \in Result /\ Counted.terms = out.terms + 1
        /\ Counted.found = out.found /\ Counted.termsExact = out.termsExact
        /\ Counted.void = out.void /\ Counted.broken = out.broken
        /\ Counted.cycles = out.cycles /\ Counted.permError = out.permError
    BY CountedKeeps
  <1>5. CASE Free
    <2>1. t.kind = "free" /\ Top.next <= Len(Terms)
      BY <1>3, <1>5 DEF Free
    <2>2. OnTheWay(Advanced) /\ Visited(Place(Advanced)) = Visited(Place(stack))
      BY <1>1, <2>1, TopRead, FreeRead DEF t
    <2>3. TreeInv(Advanced, out)
      BY <1>2, <2>2, QuietStep
    <2> QED BY <1>5, <2>3 DEF Free
  <1>6. CASE NoteRedirect
    <2>1. t.kind = "redirect" /\ Top.next <= Len(Terms) /\ t \in Term
      BY <1>3, <1>6 DEF NoteRedirect
    <2>2. PICK u \in Term : u = t
      BY <2>1
    <2>3. PICK rest : rest = [Advanced EXCEPT ![Len(stack)].redirect = <<u>>]
      OBVIOUS
    <2>4. /\ Len(rest) = Len(stack) /\ rest \in Seq(FrameType)
          /\ \A i \in 1 .. Len(stack) - 1 : rest[i] = stack[i]
          /\ rest[Len(stack)].name = Top.name
          /\ rest[Len(stack)].next = Top.next + 1
          /\ rest[Len(stack)].redirect = <<u>>
      BY <2>3, TopNotes
    <2>5. OnTheWay(rest) /\ Visited(Place(rest)) = Visited(Place(stack))
      <3>1. Terms[Top.next].kind = "redirect" /\ rest[Len(stack)].redirect = <<Terms[Top.next]>>
        BY <2>1, <2>2, <2>4 DEF t
      <3> QED BY <1>1, <2>1, <2>4, <3>1, FreeRead
    <2>6. TreeInv(rest, out)
      BY <1>2, <2>5, QuietStep
    <2>7. stack' = rest /\ out' = out
      BY <1>6, <2>2, <2>3 DEF NoteRedirect, t
    <2> QED BY <2>6, <2>7
  <1>7. CASE All
    <2>1. t.kind = "all" /\ Top.next <= Len(Terms)
      BY <1>3, <1>7 DEF All
    <2>2. \A k \in Costs(Top.name) : k <= At(Top)
      <3>1. PICK f \in FrameType : f = Top /\ FrameSound(f)
        BY <1>1, TopSound
      <3>2. PICK x, n : x = f.next /\ n = f.name
        OBVIOUS
      <3>3. Kind(n, x) = "all" /\ x <= Len(zone[n].terms)
        BY <2>1, <3>1, <3>2 DEF Kind, Terms, t
      <3>4. At(f) = x - 1 /\ \A k \in Costs(n) : k <= x - 1
        BY <3>1, <3>2, <3>3, TermRead
      <3> QED BY <3>1, <3>2, <3>4
    <2>3. OnTheWay(Front(stack)) /\ Visited(Place(Front(stack))) = Visited(Place(stack))
      BY <1>1, <2>2, RecordRead
    <2>4. PICK o : o = out'
      OBVIOUS
    <2>5. SameFindings(o, out)
      <3>1. o = out \/ o = [out EXCEPT !.all = TRUE]
        BY <1>7, <2>4 DEF All
      <3>2. CASE o = out
        BY <1>2, <3>2
      <3>3. CASE o = [out EXCEPT !.all = TRUE]
        BY <1>2, <3>3 DEF Result, SameFindings
      <3> QED BY <3>1, <3>2, <3>3
    <2>6. PICK s : s = Front(stack)
      OBVIOUS
    <2>7. TreeInv(s, o)
      BY <2>3, <2>5, <2>6, QuietStep
    <2>8. stack' = Front(stack)
      BY <1>7 DEF All
    <2> QED BY <2>4, <2>6, <2>7, <2>8
  <1>8. CASE Return
    <2>1. Top.next > Len(Terms) /\ Top.redirect = <<>> /\ stack' = Front(stack) /\ out' = out
      BY <1>8 DEF Return, AtEnd
    <2>2. \A k \in Costs(Top.name) : k <= At(Top)
      <3>1. PICK f \in FrameType : f = Top /\ FrameSound(f)
        BY <1>1, TopSound
      <3>2. PICK n : n = f.name
        OBVIOUS
      <3>3. f.redirect = <<>> /\ f.next > Len(zone[n].terms)
        BY <2>1, <3>1, <3>2 DEF Terms
      <3> QED BY <3>1, <3>2, <3>3, FrameEnd
    <2>3. OnTheWay(Front(stack)) /\ Visited(Place(Front(stack))) = Visited(Place(stack))
      BY <1>1, <2>2, RecordRead
    <2>4. PICK s : s = Front(stack)
      OBVIOUS
    <2>5. TreeInv(s, out)
      BY <1>2, <2>3, <2>4, QuietStep
    <2> QED BY <2>1, <2>4, <2>5
  <1>9. /\ Stopped \in Result /\ ~Stopped.termsExact
        /\ Stopped.broken = out.broken /\ Stopped.cycles = out.cycles
    BY <1>4 DEF Stopped, Result, PermErrors
  <1>10. CASE TermOverLimit
    <2> DEFINE o == Visit(Stopped, ValueOrDomain(t), t.kind, "limit")
    <2>1. out' = o /\ stack' = <<>>
      BY <1>10 DEF TermOverLimit, Halted, t
    <2>2. SameFindings(o, Stopped)
      BY <1>9, VisitKeeps
    <2> HIDE DEF o
    <2>3. ~o.termsExact /\ o.broken = out.broken /\ o.cycles = out.cycles
      BY <1>9, <2>2 DEF SameFindings
    <2>4. TreeInv(<<>>, o)
      BY <1>1, <2>3, GivesUp
    <2> QED BY <2>1, <2>4
  <1>11. CASE RedirectOverLimit
    <2>1. out' = Stopped /\ stack' = <<>>
      BY <1>11 DEF RedirectOverLimit, Halted
    <2>2. TreeInv(<<>>, Stopped)
      BY <1>1, <1>9, GivesUp
    <2> QED BY <2>1, <2>2
  <1>12. CASE LookupFails
    <2> DEFINE u == Failed(Counted)
               o == Visit(u, ValueOrDomain(t), "lookup", "temperror")
    <2>1. out' = o /\ stack' = <<>>
      BY <1>12 DEF LookupFails, Halted, t
    <2>2. u \in Result /\ ~u.termsExact /\ u.broken = out.broken /\ u.cycles = out.cycles
      BY <1>4, FailedKeeps
    <2> HIDE DEF u
    <2>3. SameFindings(o, u)
      BY <2>2, VisitKeeps
    <2> HIDE DEF o
    <2>4. ~o.termsExact /\ o.broken = out.broken /\ o.cycles = out.cycles
      BY <2>2, <2>3 DEF SameFindings
    <2>5. TreeInv(<<>>, o)
      BY <1>1, <2>4, GivesUp
    <2> QED BY <2>1, <2>5
  \* A term that is resolved, or not, leads nowhere.
  <1>13. ASSUME Reading({"lookup"}) \/ Reading({"opaque"}),
                NEW o, o.terms = out.terms + 1, o.found = out.found,
                o.termsExact = out.termsExact, o.broken = out.broken, o.cycles = out.cycles,
                \/ o.permError = out.permError /\ o.void = out.void
                \/ /\ o.void = out.void + 1
                   /\ o.permError = "" <=> out.permError = "" /\ o.void <= lim.void
         PROVE  TreeInv(Advanced, o)
    <2>1. Top.next <= Len(Terms) /\ t.kind \in {"lookup", "opaque"}
      BY <1>3, <1>13
    <2>2. /\ Pays(Advanced, Place(Advanced)) /\ Advanced \in Seq(FrameType)
          /\ \A u : ~Leads(Place(Advanced), u)
      BY <1>1, <2>1, TermPays DEF t
    <2>3. PICK rest \in Seq(FrameType) : rest = Advanced
      BY <2>2
    <2>8. PICK w : w = Place(rest)
      OBVIOUS
    <2>4. Pays(rest, w) /\ \A u : ~Leads(w, u)
      BY <2>2, <2>3, <2>8
    <2>5. Finds(o, w)
      BY <1>13, <2>4 DEF Finds
    <2>6. Judged(o, w)
      BY <1>13, <2>4 DEF Judged
    <2>7. TreeInv(rest, o)
      BY <1>13, <2>4, <2>5, <2>6, PaidStep
    <2> QED BY <2>3, <2>7
  <1>14. ASSUME NEW target, NEW via, NEW outcome, out' = Visit(Counted, target, via, outcome),
                stack' = Advanced, Reading({"lookup"}) \/ Reading({"opaque"})
         PROVE  TreeInv(stack', out')
    <2> DEFINE o == Visit(Counted, target, via, outcome)
    <2>1. SameFindings(o, Counted)
      BY <1>4, VisitKeeps
    <2>2. out' = o
      BY <1>14
    <2> HIDE DEF o
    <2>3. /\ o.terms = out.terms + 1 /\ o.found = out.found
          /\ o.termsExact = out.termsExact /\ o.broken = out.broken /\ o.cycles = out.cycles
          /\ o.permError = out.permError /\ o.void = out.void
      BY <1>4, <2>1 DEF SameFindings
    <2>4. TreeInv(Advanced, o)
      BY <1>13, <1>14, <2>3
    <2> QED BY <1>14, <2>2, <2>4
  <1>15. CASE Opaque
    BY <1>14, <1>15 DEF Opaque
  <1>16. CASE Answered
    BY <1>14, <1>16 DEF Answered
  <1>17. CASE Void
    <2> DEFINE r1 == [Counted EXCEPT !.void = Counted.void + 1]
               over == Counted.void + 1 > lim.void /\ r1.permError = ""
               error == IF over THEN "over_void_limit" ELSE r1.permError
               u == [r1 EXCEPT !.permError = error]
               o == Visit(u, ValueOrDomain(t), "lookup", "void")
    <2>1. out' = o /\ stack' = Advanced /\ Reading({"lookup"})
      BY <1>17 DEF Void, t
    <2>2. Counted.void \in Nat /\ lim.void \in Nat /\ out.void \in Nat
      BY <1>2, <1>4 DEF Result, Typed
    <2>3. /\ r1 \in Result /\ r1.terms = out.terms + 1 /\ r1.found = out.found
          /\ r1.termsExact = out.termsExact /\ r1.broken = out.broken /\ r1.cycles = out.cycles
          /\ r1.permError = out.permError /\ r1.void = Counted.void + 1
      <3> DEFINE new == Counted.void + 1
      <3>1. new \in Nat
        BY <2>2
      <3>2. r1 = [Counted EXCEPT !.void = new]
        OBVIOUS
      <3> HIDE DEF new, r1
      <3>3. /\ r1 \in Result /\ r1.terms = out.terms + 1 /\ r1.found = out.found
            /\ r1.termsExact = out.termsExact /\ r1.broken = out.broken /\ r1.cycles = out.cycles
            /\ r1.permError = out.permError /\ r1.void = new
        BY <1>4, <3>1, <3>2 DEF Result
      <3> QED BY <3>3 DEF new
    <2> HIDE DEF r1
    <2>4. error \in PermErrors /\ (error = "" <=> out.permError = "" /\ r1.void <= lim.void)
      <3>1. r1.permError \in PermErrors /\ "over_void_limit" \in PermErrors
        BY <2>3 DEF Result, PermErrors
      <3>2. CASE over
        <4>1. error = "over_void_limit"
          BY <3>2
        <4>4. Counted.void + 1 > lim.void /\ r1.void = Counted.void + 1
          BY <2>3, <3>2
        <4>2. ~(r1.void <= lim.void)
          BY <2>2, <4>4
        <4> HIDE DEF error, over
        <4>3. error # ""
          BY <4>1
        <4> QED BY <3>1, <4>1, <4>2, <4>3
      <3>3. CASE ~over
        <4>1. error = r1.permError
          BY <3>3
        <4>2. ASSUME r1.permError = ""
              PROVE  r1.void <= lim.void
          <5>1. ~(Counted.void + 1 > lim.void)
            BY <3>3, <4>2
          <5>2. r1.void = Counted.void + 1
            BY <2>3
          <5> QED BY <2>2, <5>1, <5>2
        <4> HIDE DEF error, over
        <4> QED BY <2>3, <3>1, <4>1, <4>2
      <3> QED BY <3>2, <3>3
    <2> HIDE DEF error, over
    <2>5. /\ u \in Result /\ u.terms = out.terms + 1 /\ u.found = out.found
          /\ u.termsExact = out.termsExact /\ u.broken = out.broken /\ u.cycles = out.cycles
          /\ u.permError = error /\ u.void = r1.void
      BY <2>3, <2>4 DEF Result
    <2> HIDE DEF u
    <2>6. SameFindings(o, u)
      BY <2>5, VisitKeeps
    <2> HIDE DEF o
    <2>7. /\ o.terms = out.terms + 1 /\ o.found = out.found
          /\ o.termsExact = out.termsExact /\ o.broken = out.broken /\ o.cycles = out.cycles
      BY <2>5, <2>6 DEF SameFindings
    <2>8. o.permError = error /\ o.void = r1.void
      BY <2>5, <2>6 DEF SameFindings
    <2>9. o.void = out.void + 1
      BY <1>4, <2>3, <2>8
    <2>10. o.permError = "" <=> out.permError = "" /\ o.void <= lim.void
      BY <2>4, <2>8
    <2>11. TreeInv(Advanced, o)
      BY <1>13, <2>1, <2>7, <2>9, <2>10
    <2> QED BY <2>1, <2>11
  <1> QED BY <1>5, <1>6, <1>7, <1>8, <1>10, <1>11, <1>12, <1>15, <1>16, <1>17

-----------------------------------------------------------------------------
(***************************************************************************)
(* The first step, and the others together.                                *)
(***************************************************************************)
LEMMA NoValues == Values(<<>>) = {}
  <1>1. <<>> \in Seq(Names) /\ Len(<<>>) = 0
    OBVIOUS
  <1>2. \A e \in Seq(Names) : Len(e) = 0 => DOMAIN e = {}
    OBVIOUS
  <1>3. DOMAIN <<>> = {}
    BY <1>1, <1>2
  <1> QED BY <1>3, Zenon DEF Values

LEMMA NotLess == \A n \in Nat : 0 <= n
  OBVIOUS

\* A walk that has paid for nothing has found what there is on no way.
LEMMA NothingFound ==
    ASSUME Typed, NEW s, OnTheWay(s), Visited(Place(s)) = {},
           NEW o, o.terms = 0, o.void = 0, o.broken = <<>>, o.cycles = <<>>,
           o.found => o.permError = ""
    PROVE  TreeInv(s, o)
  <1>1. Values(<<>>) = {}
    BY NoValues
  <1>2. FoundBroken(o) = {} /\ Values(o.cycles) = {}
    <2>1. Values(o.broken) = {} /\ Values(o.cycles) = {}
      BY <1>1
    <2> QED BY <2>1 DEF FoundBroken
  <1>3. FindingsReal(o)
    BY <1>2 DEF FindingsReal
  <1>4. IsFiniteSet({}) /\ Cardinality({}) = 0
    BY FS_EmptySet
  <1>5. lim.void \in Nat
    BY DEF Typed
  <1>6. IsFiniteSet(Visited(Place(s))) /\ Cardinality(Visited(Place(s))) = o.terms
    BY <1>4
  <1>7. o.void <= lim.void
    <2>1. 0 <= lim.void
      BY <1>5, NotLess, Zenon
    <2>2. o.void = 0
      OBVIOUS
    <2> QED BY <2>1, <2>2, Zenon
  <1>8. o.found => (o.permError = "" <=> /\ o.void <= lim.void
                                         /\ o.broken = <<>>
                                         /\ \A w \in Visited(Place(s)) : ~Leads(w, NoName))
    BY <1>7
  <1>10. \A w \in Visited(Place(s)), t \in Names :
           /\ Leads(w, t) /\ zone[t].outcome \in Missing => BrokenAt(w, t) \in FoundBroken(o)
           /\ Leads(w, t) /\ Contains(Chain(w), t) => Append(Chain(w), t) \in Values(o.cycles)
    OBVIOUS
  <1>9. Exact(Place(s), o)
    BY <1>6, <1>8, <1>10, Zenon DEF Exact
  <1> QED BY <1>3, <1>9 DEF TreeInv

\* The walk starts with everything ahead, or with nothing to be found.
LEMMA StartTree ==
    ASSUME IInv, Start
    PROVE  TreeInv(stack', out')
  <1>1. Typed /\ out = EmptyResult /\ ~started
    BY DEF IInv, Fresh, Start
  <1>2. Root \in Names
    BY WalkAssumption
  <1>3. /\ RootSeen.terms = 0 /\ RootSeen.void = 0 /\ RootSeen.broken = <<>>
        /\ RootSeen.cycles = <<>> /\ RootSeen.permError = "" /\ RootSeen.found = FALSE
        /\ RootSeen \in Result
    <2> DEFINE n == <<[parent |-> NoName, target |-> Root, via |-> "root", depth |-> 0,
                       outcome |-> zone[Root].outcome, termAt |-> 0]>>
    <2>1. n \in Nodes
      <3>1. zone[Root] \in Published
        BY <1>1, <1>2 DEF Typed
      <3>2. zone[Root].outcome \in Outcomes
        BY <3>1 DEF Published, Outcomes, Missing
      <3>3. "root" \in Vias
        BY DEF Vias
      <3>4. n[1] \in Node
        BY <1>2, <3>2, <3>3 DEF Node
      <3> QED BY <3>4 DEF Nodes
    <2>2. RootSeen = [out EXCEPT !.nodes = n]
      BY DEF RootSeen
    <2> HIDE DEF n
    <2>3. out \in Result
      BY <1>1 DEF Typed
    <2>4. /\ out.terms = 0 /\ out.void = 0 /\ out.broken = <<>>
          /\ out.cycles = <<>> /\ out.permError = "" /\ out.found = FALSE
      BY <1>1 DEF EmptyResult
    <2> QED BY <2>1, <2>2, <2>3, <2>4 DEF Result
  <1> HIDE DEF RootSeen
  <1>4. OnTheWay(<<>>)
    BY DEF OnTheWay
  <1>5. ASSUME ~Usable(Root)
        PROVE  Visited(Place(<<>>)) = {}
    <2>1. ASSUME NEW w \in Ways
          PROVE  FALSE
      <3>1. PICK m \in Nat \ {0} : /\ \A i \in 1 .. m : Usable(w[i][1])
                                   /\ w[1][1] = Root
        <4>1. PICK m \in Nat \ {0} : WayOf(w, m)
          BY <1>1, WayType
        <4> QED BY <4>1 DEF WayOf
      <3>2. 1 \in 1 .. m
        BY <3>1
      <3> QED BY <1>5, <3>1, <3>2
    <2> QED BY <2>1 DEF Visited
  <1>6. CASE zone[Root].outcome = "ok" /\ stack' = <<Frame(Root)>>
             /\ out' = [RootSeen EXCEPT !.found = TRUE]
    <2>1. PICK o : o = [RootSeen EXCEPT !.found = TRUE]
      OBVIOUS
    <2>2. /\ o.terms = 0 /\ o.void = 0 /\ o.broken = <<>> /\ o.cycles = <<>>
          /\ o.permError = ""
      BY <1>3, <2>1 DEF Result
    <2>3. Usable(Root)
      BY <1>2, <1>6 DEF Usable
    <2>4. FrameSound(Frame(Root)) /\ At(Frame(Root)) = 0 /\ Frame(Root) \in FrameType
      BY <1>1, <2>3, FrameNew
    <2>5. Frame(Root).name = Root
      BY DEF Frame
    <2>6. PICK f \in FrameType : f = Frame(Root)
      BY <2>4
    <2>7. PICK s : s = <<f>>
      OBVIOUS
    <2>8. Len(s) = 1 /\ s[1] = f /\ s # <<>>
      BY <2>7
    <2>9. PICK p : p = Place(s)
      OBVIOUS
    <2>10. DOMAIN p = 1 .. 1 /\ p[1] = <<Root, 0>> /\ Len(p) = 1
      <3>1. p = [j \in 1 .. 1 |-> <<s[j].name, At(s[j])>>]
        BY <2>8, <2>9 DEF Place
      <3>2. p[1] = <<s[1].name, At(s[1])>> /\ DOMAIN p = 1 .. 1 /\ Len(p) = 1
        BY <3>1
      <3> QED BY <2>4, <2>5, <2>6, <2>8, <3>2
    <2>11. Linked(p)
      <3>1. p[1][1] = Root
        BY <2>10
      <3>2. \A i, j \in DOMAIN p : p[i][1] = p[j][1] => i = j
        BY <2>10
      <3>3. \A i \in 1 .. Len(p) - 1 : Sends(p[i][1], p[i][2], p[i + 1][1])
        BY <2>10
      <3> QED BY <3>1, <3>2, <3>3 DEF Linked
    <2>12. OnTheWay(s)
      BY <2>4, <2>6, <2>8, <2>9, <2>11 DEF OnTheWay
    <2>13. Visited(p) = {}
      <3>1. ASSUME NEW w \in Ways
            PROVE  Ahead(w, p)
        <4>1. PICK m \in Nat \ {0} : /\ DOMAIN w = 1 .. m /\ w[1][1] = Root
                                     /\ \A i \in 1 .. m : w[i][2] \in Costs(w[i][1])
          <5>1. PICK m \in Nat \ {0} : WayOf(w, m)
            BY <1>1, WayType
          <5> QED BY <5>1 DEF WayOf
        <4>2. 1 \in 1 .. m
          BY <4>1
        <4>3. w[1][2] \in Costs(Root)
          BY <4>1, <4>2
        <4>4. Costs(Root) \subseteq 1 .. End(Root) /\ End(Root) \in Nat
          BY <1>1, <1>2, RecordType
        <4>5. w[1][2] > 0
          BY <4>3, <4>4
        <4>6. p[1][1] = Root /\ p[1][2] = 0
          BY <2>10
        <4>7. \A i \in 1 .. 1 - 1 : w[i] = p[i]
          OBVIOUS
        <4>8. 1 \in DOMAIN w \cap DOMAIN p
          BY <2>10, <4>1, <4>2
        <4>9. w[1][1] = p[1][1] /\ w[1][2] > p[1][2]
          BY <4>1, <4>5, <4>6
        <4> QED BY <4>7, <4>8, <4>9 DEF Ahead
      <3> QED BY <3>1 DEF Visited
    <2>14. TreeInv(s, o)
      BY <1>1, <2>2, <2>9, <2>12, <2>13, NothingFound
    <2>15. stack' = s /\ out' = o
      BY <1>6, <2>1, <2>6, <2>7
    <2> QED BY <2>14, <2>15
  <1>7. CASE zone[Root].outcome = "multiple" /\ stack' = Halted
             /\ out' = [RootSeen EXCEPT !.permError = "multiple_records"]
    <2>1. PICK o : o = [RootSeen EXCEPT !.permError = "multiple_records"]
      OBVIOUS
    <2>2. /\ o.terms = 0 /\ o.void = 0 /\ o.broken = <<>> /\ o.cycles = <<>>
          /\ ~o.found
      BY <1>3, <2>1 DEF Result
    <2>3. ~Usable(Root)
      BY <1>7 DEF Usable
    <2>4. TreeInv(<<>>, o)
      BY <1>1, <1>4, <1>5, <2>2, <2>3, NothingFound
    <2> QED BY <1>7, <2>1, <2>4 DEF Halted
  <1>8. CASE zone[Root].outcome \in {"nxdomain", "no_record"} /\ stack' = Halted
             /\ out' = RootSeen
    <2>3. ~Usable(Root)
      BY <1>8 DEF Usable
    <2>1. PICK o : o = RootSeen
      OBVIOUS
    <2>4. TreeInv(<<>>, o)
      BY <1>1, <1>3, <1>4, <1>5, <2>1, <2>3, NothingFound
    <2> QED BY <1>8, <2>1, <2>4 DEF Halted
  <1>9. CASE stack' = Halted /\ out' = Failed(out)
    <2>1. PICK o : o = Failed(out)
      OBVIOUS
    <2>2. ~o.termsExact /\ o.broken = out.broken /\ o.cycles = out.cycles
      BY <1>1, <2>1, FailedKeeps DEF Typed
    <2>3. FindingsReal(out)
      <3>1. out.broken = <<>> /\ out.cycles = <<>>
        BY <1>1 DEF EmptyResult
      <3>2. Values(<<>>) = {}
        BY NoValues
      <3>3. FoundBroken(out) = {} /\ Values(out.cycles) = {}
        <4>1. Values(out.broken) = {} /\ Values(out.cycles) = {}
          BY <3>1, <3>2
        <4> QED BY <4>1 DEF FoundBroken
      <3> QED BY <3>3 DEF FindingsReal
    <2>4. TreeInv(<<>>, o)
      BY <2>2, <2>3, GivesUp
    <2> QED BY <1>9, <2>1, <2>4 DEF Halted
  <1> QED BY <1>6, <1>7, <1>8, <1>9 DEF Start

\* What DNS publishes and the limits stay: what there is to be found stays.
LEMMA SameTree ==
    ASSUME UNCHANGED <<zone, lim>>
    PROVE  /\ \A n : Usable(n)' <=> Usable(n)
           /\ \A n, k, t : Sends(n, k, t)' <=> Sends(n, k, t)
           /\ \A n : End(n)' = End(n) /\ Redirects(n)' = Redirects(n)
           /\ \A w : Linked(w)' <=> Linked(w)
           /\ \A w, t : Leads(w, t)' <=> Leads(w, t)
           /\ Ways' = Ways
           /\ RealBroken' = RealBroken /\ RealCycles' = RealCycles
  <1>1. zone' = zone
    OBVIOUS
  <1>2. \A n : Usable(n)' <=> Usable(n)
    BY <1>1 DEF Usable
  <1>3. \A n, kinds : Of(n, kinds)' = Of(n, kinds)
    BY <1>1 DEF Of
  <1>4. \A n : HasAll(n)' <=> HasAll(n)
    BY <1>1 DEF HasAll
  <1>5. \A n : Redirects(n)' = Redirects(n)
    BY <1>3, <1>4 DEF Redirects
  <1>6. \A n : End(n)' = End(n)
    BY <1>1 DEF End
  <1>7. \A n : Costs(n)' = Costs(n)
    BY <1>3, <1>5, <1>6 DEF Costs
  <1>8. \A n, k, t : Sends(n, k, t)' <=> Sends(n, k, t)
    BY <1>1, <1>3, <1>5, <1>6 DEF Sends
  <1>9. Payments' = Payments
    BY <1>2, <1>7 DEF Payments
  <1>10. \A w : Linked(w)' <=> Linked(w)
    BY <1>8 DEF Linked
  <1>11. Ways' = Ways
    BY <1>9, <1>10 DEF Ways
  <1>12. \A w, t : Leads(w, t)' <=> Leads(w, t)
    BY <1>8 DEF Leads
  <1>13. RealBroken' = RealBroken
    BY <1>1, <1>11, <1>12 DEF RealBroken
  <1>14. RealCycles' = RealCycles
    BY <1>11, <1>12 DEF RealCycles
  <1> QED BY <1>2, <1>5, <1>6, <1>8, <1>10, <1>11, <1>12, <1>13, <1>14

\* So that the invariant speaks of the same tree after a step as before it.
LEMMA Frozen ==
    ASSUME UNCHANGED <<zone, lim>>, TreeInv(stack', out')
    PROVE  TreeInv(stack, out)'
  <1>1. zone' = zone /\ lim' = lim
    OBVIOUS
  <1>2. /\ \A n : Usable(n)' <=> Usable(n)
        /\ \A n, k, t : Sends(n, k, t)' <=> Sends(n, k, t)
        /\ \A n : End(n)' = End(n) /\ Redirects(n)' = Redirects(n)
        /\ \A w : Linked(w)' <=> Linked(w)
        /\ \A w, t : Leads(w, t)' <=> Leads(w, t)
        /\ Ways' = Ways
        /\ RealBroken' = RealBroken /\ RealCycles' = RealCycles
    BY SameTree
  <1>3. \A f : At(f)' = At(f)
    BY <1>2 DEF At
  <1>4. \A n, i : Kind(n, i)' = Kind(n, i)
    BY <1>1 DEF Kind
  <1>5. \A f : FrameSound(f)' <=> FrameSound(f)
    BY <1>1, <1>2, <1>4 DEF FrameSound
  <1>6. \A s : Place(s)' = Place(s)
    BY <1>3 DEF Place
  <1>7. \A s : OnTheWay(s)' <=> OnTheWay(s)
    BY <1>2, <1>5, <1>6 DEF OnTheWay
  <1>8. \A o : FindingsReal(o)' <=> FindingsReal(o)
    BY <1>2 DEF FindingsReal, FoundBroken, Values
  <1>9. \A p : Visited(p)' = Visited(p)
    BY <1>2 DEF Visited, Ahead
  <1>10. \A w, t : BrokenAt(w, t)' = BrokenAt(w, t)
    BY <1>1 DEF BrokenAt, Parent
  <1>11. \A p, o : Exact(p, o)' <=> Exact(p, o)
    <2>1. \A o : FoundBroken(o)' = FoundBroken(o)
      BY DEF FoundBroken, Values
    <2>2. \A v : Values(v)' = Values(v)
      BY DEF Values
    <2>3. \A w, t : Contains(Chain(w), t)' <=> Contains(Chain(w), t)
      BY DEF Chain, Contains
    <2>4. \A w, t : Append(Chain(w), t)' = Append(Chain(w), t)
      BY DEF Chain
    <2>5. \A t : zone'[t] = zone[t]
      BY <1>1
    <2> QED BY <1>1, <1>2, <1>9, <1>10, <2>1, <2>2, <2>3, <2>4, <2>5, ZenonT(60) DEF Exact
  <1>12. \A s, o : TreeInv(s, o)' <=> TreeInv(s, o)
    BY <1>6, <1>7, <1>8, <1>11 DEF TreeInv
  <1>13. PICK s, o : s = stack' /\ o = out'
    OBVIOUS
  <1>14. TreeInv(s, o)'
    BY <1>12, <1>13
  <1> QED BY <1>13, <1>14

\* From the first step on, whatever happens.
TInv == started => TreeInv(stack, out)

LEMMA TreeStep == IInv /\ TInv /\ [Next]_vars => TInv'
  <1> SUFFICES ASSUME IInv, TInv, [Next]_vars PROVE TInv'
    OBVIOUS
  <1>1. Typed
    BY DEF IInv
  <1>2. ASSUME TreeInv(stack', out'), UNCHANGED <<zone, lim>>
        PROVE  TInv'
    <2>1. TreeInv(stack, out)'
      BY <1>2, Frozen
    <2> QED BY <2>1 DEF TInv
  <1>3. CASE Start
    BY <1>2, <1>3, StartTree DEF Start
  <1>4. ASSUME stack # <<>>
        PROVE  TreeInv(stack, out)
    BY <1>4 DEF IInv, Going, TInv
  <1>5. CASE Include
    <2>1. stack # <<>> /\ UNCHANGED <<zone, lim>>
      BY <1>5 DEF Include, Reading
    <2> QED BY <1>1, <1>2, <1>4, <1>5, <2>1, IncludeTree
  <1>6. CASE Redirect
    <2>1. stack # <<>> /\ UNCHANGED <<zone, lim>>
      BY <1>6 DEF Redirect, AtEnd
    <2> QED BY <1>1, <1>2, <1>4, <1>6, <2>1, RedirectTree
  <1>7. CASE Free \/ NoteRedirect \/ All \/ Return \/ TermOverLimit \/ RedirectOverLimit
             \/ Opaque \/ Answered \/ Void \/ LookupFails
    <2>1. stack # <<>> /\ UNCHANGED <<zone, lim>>
      BY <1>7 DEF Free, NoteRedirect, All, Return, TermOverLimit, RedirectOverLimit,
                  Opaque, Answered, Void, LookupFails, Reading, AtEnd
    <2> QED BY <1>1, <1>2, <1>4, <1>7, <2>1, TermTree
  <1>8. CASE UNCHANGED vars
    <2>1. UNCHANGED <<zone, lim, stack, out>> /\ started' = started
      BY <1>8 DEF vars
    <2>2. ASSUME started
          PROVE  TInv'
      <3>1. PICK s, o : s = stack /\ o = out
        OBVIOUS
      <3>2. TreeInv(s, o) /\ stack' = s /\ out' = o
        BY <2>1, <2>2, <3>1 DEF TInv
      <3>3. TreeInv(stack', out')
        BY <3>2
      <3> QED BY <1>2, <2>1, <3>3
    <2>3. ASSUME ~started
          PROVE  TInv'
      BY <2>1, <2>3 DEF TInv
    <2> QED BY <2>2, <2>3
  <1> QED BY <1>3, <1>5, <1>6, <1>7, <1>8 DEF Next

LEMMA TreeInvariance == Spec => [](IInv /\ TInv)
  <1>1. Init => IInv /\ TInv
    <2>1. Init => TInv
      BY DEF Init, TInv
    <2> QED BY <2>1, Initially
  <1>2. (IInv /\ TInv) /\ [Next]_vars => (IInv /\ TInv)'
    BY Preserved, TreeStep
  <1> QED BY <1>1, <1>2, PTL DEF Spec

\* A walk that is over has been everywhere.
LEMMA Everywhere ==
    ASSUME IInv, TInv, started
    PROVE  /\ FindingsReal(out)
           /\ Done /\ out.termsExact =>
                 /\ IsFiniteSet(Ways) /\ Cardinality(Ways) = out.terms
                 /\ \A w \in Ways, t \in Names :
                       /\ Leads(w, t) /\ zone[t].outcome \in Missing
                             => BrokenAt(w, t) \in FoundBroken(out)
                       /\ Leads(w, t) /\ Contains(Chain(w), t)
                             => Append(Chain(w), t) \in Values(out.cycles)
                 /\ out.found => (out.permError = "" <=> /\ out.void <= lim.void
                                                         /\ out.broken = <<>>
                                                         /\ \A w \in Ways : ~Leads(w, NoName))
  <1>1. FindingsReal(out) /\ (out.termsExact => Exact(Place(stack), out))
    BY DEF TInv, TreeInv
  <1>2. ASSUME Done, out.termsExact
        PROVE  Exact(Place(<<>>), out)
    BY <1>1, <1>2 DEF Done
  <1>3. Visited(Place(<<>>)) = Ways
    <2>1. Len(<<>>) = 0
      OBVIOUS
    <2>2. Place(<<>>) = [j \in 1 .. 0 |-> <<<<>>[j].name, At(<<>>[j])>>]
      BY <2>1 DEF Place
    <2>3. DOMAIN Place(<<>>) = {}
      BY <2>2
    <2> HIDE DEF Place
    <2>4. \A w : ~Ahead(w, Place(<<>>))
      BY <2>3 DEF Ahead
    <2> QED BY <2>4 DEF Visited
  <1> QED BY <1>1, <1>2, <1>3 DEF Exact

-----------------------------------------------------------------------------
\* When spf.walk says that its count is exact, it is the number of ways down the
\* tree to something that costs a lookup, whatever the records, the limits, and
\* the lookups that fail.
THEOREM CountIsTheTree == Spec => []ExactTermsMatchTree
  <1>1. IInv /\ TInv => ExactTermsMatchTree
    BY Everywhere DEF ExactTermsMatchTree, Done
  <1> QED BY <1>1, TreeInvariance, PTL

\* Every broken target that spf.descend reports is led to from a record that is
\* reached and has no usable record; and a complete walk reports every one.
THEOREM BrokenTargetsAreReal == Spec => []BrokenAreReal
  <1>1. IInv /\ TInv => BrokenAreReal
    <2> SUFFICES ASSUME IInv, TInv PROVE BrokenAreReal
      OBVIOUS
    <2>1. CASE ~started
      <3>1. out.broken = <<>> /\ ~Done
        <4>1. out = EmptyResult
          BY <2>1 DEF IInv, Fresh
        <4>2. out.broken = <<>>
          BY <4>1 DEF EmptyResult
        <4> QED BY <2>1, <4>2 DEF Done
      <3>2. Values(out.broken) = {}
        BY <3>1, NoValues
      <3>3. FoundBroken(out) = {}
        BY <3>2 DEF FoundBroken
      <3> QED BY <3>1, <3>3 DEF BrokenAreReal
    <2>2. CASE started
      <3>1. FoundBroken(out) \subseteq RealBroken
        BY <2>2, Everywhere DEF FindingsReal
      <3>2. ASSUME Done, out.termsExact, NEW l \in RealBroken
            PROVE  l \in FoundBroken(out)
        <4>1. PICK a \in Names, t \in Names, r \in Missing :
                 /\ l = <<a, t, r>> /\ zone[t].outcome = r
                 /\ \E w \in Ways : Parent(w) = a /\ Leads(w, t)
          BY DEF RealBroken
        <4>2. PICK w \in Ways : Parent(w) = a /\ Leads(w, t)
          BY <4>1
        <4>3. BrokenAt(w, t) \in FoundBroken(out)
          BY <2>2, <3>2, <4>1, <4>2, Everywhere
        <4>4. BrokenAt(w, t) = l
          BY <4>1, <4>2 DEF BrokenAt
        <4> QED BY <4>3, <4>4
      <3> QED BY <3>1, <3>2 DEF BrokenAreReal
    <2> QED BY <2>1, <2>2
  <1> QED BY <1>1, TreeInvariance, PTL

\* Every cycle that spf.descend reports is a way from the root on which the last
\* name stands before; and a complete walk reports every one.
THEOREM CyclesReportedAreReal == Spec => []CyclesAreReal
  <1>1. IInv /\ TInv => CyclesAreReal
    <2> SUFFICES ASSUME IInv, TInv PROVE CyclesAreReal
      OBVIOUS
    <2>1. CASE ~started
      <3>1. out.cycles = <<>> /\ ~Done
        <4>1. out = EmptyResult
          BY <2>1 DEF IInv, Fresh
        <4>2. out.cycles = <<>>
          BY <4>1 DEF EmptyResult
        <4> QED BY <2>1, <4>2 DEF Done
      <3>2. Values(out.cycles) = {}
        BY <3>1, NoValues
      <3> QED BY <3>1, <3>2 DEF CyclesAreReal
    <2>2. CASE started
      <3>1. Values(out.cycles) \subseteq RealCycles
        BY <2>2, Everywhere DEF FindingsReal
      <3>2. ASSUME Done, out.termsExact, NEW l \in RealCycles
            PROVE  l \in Values(out.cycles)
        <4>1. PICK w \in Ways, t \in Names :
                 l = Append(Chain(w), t) /\ Leads(w, t) /\ Contains(Chain(w), t)
          BY DEF RealCycles
        <4> QED BY <2>2, <3>2, <4>1, Everywhere
      <3> QED BY <3>1, <3>2 DEF CyclesAreReal
    <2> QED BY <2>1, <2>2
  <1> QED BY <1>1, TreeInvariance, PTL

\* A complete walk reports a permanent error exactly when the tree has a broken
\* target, a term without one, or too many void lookups.
THEOREM CleanIsClean == Spec => []CleanMeansClean
  <1>1. IInv /\ TInv => CleanMeansClean
    BY Everywhere DEF CleanMeansClean, Done
  <1> QED BY <1>1, TreeInvariance, PTL

=============================================================================
