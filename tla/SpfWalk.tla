------------------------------- MODULE SpfWalk ------------------------------
(***************************************************************************)
(* spf.Evaluate: the walk of a domain's SPF tree, in term order, counting  *)
(* the terms that cost a DNS lookup against the limits of RFC 7208.        *)
(*                                                                         *)
(* The recursion of walk and descend is a stack of frames, one for each    *)
(* record being read, so that a step is the handling of one term, with the *)
(* lookup it makes.  What DNS publishes does not change during a walk, but *)
(* any lookup may fail to complete.                                        *)
(***************************************************************************)
EXTENDS Integers, Sequences, SequencesExt

CONSTANTS Names,        \* domain names
          Root,         \* the domain Evaluate is called with
          NoName,       \* a target that is missing
          Records,      \* the records a name may publish: sequences of terms
          Limits        \* the limits Evaluate may be called with

Term == [kind : {"include", "redirect", "lookup", "opaque", "all", "free"},
         target : Names \cup {NoName}]

ASSUME WalkAssumption ==
    /\ Root \in Names /\ NoName \notin Names
    /\ Records \subseteq Seq(Term)
    /\ Limits \subseteq [terms : Nat, void : Nat, depth : Nat]

\* What the TXT records of a name amount to, by number of v=spf1 records.
Missing == {"nxdomain", "no_record", "multiple"}
Published == [outcome : {"ok"}, terms : Records]
               \cup [outcome : Missing, terms : {<<>>}]

VARIABLES zone,        \* what each name publishes
          lim,         \* Limits
          started,     \* whether the root has been looked up
          stack,       \* the records being read, the root's first
          out          \* Result

vars == <<zone, lim, started, stack, out>>

-----------------------------------------------------------------------------
\* The record being read, and the chain of names that leads to it.
Top == Last(stack)
Path == [i \in 1..Len(stack) |-> stack[i].name]
Depth == Len(stack) - 1
Terms == zone[Top.name].terms

Frame(name) == [name |-> name, next |-> 1, redirect |-> <<>>]
Advanced == [stack EXCEPT ![Len(stack)].next = @ + 1]
Halted == <<>>       \* every walk on the stack returns without doing more

\* state.node, for something met while reading the record on top.
Visit(o, target, via, outcome) ==
    [o EXCEPT !.nodes = Append(@, [parent |-> Top.name, target |-> target, via |-> via,
                                   depth |-> Depth + 1, outcome |-> outcome,
                                   termAt |-> o.terms])]

\* A term that costs a lookup is counted before it is looked up.
Counted == [out EXCEPT !.terms = @ + 1]
\* Mistaken: the last permitted term is refused.
AtLimit == Counted.terms >= lim.terms
OverLimit == Counted.terms > lim.terms
Stopped == [Counted EXCEPT !.permError = "over_term_limit", !.termsExact = FALSE]

ValueOrDomain(t) == IF t.target = NoName THEN Top.name ELSE t.target

-----------------------------------------------------------------------------
EmptyResult ==
    [found |-> FALSE, all |-> FALSE, terms |-> 0, termsExact |-> TRUE, void |-> 0,
     nodes |-> <<>>, includes |-> <<>>, broken |-> <<>>, cycles |-> <<>>,
     permError |-> "", tempError |-> FALSE]

Init ==
    /\ zone \in [Names -> Published]
    /\ lim \in Limits
    /\ started = FALSE
    /\ stack = <<>>
    /\ out = EmptyResult

Failed(o) == [o EXCEPT !.tempError = TRUE, !.termsExact = FALSE]

RootSeen ==
    [out EXCEPT !.nodes = <<[parent |-> NoName, target |-> Root, via |-> "root", depth |-> 0,
                             outcome |-> zone[Root].outcome, termAt |-> 0]>>]

\* Evaluate, up to the walk of the root's record: it is found, it is one of
\* several, there is none, or the lookup fails.
Start ==
    /\ ~started
    /\ started' = TRUE
    /\ \/ /\ zone[Root].outcome = "ok"
          /\ stack' = <<Frame(Root)>>
          /\ out' = [RootSeen EXCEPT !.found = TRUE]
       \/ /\ zone[Root].outcome = "multiple"
          /\ stack' = Halted
          /\ out' = [RootSeen EXCEPT !.permError = "multiple_records"]
       \/ /\ zone[Root].outcome \in {"nxdomain", "no_record"}
          /\ stack' = Halted
          /\ out' = RootSeen
       \/ /\ stack' = Halted
          /\ out' = Failed(out)
    /\ UNCHANGED <<zone, lim>>

-----------------------------------------------------------------------------
(***************************************************************************)
(* descend: one action for each of its ways out.  rest is the stack to     *)
(* return to, and the term has been counted.                               *)
(***************************************************************************)
Reached(target) ==
    [Counted EXCEPT !.includes = IF Contains(@, target) THEN @ ELSE Append(@, target)]

NoTarget(rest, target) ==
    /\ target = NoName
    /\ out' = [Counted EXCEPT !.permError = "syntax"]
    /\ stack' = rest

\* Mistaken: any name visited before is taken for a cycle.
SeenBefore(rest, target, via) ==
    /\ Contains(Path \o out.includes, target)
    /\ out' = Visit([Reached(target) EXCEPT !.cycles = Append(@, Append(Path, target))],
                    target, via, "cycle")
    /\ stack' = rest

OnPath(rest, target, via) ==
    /\ Contains(Path, target)
    /\ out' = Visit([Reached(target) EXCEPT !.cycles = Append(@, Append(Path, target))],
                    target, via, "cycle")
    /\ stack' = rest

TooDeep(target, via) ==
    /\ target # NoName /\ ~Contains(Path, target)
    /\ Depth + 1 > lim.depth
    /\ out' = Visit([Reached(target) EXCEPT !.termsExact = FALSE], target, via, "limit")
    /\ stack' = Halted

\* Mistaken: the depth limit is off by one.
LooksUpTooDeep(target) ==
    /\ target # NoName /\ ~Contains(Path, target)
    /\ Depth <= lim.depth

LooksUp(target) ==
    /\ target # NoName /\ ~Contains(Path, target)
    /\ Depth + 1 <= lim.depth

\* Mistaken: a target that could not be looked up is a broken one.
UnansweredIsBroken(target, via) ==
    /\ LooksUp(target)
    /\ LET b == [parent |-> Top.name, target |-> target, via |-> via, reason |-> "nxdomain"]
       IN  out' = Visit([Failed(Reached(target)) EXCEPT !.broken = Append(@, b)],
                        target, via, "temperror")
    /\ stack' = Halted

Unanswered(target, via) ==
    /\ LooksUp(target)
    /\ out' = Visit(Failed(Reached(target)), target, via, "temperror")
    /\ stack' = Halted

Broken(rest, target, via) ==
    /\ LooksUp(target)
    /\ zone[target].outcome \in Missing
    /\ LET b == [parent |-> Top.name, target |-> target, via |-> via,
                 reason |-> zone[target].outcome]
           o == [Reached(target) EXCEPT
                    !.broken = Append(@, b),
                    !.permError = IF @ = "" THEN "include_no_record" ELSE @]
       IN  out' = Visit(o, target, via, zone[target].outcome)
    /\ stack' = rest

Enter(rest, target, via) ==
    /\ LooksUp(target)
    /\ zone[target].outcome = "ok"
    /\ out' = Visit(Reached(target), target, via, "ok")
    /\ stack' = Append(rest, Frame(target))

Descend(rest, target, via) ==
    \/ NoTarget(rest, target)
    \/ OnPath(rest, target, via)
    \/ TooDeep(target, via)
    \/ Unanswered(target, via)
    \/ Broken(rest, target, via)
    \/ Enter(rest, target, via)

-----------------------------------------------------------------------------
(***************************************************************************)
(* walk: the next term of the record on top, or its end.                   *)
(***************************************************************************)
Reading(kinds) ==
    /\ stack # <<>>
    /\ Top.next <= Len(Terms)
    /\ Terms[Top.next].kind \in kinds
    /\ UNCHANGED <<zone, lim, started>>

\* Mistaken: a term that costs nothing is read again.
FreeAgain ==
    /\ Reading({"free"})
    /\ UNCHANGED <<stack, out>>

\* ip4, ip6, exp and whatever else costs nothing.
Free ==
    /\ Reading({"free"})
    /\ stack' = Advanced
    /\ UNCHANGED out

\* redirect is kept for the end of the record; a later one replaces it.
NoteRedirect ==
    /\ Reading({"redirect"})
    /\ stack' = [Advanced EXCEPT ![Len(stack)].redirect = <<Terms[Top.next]>>]
    /\ UNCHANGED out

\* Everything after all is ignored, a redirect already noted included.
All ==
    /\ Reading({"all"})
    /\ stack' = Front(stack)
    /\ out' = IF Depth = 0 THEN [out EXCEPT !.all = TRUE] ELSE out

TermOverLimit ==
    /\ Reading({"include", "lookup", "opaque"})
    /\ OverLimit
    /\ LET t == Terms[Top.next] IN out' = Visit(Stopped, ValueOrDomain(t), t.kind, "limit")
    /\ stack' = Halted

Include ==
    /\ Reading({"include"})
    /\ ~OverLimit
    /\ Descend(Advanced, Terms[Top.next].target, "include")

\* terminal: ptr, and a, mx or exists with a macro, are counted and not
\* resolved ...
Opaque ==
    /\ Reading({"opaque"})
    /\ ~OverLimit
    /\ out' = Visit(Counted, ValueOrDomain(Terms[Top.next]), "opaque", "macro_unexpanded")
    /\ stack' = Advanced

\* ... and the others are: with an answer, with nothing, or not at all.
Answered ==
    /\ Reading({"lookup"})
    /\ ~OverLimit
    /\ out' = Visit(Counted, ValueOrDomain(Terms[Top.next]), "lookup", "ok")
    /\ stack' = Advanced

\* Mistaken: the last permitted void lookup is refused.
VoidOffByOne ==
    /\ Reading({"lookup"})
    /\ ~OverLimit
    /\ LET o == [Counted EXCEPT
                    !.void = @ + 1,
                    !.permError = IF Counted.void + 1 >= lim.void /\ @ = ""
                                  THEN "over_void_limit" ELSE @]
       IN  out' = Visit(o, ValueOrDomain(Terms[Top.next]), "lookup", "void")
    /\ stack' = Advanced

Void ==
    /\ Reading({"lookup"})
    /\ ~OverLimit
    /\ LET o == [Counted EXCEPT
                    !.void = @ + 1,
                    !.permError = IF Counted.void + 1 > lim.void /\ @ = ""
                                  THEN "over_void_limit" ELSE @]
       IN  out' = Visit(o, ValueOrDomain(Terms[Top.next]), "lookup", "void")
    /\ stack' = Advanced

LookupFails ==
    /\ Reading({"lookup"})
    /\ ~OverLimit
    /\ out' = Visit(Failed(Counted), ValueOrDomain(Terms[Top.next]), "lookup", "temperror")
    /\ stack' = Halted

AtEnd ==
    /\ stack # <<>>
    /\ Top.next > Len(Terms)
    /\ UNCHANGED <<zone, lim, started>>

Return ==
    /\ AtEnd
    /\ Top.redirect = <<>>
    /\ stack' = Front(stack)
    /\ UNCHANGED out

\* No node is recorded for a redirect that reaches the limit.
RedirectOverLimit ==
    /\ AtEnd
    /\ Top.redirect # <<>>
    /\ OverLimit
    /\ out' = Stopped
    /\ stack' = Halted

Redirect ==
    /\ AtEnd
    /\ Top.redirect # <<>>
    /\ ~OverLimit
    /\ LET rest == [stack EXCEPT ![Len(stack)].redirect = <<>>]
       IN  Descend(rest, Head(Top.redirect).target, "redirect")

Next ==
    \/ Start
    \/ Free \/ NoteRedirect \/ All
    \/ TermOverLimit \/ Include
    \/ Opaque \/ Answered \/ Void \/ LookupFails
    \/ Return \/ RedirectOverLimit \/ Redirect

Spec == Init /\ [][Next]_vars

\* Evaluate runs to its end; a lookup returns, if only with an error.
FairSpec == Spec /\ WF_vars(Next)

Done == started /\ stack = <<>>

\* Result.OverTermLimit, what a report may say to the domain's owner.
OverTermLimit == ~out.tempError /\ out.terms > lim.terms

=============================================================================
