------------------------------- MODULE SpfTree ------------------------------
(***************************************************************************)
(* What a walk of an SPF tree should find, defined on what the names       *)
(* publish instead of step by step, and the properties of SpfWalk that     *)
(* compare the two.                                                        *)
(***************************************************************************)
EXTENDS SpfWalk, FiniteSets

ASSUME TreeAssumption == IsFiniteSet(Names)

Usable(n) == n \in Names /\ zone[n].outcome = "ok"

\* Where the terms of n's record of some kinds are that are read: before any all.
Of(n, kinds) ==
    {i \in DOMAIN zone[n].terms : /\ zone[n].terms[i].kind \in kinds
                                 /\ \A j \in 1..i : zone[n].terms[j].kind # "all"}
HasAll(n) == \E i \in DOMAIN zone[n].terms : zone[n].terms[i].kind = "all"

\* The redirect that is followed: the last one, in a record without all, and
\* only at the end of the record, wherever it stands.
Redirects(n) ==
    {i \in Of(n, {"redirect"}) : ~HasAll(n) /\ \A j \in Of(n, {"redirect"}) : j <= i}
End(n) == Len(zone[n].terms) + 1

\* Where a lookup is paid for in n's record, and where one leads on to t.
Costs(n) == Of(n, {"include", "lookup", "opaque"}) \cup {End(n) : i \in Redirects(n)}
Sends(n, at, t) ==
    \E i \in {j \in Of(n, {"include"}) : j = at} \cup {j \in Redirects(n) : at = End(n)} :
        zone[n].terms[i].target = t

\* The ways down the tree to something that costs a lookup: from the root's
\* record through records that are led to, none of them twice.  A target that is
\* already on the way, or has no record, costs only the term that names it.
Payments == UNION {{n} \X Costs(n) : n \in {m \in Names : Usable(m)}}
Linked(w) ==
    /\ w[1][1] = Root
    /\ \A i \in 1..(Len(w) - 1) : Sends(w[i][1], w[i][2], w[i + 1][1])
    /\ \A i, j \in DOMAIN w : w[i][1] = w[j][1] => i = j
Ways == {w \in UNION {[1..k -> Payments] : k \in 1..Cardinality(Names)} : Linked(w)}

\* The names on a way, the record it ends in, and where its end leads to.
Chain(w) == [i \in DOMAIN w |-> w[i][1]]
Parent(w) == w[Len(w)][1]
Leads(w, t) == Sends(w[Len(w)][1], w[Len(w)][2], t)

Values(s) == {s[i] : i \in DOMAIN s}

\* What there is to be found at the ends of the ways, and what was found.
RealBroken == {l \in Names \X Names \X Missing :
                  /\ zone[l[2]].outcome = l[3]
                  /\ \E w \in Ways : Parent(w) = l[1] /\ Leads(w, l[2])}
RealCycles == {Append(Chain(l[1]), l[2]) :
                  l \in {m \in Ways \X Names : /\ Leads(m[1], m[2])
                                             /\ Contains(Chain(m[1]), m[2])}}
FoundBroken(o) == {<<b.parent, b.target, b.reason>> : b \in Values(o.broken)}

-----------------------------------------------------------------------------
\* The number the package exists to compute: when the walk says that its count
\* is exact, it is the number of ways down the tree to something that costs a
\* lookup, a record that is reached on two branches counted on both.
ExactTermsMatchTree == Done /\ out.termsExact => out.terms = Cardinality(Ways)

\* The walk gives up counting at the limit, and a failed lookup, the depth limit
\* or an error found before or after never makes or hides that verdict: the two
\* ways a caller can ask for it, OverTermLimit and permError, agree.
LimitVerdict ==
    Done => /\ out.permError = "over_term_limit" <=> OverTermLimit
            /\ out.terms <= lim.terms + 1
            /\ OverTermLimit => ~out.termsExact

\* The work a stranger's records can cause is bounded by MaxTerms: apart from
\* the root, every node of the result was paid for with a counted term.
WorkBounded == Len(out.nodes) <= out.terms + 1 /\ Len(stack) <= lim.depth + 1

\* A broken target is one that really has no usable record, led to from a record
\* that is reached, however incomplete the walk; and a complete walk misses none.
BrokenAreReal == /\ FoundBroken(out) \subseteq RealBroken
                 /\ Done /\ out.termsExact => FoundBroken(out) = RealBroken

\* A reported cycle is a chain of links from the root back to a name on it, and
\* a complete walk reports each one there is: two branches that meet are not
\* taken for a cycle.
CyclesAreReal == /\ Values(out.cycles) \subseteq RealCycles
                 /\ Done /\ out.termsExact => Values(out.cycles) = RealCycles

\* A complete walk reports a permanent error exactly when some rule is broken.
CleanMeansClean ==
    Done /\ out.found /\ out.termsExact =>
        (out.permError = "" <=>
            /\ out.void <= lim.void
            /\ out.broken = <<>>
            /\ \A w \in Ways : ~Leads(w, NoName))

\* The walk ends, whatever the shape of the tree.
Terminates == <>Done

=============================================================================
