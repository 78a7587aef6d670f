------------------------------ MODULE TreeWalk ------------------------------
(***************************************************************************)
(* mailauth/treewalk.go and the functions built on it: from the DMARC      *)
(* records that a name and its ancestors publish, the Organizational       *)
(* Domain of the name, and the record that governs it (RFC 9989 4.10).     *)
(*                                                                         *)
(* A name is the sequence of its labels, the top-level one last.  A view   *)
(* is what each name is known to publish under _dmarc.                     *)
(***************************************************************************)
EXTENDS Integers, Sequences

CONSTANTS Names,        \* domain names, with all of their ancestors
          MaxLabels,    \* maxTreeWalkLabels (7 in the code)
          NoRecord,     \* nothing is published, or nothing that is DMARC
          Malformed,    \* a record that ParseDMARC rejects
          NoName        \* no name, the "" of the code

\* The tags of a record that matter here: psd, and whether sp is set.
Record == [psd : {"", "y", "n"}, sp : BOOLEAN]

Suffix(d, n) == SubSeq(d, Len(d) - n + 1, Len(d))

ASSUME NameAssumption ==
    /\ \A d \in Names : /\ Len(d) \in Nat \ {0}
                        /\ d \in Seq({d[i] : i \in 1..Len(d)})
                        /\ \A n \in 1..Len(d) : Suffix(d, n) \in Names
    /\ MaxLabels \in Nat \ {0}
    /\ NoName \notin Names
    /\ NoRecord \notin Record /\ Malformed \notin Record /\ NoRecord # Malformed

-----------------------------------------------------------------------------
\* The ancestors that are asked after d itself, nearest first: all of them, or
\* the MaxLabels last if there are more.
TreeWalkNames(d) ==
    LET start == IF Len(d) - 1 > MaxLabels THEN MaxLabels ELSE Len(d) - 1
    IN  [i \in 1..start |-> Suffix(d, start - i + 1)]

\* What a walk for alignment asks, d included.
Climb(d) == <<d>> \o TreeWalkNames(d)

\* A record that was found, and its position among the names asked, from 0.
Found(step, name, rec) == [step |-> step, name |-> name, rec |-> rec]

First(fs) == CHOOSE f \in fs : \A g \in fs : f.step <= g.step
LastOf(fs) == CHOOSE f \in fs : \A g \in fs : f.step >= g.step

\* A record that says whether it is a public suffix ends the walk.
Ends(rec) == rec.psd # ""

\* Mistaken: the organization below a public suffix is the name asked about.
OrgFromStart(names, records) ==
    LET says == {f \in records : f.rec.psd = "n" \/ (f.rec.psd = "y" /\ f.step > 0)}
        org == IF says # {} /\ First(says).rec.psd = "y" THEN names[1] ELSE LastOf(records).name
    IN  IF records = {} THEN [org |-> NoName, from |-> NoName]
        ELSE [org |-> org, from |-> LastOf(records).name]

\* Mistaken: the organization is said to publish what the public suffix does.
OrgMisattributing(names, records) ==
    LET says == {f \in records : f.rec.psd = "n" \/ (f.rec.psd = "y" /\ f.step > 0)}
        org == IF says # {} /\ First(says).rec.psd = "y" THEN names[First(says).step]
               ELSE LastOf(records).name
    IN  IF records = {} THEN [org |-> NoName, from |-> NoName]
        ELSE [org |-> org, from |-> org]

\* organizationalDomain: the organization, and where the record that governs
\* it is published.
OrganizationalDomain(names, records) ==
    LET says == {f \in records : f.rec.psd = "n" \/ (f.rec.psd = "y" /\ f.step > 0)}
        f == First(says)
        below == names[f.step]          \* the name before f's in the walk
        last == LastOf(records).name
    IN  IF says # {}
        THEN IF f.rec.psd = "n" THEN [org |-> f.name, from |-> f.name]
             ELSE [org |-> below,
                   from |-> IF \E g \in records : g.name = below THEN below ELSE f.name]
        ELSE IF records = {} THEN [org |-> NoName, from |-> NoName]
        ELSE [org |-> last, from |-> last]

-----------------------------------------------------------------------------
(***************************************************************************)
(* A whole walk in a view that does not change.                            *)
(***************************************************************************)
Publishes(view, name) == view[name] \in Record

SetsSp(view, name) == name # NoName /\ Publishes(view, name) /\ view[name].sp

\* The positions of names that are asked: up to the first record that ends it.
Asked(view, names) ==
    {i \in DOMAIN names : \A j \in 1..(i - 1) :
        ~(Publishes(view, names[j]) /\ Ends(view[names[j]]))}

Walk(view, names) ==
    {Found(i - 1, names[i], view[names[i]]) :
        i \in {j \in Asked(view, names) : Publishes(view, names[j])}}

\* orgWalk: the Organizational Domain of d, and whether anything is published.
OrgWalk(view, d) ==
    LET o == OrganizationalDomain(Climb(d), Walk(view, Climb(d)))
    IN  IF o.org = NoName THEN [org |-> d, published |-> FALSE]
        ELSE [org |-> o.org, published |-> TRUE]

\* LookupDMARC, where no lookup fails: where the record that governs d is
\* published (NoName if there is none), and the tag its policy is read from.
LookupDMARC(view, d) ==
    IF Publishes(view, d) THEN [from |-> d, tag |-> "p"]
    ELSE LET names == TreeWalkNames(d)
             o == OrganizationalDomain(names, Walk(view, names))
         IN  [from |-> o.from,
              tag |-> IF SetsSp(view, o.from) THEN "sp" ELSE "p"]

=============================================================================
