------------------------------- MODULE Aligner ------------------------------
(***************************************************************************)
(* mailauth.Aligner: alignment questions about the names of one message,   *)
(* answered by walks of the DNS tree that share what they were told.       *)
(*                                                                         *)
(* Each question is one or two names to walk from.  A step is one lookup   *)
(* of a walk, which is answered from memory, by DNS, or not at all.  The   *)
(* owners of the names may publish something else between any two steps.   *)
(***************************************************************************)
EXTENDS TreeWalk

CONSTANTS Views,        \* what the names may publish
          Subjects,     \* the names that questions are asked about
          Unknown,      \* not asked yet
          MaxCalls,     \* bound: the number of questions
          MaxChanges    \* bound: how often somebody publishes something else

ASSUME AlignerAssumption ==
    /\ Subjects \subseteq Names
    /\ Views \subseteq [Names -> Record \cup {NoRecord, Malformed}]
    /\ Unknown \notin Record \cup {NoRecord, Malformed}
    /\ Unknown \notin [org : Names, published : BOOLEAN]
    /\ MaxCalls \in Nat /\ MaxChanges \in Nat

VARIABLES dns,          \* what each name publishes now
          txt,          \* memoResolver.txt
          orgs,         \* Aligner.orgs
          question,     \* the names of the question being answered
          got,          \* their organizations, as far as they are known
          step,         \* of the walk from the next of them: names asked
          found,        \* and records found
          said,         \* the verdicts given so far (nothing in the code)
          calls, changes

vars == <<dns, txt, orgs, question, got, step, found, said, calls, changes>>

Init ==
    /\ dns \in Views
    /\ txt = [n \in Names |-> Unknown]
    /\ orgs = [n \in Names |-> Unknown]
    /\ question = <<>> /\ got = <<>>
    /\ step = 0 /\ found = {}
    /\ said = {}
    /\ calls = 0 /\ changes = 0

\* The owners of the names publish something else.
Publish ==
    /\ changes < MaxChanges
    /\ dns' \in Views \ {dns}
    /\ changes' = changes + 1
    /\ UNCHANGED <<txt, orgs, question, got, step, found, said, calls>>

-----------------------------------------------------------------------------
\* Aligned, in relaxed mode and for two names; and Org, or PolicyApplies, for
\* one.  Other questions are answered without a walk.
Ask ==
    /\ question = <<>> /\ calls < MaxCalls
    /\ \/ \E d \in Subjects : question' = <<d>>
       \/ \E f, d \in Subjects : f # d /\ question' = <<f, d>>
    /\ calls' = calls + 1
    /\ UNCHANGED <<dns, txt, orgs, got, step, found, said, changes>>

\* The name whose walk is next, and what that walk asks next.
Current == question[Len(got) + 1]
Pending == Len(got) < Len(question)
Walking == Pending /\ orgs[Current] = Unknown
Target == Climb(Current)[step + 1]

\* walked: the answer for this name is remembered.
WalkedBefore ==
    /\ Pending /\ orgs[Current] # Unknown
    /\ got' = Append(got, orgs[Current])
    /\ UNCHANGED <<dns, txt, orgs, question, step, found, said, calls, changes>>

\* The walk is over: its answer is remembered and used.
Conclude(records) ==
    LET o == OrganizationalDomain(Climb(Current), records)
        ans == IF o.org = NoName THEN [org |-> Current, published |-> FALSE]
               ELSE [org |-> o.org, published |-> TRUE]
    IN  /\ orgs' = [orgs EXCEPT ![Current] = ans]
        /\ got' = Append(got, ans)
        /\ step' = 0 /\ found' = {}
        /\ UNCHANGED question

\* The question is given up with an error, and what its walk found is lost.
Abort ==
    /\ question' = <<>> /\ got' = <<>>
    /\ step' = 0 /\ found' = {}
    /\ UNCHANGED orgs

\* Mistaken: the same name is asked for ever.
ContinueInPlace(records) ==
    /\ found' = records
    /\ UNCHANGED <<step, orgs, question, got>>

Continue(records) ==
    /\ step' = step + 1 /\ found' = records
    /\ UNCHANGED <<orgs, question, got>>

\* Mistaken: the walk goes on after the last name.
HandlePastEnd(a) ==
    LET records == IF a \in Record THEN found \cup {Found(step, Target, a)} ELSE found
        over == step + 1 > Len(Climb(Current)) \/ (a \in Record /\ Ends(a))
    IN  IF a = Malformed THEN Abort
        ELSE IF over THEN Conclude(records) ELSE Continue(records)

\* What the walk does with the answer to a lookup.
Handle(a) ==
    LET records == IF a \in Record THEN found \cup {Found(step, Target, a)} ELSE found
        over == step + 1 = Len(Climb(Current)) \/ (a \in Record /\ Ends(a))
    IN  IF a = Malformed THEN Abort
        ELSE IF over THEN Conclude(records) ELSE Continue(records)

\* A lookup is answered from memory ...
Recalled ==
    /\ Walking /\ txt[Target] # Unknown
    /\ Handle(txt[Target])
    /\ UNCHANGED <<dns, txt, said, calls, changes>>

\* ... by DNS, and remembered, whatever it is ...
Answered ==
    /\ Walking /\ txt[Target] = Unknown
    /\ Handle(dns[Target])
    /\ txt' = [txt EXCEPT ![Target] = dns[Target]]
    /\ UNCHANGED <<dns, said, calls, changes>>

\* Mistaken: no answer is taken for no record.
UnansweredIsNothing ==
    /\ Walking /\ txt[Target] = Unknown
    /\ Handle(NoRecord)
    /\ UNCHANGED <<dns, txt, said, calls, changes>>

\* ... or not at all.
Unanswered ==
    /\ Walking /\ txt[Target] = Unknown
    /\ Abort
    /\ UNCHANGED <<dns, txt, said, calls, changes>>

\* Everything that was needed is known, and the caller is told.
Reply ==
    /\ question # <<>> /\ ~Pending
    /\ said' = said \cup {[names |-> question, orgs |-> got]}
    /\ question' = <<>> /\ got' = <<>>
    /\ UNCHANGED <<dns, txt, orgs, step, found, calls, changes>>

Next ==
    \/ Publish
    \/ Ask
    \/ WalkedBefore
    \/ Recalled \/ Answered \/ Unanswered
    \/ Reply

Spec == Init /\ [][Next]_vars

\* A lookup returns, if only with an error.
FairSpec == Spec /\ WF_vars(WalkedBefore \/ Recalled \/ Answered \/ Unanswered \/ Reply)

-----------------------------------------------------------------------------
\* The types of the variables; a walk is never longer than its names.
Answers == Record \cup {NoRecord, Malformed}
OrgAnswer == [org : Names, published : BOOLEAN]

TypeOK ==
    /\ dns \in [Names -> Answers]
    /\ txt \in [Names -> Answers \cup {Unknown}]
    /\ orgs \in [Names -> OrgAnswer \cup {Unknown}]
    /\ question \in Seq(Names) /\ got \in Seq(OrgAnswer) /\ Len(got) <= Len(question)
    /\ step \in 0..MaxLabels
    /\ Pending => step < Len(Climb(Current))
    /\ found \subseteq [step : 0..MaxLabels, name : Names, rec : Record]

\* The walk from d can be made on what is remembered, and its outcome is o.
Learned(d, o) ==
    /\ \A i \in Asked(txt, Climb(d)) : txt[Climb(d)[i]] \notin {Unknown, Malformed}
    /\ o = OrgWalk(txt, d)

\* Everything an Aligner says is true of one view of DNS, the answers it
\* remembers, although lookups fail, records are malformed and the zones change
\* while it asks: there is one assignment of records to names under which all
\* its verdicts hold together, so that no two of them contradict each other, and
\* none rests on a lookup that did not complete.  (The names may have been asked
\* at different moments.)
OneView ==
    /\ \A d \in Names : orgs[d] # Unknown => Learned(d, orgs[d])
    /\ \A v \in said : \A i \in DOMAIN v.names : Learned(v.names[i], v.orgs[i])

\* Every question is answered, with a verdict or an error.
EveryQuestionReturns == (question # <<>>) ~> (question = <<>>)

\* Alignment groups names by organization.  An organization is its own; and a
\* subdomain shares that of the name it is below, as long as nothing on the way
\* says where public suffixes end, whatever else is published there.
OneOrganization ==
    \A d \in Names : orgs[d] # Unknown =>
        /\ LET org == orgs[d].org IN orgs[org] # Unknown => orgs[org].org = org
        /\ \A n \in 1..Len(d) :
              LET above == Suffix(d, n) IN
              /\ Len(d) <= MaxLabels + 1       \* no name is skipped
              /\ orgs[above] # Unknown /\ orgs[above].published
              /\ txt[above] \in Record => txt[above].psd # "y"
              /\ \A m \in (n + 1)..Len(d) :
                    txt[Suffix(d, m)] \in Record => ~Ends(txt[Suffix(d, m)])
              => orgs[d].org = orgs[above].org

\* Alignment and policy discovery agree.  A record governs d exactly when the
\* alignment walk has found one, and it is d's own, its organization's, or that
\* of the public suffix its organization is below.
PolicyMatchesOrg ==
    \A d \in Names : orgs[d] # Unknown =>
        LET o == orgs[d]
            from == LookupDMARC(txt, d).from
        IN  /\ from # NoName <=> o.published
            /\ from # NoName => Publishes(txt, from)
            /\ \/ from \in {NoName, d, o.org}
               \/ /\ txt[from].psd = "y" /\ ~Publishes(txt, o.org)
                  /\ Len(from) < Len(o.org) /\ Suffix(o.org, Len(from)) = from

=============================================================================
