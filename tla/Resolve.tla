------------------------------- MODULE Resolve ------------------------------
(***************************************************************************)
(* What dnsx.TracingResolver promises a caller: a question is answered     *)
(* with what the zone holds, or with an error.  A failure to ask is never  *)
(* reported as something the zone says.                                    *)
(***************************************************************************)
CONSTANTS Procs,        \* goroutines that call the resolver
          Questions,    \* what they may ask
          Zone,         \* the rcode and the content behind each question
          None          \* no question, no result

VARIABLES question,     \* what each goroutine is asking
          result        \* what its last call returned

Error  == "error"
NoName == "no name"

Init == /\ question = [p \in Procs |-> None]
        /\ result = [p \in Procs |-> None]

Ask(p, q) ==
    /\ question[p] = None
    /\ question' = [question EXCEPT ![p] = q]
    /\ result' = [result EXCEPT ![p] = None]

Finish(p, r) ==
    /\ question' = [question EXCEPT ![p] = None]
    /\ result' = [result EXCEPT ![p] = r]

Answer(p) == question[p] # None /\ Finish(p, Zone[question[p]])

Fail(p) == question[p] # None /\ Finish(p, Error)

\* There is no question in an empty name.
Decline(p) ==
    /\ question[p] = None
    /\ result' = [result EXCEPT ![p] = NoName]
    /\ UNCHANGED question

\* The caller goes on with what was returned.
Take(p) ==
    /\ question[p] = None
    /\ result' = [result EXCEPT ![p] = None]
    /\ UNCHANGED question

Next == \E p \in Procs : \/ \E q \in Questions : Ask(p, q)
                         \/ Answer(p) \/ Fail(p) \/ Decline(p) \/ Take(p)

Spec == Init /\ [][Next]_<<question, result>>

=============================================================================
