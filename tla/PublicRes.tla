------------------------------ MODULE PublicRes -----------------------------
(***************************************************************************)
(* dnsx/publicres: a resolver that puts each question to a rotation of     *)
(* nameservers.  A query makes up to cfg.Attempts attempts, each on the    *)
(* next server of a counter every goroutine shares, each bounded by        *)
(* cfg.Timeout; a server that does not answer, or answers that it failed   *)
(* or refused, leads to the next attempt, and a truncated answer is asked  *)
(* for again over TCP within the same time.                                *)
(***************************************************************************)
EXTENDS ResolverConfig

CONSTANT Procs          \* goroutines sharing the Resolver

VARIABLES now,          \* the clock
          next,         \* r.next: attempts begun, by anybody
          pc,           \* where in Query each goroutine is
          question,     \* what it asks, while it does
          attempt,      \* the attempt it makes
          ticket,       \* the turn it took at the rotation for that attempt
          deadline,     \* when the attempt's context expires
          cancelled,    \* whether its caller's context is done
          result,       \* what its last call returned
          asked,        \* how often each server was chosen, and
          started       \* when the query began (neither is in the code)

vars == <<now, next, pc, question, attempt, ticket, deadline, cancelled,
          result, asked, started>>

Servers == 0 .. NServers - 1

Init ==
    /\ now = 0 /\ next = 0
    /\ pc = [p \in Procs |-> "idle"]
    /\ question = [p \in Procs |-> None]
    /\ attempt = [p \in Procs |-> 0]
    /\ ticket = [p \in Procs |-> 0]
    /\ deadline = [p \in Procs |-> 0]
    /\ cancelled = [p \in Procs |-> FALSE]
    /\ result = [p \in Procs |-> None]
    /\ asked = [s \in Servers |-> 0]
    /\ started = [p \in Procs |-> 0]

Exchanging(p) == pc[p] \in {"udp", "tcp"}

\* An exchange does not outlive the context it was given, and the steps
\* between two exchanges take no time.
Tick ==
    /\ \A p \in Procs : \/ pc[p] = "idle"
                        \/ Exchanging(p) /\ now < deadline[p]
    /\ now' = now + 1
    /\ UNCHANGED <<next, pc, question, attempt, ticket, deadline, cancelled,
                   result, asked, started>>

\* The caller's context is done, in the middle of a query or before one.
Cancel(p) ==
    /\ ~cancelled[p]
    /\ cancelled' = [cancelled EXCEPT ![p] = TRUE]
    /\ UNCHANGED <<now, next, pc, question, attempt, ticket, deadline, result,
                   asked, started>>

Query(p, q) ==
    /\ pc[p] = "idle"
    /\ pc' = [pc EXCEPT ![p] = "loop"]
    /\ question' = [question EXCEPT ![p] = q]
    /\ result' = [result EXCEPT ![p] = None]
    /\ started' = [started EXCEPT ![p] = now]
    /\ UNCHANGED <<now, next, attempt, ticket, deadline, cancelled, asked>>

\* Query returns r, and what it kept for itself is gone.
Return(p, r) ==
    /\ pc' = [pc EXCEPT ![p] = "idle"]
    /\ question' = [question EXCEPT ![p] = None]
    /\ result' = [result EXCEPT ![p] = r]
    /\ attempt' = [attempt EXCEPT ![p] = 0]
    /\ ticket' = [ticket EXCEPT ![p] = 0]
    /\ deadline' = [deadline EXCEPT ![p] = 0]
    /\ started' = [started EXCEPT ![p] = 0]
    /\ UNCHANGED <<now, next, cancelled, asked>>

\* The caller goes on with what was returned, and calls again under another
\* context.
Take(p) ==
    /\ pc[p] = "idle"
    /\ result' = [result EXCEPT ![p] = None]
    /\ cancelled' = [cancelled EXCEPT ![p] = FALSE]
    /\ UNCHANGED <<now, next, pc, question, attempt, ticket, deadline, asked,
                   started>>

\* The empty name is not looked up at all.
EmptyName(p) ==
    /\ pc[p] = "idle"
    /\ result' = [result EXCEPT ![p] = NoName]
    /\ UNCHANGED <<now, next, pc, question, attempt, ticket, deadline,
                   cancelled, asked, started>>

\* Mistaken: the loop has no end of its own.
GiveUpCancelledOnly(p) ==
    /\ pc[p] = "loop"
    /\ cancelled[p]
    /\ Return(p, Error)

\* The top of the loop: no attempt is left, and the last error is returned;
\* the context is done, and its error is; or ...
GiveUp(p) ==
    /\ pc[p] = "loop"
    /\ attempt[p] >= Attempts \/ cancelled[p]
    /\ Return(p, Error)

\* ... the next server of the rotation is asked.
Server(t) == t % NServers

\* Mistaken: the turn is read and the counter left as it is ...
AttemptInPlace(p) ==
    /\ pc[p] = "loop"
    /\ attempt[p] < Attempts /\ ~cancelled[p]
    /\ ticket' = [ticket EXCEPT ![p] = next]
    /\ next' = IF attempt[p] = 0 THEN next + 1 ELSE next
    /\ asked' = [asked EXCEPT ![Server(next)] = @ + 1]
    /\ deadline' = [deadline EXCEPT ![p] = now + Timeout]
    /\ pc' = [pc EXCEPT ![p] = "udp"]
    /\ UNCHANGED <<now, question, attempt, cancelled, result, started>>

\* ... or a retry stays on the server of the attempt before.
AttemptSameServer(p) ==
    /\ pc[p] = "loop"
    /\ attempt[p] < Attempts /\ ~cancelled[p]
    /\ ticket' = [ticket EXCEPT ![p] = IF attempt[p] = 0 THEN next ELSE @]
    /\ next' = next + 1
    /\ asked' = [asked EXCEPT ![Server(ticket'[p])] = @ + 1]
    /\ deadline' = [deadline EXCEPT ![p] = now + Timeout]
    /\ pc' = [pc EXCEPT ![p] = "udp"]
    /\ UNCHANGED <<now, question, attempt, cancelled, result, started>>

Attempt(p) ==
    /\ pc[p] = "loop"
    /\ attempt[p] < Attempts /\ ~cancelled[p]
    /\ ticket' = [ticket EXCEPT ![p] = next]
    /\ next' = next + 1
    /\ asked' = [asked EXCEPT ![Server(next)] = @ + 1]
    /\ deadline' = [deadline EXCEPT ![p] = now + Timeout]
    /\ pc' = [pc EXCEPT ![p] = "udp"]
    /\ UNCHANGED <<now, question, attempt, cancelled, result, started>>

\* Mistaken: the attempt does not count.
TryAgainFreely(p) ==
    /\ pc' = [pc EXCEPT ![p] = "loop"]
    /\ UNCHANGED <<now, next, question, attempt, ticket, deadline, cancelled,
                   result, asked, started>>

\* The end of an attempt that leads to another one.
TryAgain(p) ==
    /\ pc' = [pc EXCEPT ![p] = "loop"]
    /\ attempt' = [attempt EXCEPT ![p] = @ + 1]
    /\ UNCHANGED <<now, next, question, ticket, deadline, cancelled, result,
                   asked, started>>

\* A timeout, a network error, a context that is done.
Unanswered(p) == Exchanging(p) /\ TryAgain(p)

\* SERVFAIL or REFUSED.
Refused(p) == Exchanging(p) /\ TryAgain(p)

\* Any other response code that is not an answer.
Rejected(p) == Exchanging(p) /\ Return(p, Error)

\* Mistaken: the answer is used as far as it goes ...
TruncatedKept(p) ==
    /\ pc[p] = "udp"
    /\ Return(p, Partial)

\* ... or TCP is given a timeout of its own.
TruncatedAfresh(p) ==
    /\ pc[p] = "udp"
    /\ pc' = [pc EXCEPT ![p] = "tcp"]
    /\ deadline' = [deadline EXCEPT ![p] = now + Timeout]
    /\ UNCHANGED <<now, next, question, attempt, ticket, cancelled, result,
                   asked, started>>

\* The answer did not fit: the whole of it is asked for over TCP, in what is
\* left of the same timeout.
Truncated(p) ==
    /\ pc[p] = "udp"
    /\ pc' = [pc EXCEPT ![p] = "tcp"]
    /\ UNCHANGED <<now, next, question, attempt, ticket, deadline, cancelled,
                   result, asked, started>>

\* NOERROR or NXDOMAIN.
Answered(p) == Exchanging(p) /\ Return(p, Zone[question[p]])

Run(p) == \/ GiveUp(p) \/ Attempt(p)
          \/ Unanswered(p) \/ Refused(p) \/ Rejected(p)
          \/ Truncated(p) \/ Answered(p)

Next ==
    \/ Tick
    \/ \E p \in Procs : \/ Cancel(p) \/ EmptyName(p) \/ Run(p) \/ Take(p)
                        \/ \E q \in Questions : Query(p, q)

Spec == Init /\ [][Next]_vars

-----------------------------------------------------------------------------
\* The types of the variables.
TypeOK ==
    /\ now \in Nat /\ next \in Nat
    /\ pc \in [Procs -> {"idle", "loop", "udp", "tcp"}]
    /\ question \in [Procs -> Questions \cup {None}]
    /\ attempt \in [Procs -> 0 .. Attempts]
    /\ ticket \in [Procs -> Nat] /\ deadline \in [Procs -> Nat]
    /\ cancelled \in [Procs -> BOOLEAN]
    /\ result \in [Procs -> {Zone[q] : q \in Questions}
                           \cup {None, Error, NoName}]
    /\ asked \in [Servers -> Nat] /\ started \in [Procs -> Nat]

\* The rotation is shared by every worker: whatever the interleaving of their
\* first attempts and retries, no server is asked more than once more often
\* than another, and no two attempts take the same turn.
Balanced ==
    /\ \A s, t \in Servers : asked[s] <= asked[t] + 1
    /\ \A p, q \in Procs :
          Exchanging(p) /\ Exchanging(q) /\ p # q => ticket[p] # ticket[q]

\* One slow name does not consume its caller's budget: a query is over within
\* cfg.Timeout for each of its cfg.Attempts, the detours over TCP included.
TimeBounded ==
    \A p \in Procs : pc[p] # "idle" => now <= started[p] + Attempts * Timeout

\* A retry does not go back to the server that just failed, unless others
\* have taken the turns of all the other servers in between.
RetryMoves ==
    [][\A p \in Procs :
         /\ Attempt(p) /\ attempt[p] > 0
         /\ Server(ticket'[p]) = Server(ticket[p])
         => next - ticket[p] >= NServers]_vars

\* Query keeps the promise of Resolve: what it reports as an answer is what
\* the zone holds, however many servers were silent, failed, refused or sent
\* an answer cut short.
Promise == INSTANCE Resolve
KeepsPromise == Promise!Spec

=============================================================================
