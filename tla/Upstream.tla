------------------------------ MODULE Upstream ------------------------------
(***************************************************************************)
(* A public resolver behind the rate limiter, as a survey builds it:       *)
(* dnsx.RateLimit(publicres.New(cfg), qps).  The limiter's variables and   *)
(* actions are those of RateLimit; the queries a caller makes once it is   *)
(* let through are PublicRes's, under the same clock and the same context. *)
(* The limiter lets calls through, and a call is not always one query:     *)
(* LookupHost asks for AAAA records, in the slot it has, when it finds no  *)
(* A record.                                                               *)
(***************************************************************************)
EXTENDS RateLimit, ResolverConfig

CONSTANTS IPv6Of,       \* the AAAA question that goes with each A question
          NoHosts       \* the answers without an address

ASSUME HostAssumption == IPv6Of \in [DOMAIN IPv6Of -> Questions]

VARIABLES rotation,     \* the resolver's counter, and where in Query each
          step,         \* goroutine is
          question, attempt, ticket, deadline, result, asked, started,
          fallback      \* what its call asks next if it finds no address; None
                        \* when there is nothing more to ask

pubvars == <<rotation, step, question, attempt, ticket, deadline, result,
             asked, started>>

Pub == INSTANCE PublicRes WITH next <- rotation, pc <- step

InitBoth == Init /\ Pub!Init /\ fallback = [p \in Procs |-> None]

Asks(p, q, f) ==
    /\ Pub!Query(p, q)
    /\ fallback' = [fallback EXCEPT ![p] = f]

\* The limiter passes the call on: a query begins, be it the only one or the
\* first of LookupHost's.  For an empty name, or an address LookupAddr cannot
\* reverse, none does.
Let(p) ==
    /\ ReserveNow(p) \/ SlotArrives(p)
    /\ \/ Pub!EmptyName(p) /\ UNCHANGED fallback
       \/ \E q \in Questions : Asks(p, q, None)
       \/ \E q \in DOMAIN IPv6Of \cap Questions : Asks(p, q, IPv6Of[q])

\* Nothing has been passed on, or it has not returned.
Wait(p) ==
    /\ \/ Call(p) \/ Cancel(p) \/ ReserveLater(p) \/ BackOff(p)
       \/ Retry(p) \/ GiveUp(p)
    /\ UNCHANGED <<pubvars, fallback>>

\* A step of the resolver's.
Asking(p) ==
    /\ pc[p] = "inner"
    /\ Pub!Run(p)
    /\ UNCHANGED <<now, next, pc, slot, timer, cancelled, calls, sent, fallback>>

\* The A query was answered, without an address.
FallsBack(p) ==
    /\ pc[p] = "inner" /\ step[p] = "idle"
    /\ fallback[p] # None /\ result[p] \in NoHosts

\* Mistaken: AAAA records are asked for until there are some.
AskIPv6Again(p) ==
    /\ FallsBack(p)
    /\ Asks(p, fallback[p], fallback[p])
    /\ UNCHANGED vars

\* LookupHost asks for AAAA records, without asking the limiter again.
AskIPv6(p) ==
    /\ FallsBack(p)
    /\ Asks(p, fallback[p], None)
    /\ UNCHANGED vars

\* The call has returned, and so does the limiter.
Back(p) ==
    /\ step[p] = "idle" /\ ~FallsBack(p)
    /\ InnerReturns(p)
    /\ result' = [result EXCEPT ![p] = None]
    /\ fallback' = [fallback EXCEPT ![p] = None]
    /\ UNCHANGED <<rotation, step, question, attempt, ticket, deadline, asked,
                   started>>

NextBoth ==
    \/ Tick /\ Pub!Tick /\ UNCHANGED fallback
    \/ \E p \in Procs : Let(p) \/ Wait(p) \/ Asking(p) \/ AskIPv6(p) \/ Back(p)

allvars == <<vars, pubvars, fallback>>

\* A goroutine that has been let through is run, and its exchanges end.
SpecBoth ==
    /\ InitBoth /\ [][NextBoth]_allvars
    /\ \A p \in Procs : WF_allvars(Asking(p) \/ AskIPv6(p) \/ Back(p))

-----------------------------------------------------------------------------
\* The limiter lets calls through, not packets: a call makes up to two queries
\* in its slot, and a query several attempts.  The attempts made upstream, by
\* all goroutines together, still keep to the rate, times those of two queries.
AttemptCeiling == rotation <= 2 * Attempts * (now \div Interval + 1)

\* The properties of the resolver, behind the limiter.
Balanced     == Pub!Balanced
TimeBounded  == Pub!TimeBounded
RetryMoves   == Pub!RetryMoves
KeepsPromise == Pub!KeepsPromise

\* Every call that is let through returns, both its queries included, whatever
\* the servers do.
Returns == \A p \in Procs : pc[p] = "inner" ~> pc[p] # "inner"

\* The resolver meets, behind the limiter, no step it does not make alone.
Resolver == Pub!Spec

=============================================================================
