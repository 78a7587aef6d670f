------------------------------ MODULE RateLimit -----------------------------
(***************************************************************************)
(* dnsx/ratelimit.go: a resolver that lets its callers through one slot    *)
(* at a time.  A caller reserves the next free moment under the mutex and  *)
(* sleeps until it arrives; when that is too far ahead it gives the slot   *)
(* back, sleeps an interval and tries again.  Both sleeps end early, with  *)
(* an error, when the caller's context is done.                            *)
(***************************************************************************)
EXTENDS Integers, FiniteSets

CONSTANTS Procs,        \* goroutines calling the resolver
          Interval,     \* limiter.interval: time.Second / qps
          BurstSlots,   \* limiter.burst in intervals (20 in RateLimit)
          MaxTime,      \* bound: the clock stops here
          MaxCalls      \* bound: how often a goroutine calls the resolver

ASSUME LimitAssumption ==
    /\ Interval \in Nat \ {0}
    /\ BurstSlots \in Nat
    /\ MaxTime \in Nat /\ MaxCalls \in Nat

Burst == BurstSlots * Interval

VARIABLES now,         \* the clock
          next,        \* l.next: the next free moment
          pc,          \* the step each goroutine takes next
          slot,        \* at: the moment it has reserved, while it sleeps
          timer,       \* when its back-off ends
          cancelled,   \* whether its context is done
          calls,       \* how often it has been called
          sent         \* the calls that went on to the wrapped resolver, with
                       \* the slots they used (nothing in the code)

vars == <<now, next, pc, slot, timer, cancelled, calls, sent>>

Init ==
    /\ now = 0 /\ next = 0
    /\ pc = [p \in Procs |-> "idle"]
    /\ slot = [p \in Procs |-> 0]
    /\ timer = [p \in Procs |-> 0]
    /\ cancelled = [p \in Procs |-> FALSE]
    /\ calls = [p \in Procs |-> 0]
    /\ sent = {}

Tick ==
    /\ now < MaxTime
    /\ now' = now + 1
    /\ UNCHANGED <<next, pc, slot, timer, cancelled, calls, sent>>

Cancel(p) ==
    /\ pc[p] # "idle" /\ ~cancelled[p]
    /\ cancelled' = [cancelled EXCEPT ![p] = TRUE]
    /\ UNCHANGED <<now, next, pc, slot, timer, calls, sent>>

Goto(p, step) == pc' = [pc EXCEPT ![p] = step]

Call(p) ==
    /\ pc[p] = "idle" /\ calls[p] < MaxCalls
    /\ Goto(p, "reserve")
    /\ calls' = [calls EXCEPT ![p] = @ + 1]
    /\ UNCHANGED <<now, next, slot, timer, cancelled, sent>>

\* The next free moment: idle time is not saved up.
Free == IF next < now THEN now ELSE next
TooFar == Free - now > Burst + Interval

\* p is let through and calls the wrapped resolver.
Grant(p, at) ==
    /\ Goto(p, "inner")
    /\ sent' = sent \cup {[by |-> p, slot |-> at]}

\* wait, under the mutex: the slot is now ...
ReserveNow(p) ==
    /\ pc[p] = "reserve"
    /\ ~TooFar /\ Free = now
    /\ next' = Free + Interval
    /\ Grant(p, Free)
    /\ UNCHANGED <<now, slot, timer, cancelled, calls>>

\* ... or later ...
ReserveLater(p) ==
    /\ pc[p] = "reserve"
    /\ ~TooFar /\ Free > now
    /\ next' = Free + Interval
    /\ slot' = [slot EXCEPT ![p] = Free]
    /\ Goto(p, "sleep")
    /\ UNCHANGED <<now, timer, cancelled, calls, sent>>

\* Mistaken: the slot is kept although it will not be used.
BackOffKeeping(p) ==
    /\ pc[p] = "reserve"
    /\ TooFar
    /\ next' = Free + Interval
    /\ timer' = [timer EXCEPT ![p] = now + Interval]
    /\ Goto(p, "backoff")
    /\ UNCHANGED <<now, slot, cancelled, calls, sent>>

\* ... or too far ahead, and is given back at once.
BackOff(p) ==
    /\ pc[p] = "reserve"
    /\ TooFar
    /\ next' = Free
    /\ timer' = [timer EXCEPT ![p] = now + Interval]
    /\ Goto(p, "backoff")
    /\ UNCHANGED <<now, slot, cancelled, calls, sent>>

Retry(p) ==
    /\ pc[p] = "backoff" /\ now >= timer[p]
    /\ timer' = [timer EXCEPT ![p] = 0]
    /\ Goto(p, "reserve")
    /\ UNCHANGED <<now, next, slot, cancelled, calls, sent>>

\* Mistaken: the slot is not waited for.
SlotTakenEarly(p) ==
    /\ pc[p] = "sleep"
    /\ Grant(p, slot[p])
    /\ slot' = [slot EXCEPT ![p] = 0]
    /\ UNCHANGED <<now, next, timer, cancelled, calls>>

SlotArrives(p) ==
    /\ pc[p] = "sleep" /\ now >= slot[p]
    /\ Grant(p, slot[p])
    /\ slot' = [slot EXCEPT ![p] = 0]
    /\ UNCHANGED <<now, next, timer, cancelled, calls>>

\* Mistaken: a caller that gives up gives back a slot, whether or not it is
\* the last one that was reserved ...
GiveUpReturningSlot(p) ==
    /\ pc[p] \in {"backoff", "sleep"} /\ cancelled[p]
    /\ Goto(p, "idle")
    /\ next' = next - Interval
    /\ slot' = [slot EXCEPT ![p] = 0]
    /\ timer' = [timer EXCEPT ![p] = 0]
    /\ cancelled' = [cancelled EXCEPT ![p] = FALSE]
    /\ UNCHANGED <<now, calls, sent>>

\* ... or whether or not it has reserved any.
GiveUpRewinding(p) ==
    /\ pc[p] \in {"backoff", "sleep"} /\ cancelled[p]
    /\ Goto(p, "idle")
    /\ next' = slot[p] - Interval
    /\ slot' = [slot EXCEPT ![p] = 0]
    /\ timer' = [timer EXCEPT ![p] = 0]
    /\ cancelled' = [cancelled EXCEPT ![p] = FALSE]
    /\ UNCHANGED <<now, calls, sent>>

\* The context is done first: wait returns its error, and nothing is asked.
\* A slot that was reserved is not given back.
GiveUp(p) ==
    /\ pc[p] \in {"backoff", "sleep"} /\ cancelled[p]
    /\ Goto(p, "idle")
    /\ slot' = [slot EXCEPT ![p] = 0]
    /\ timer' = [timer EXCEPT ![p] = 0]
    /\ cancelled' = [cancelled EXCEPT ![p] = FALSE]
    /\ UNCHANGED <<now, next, calls, sent>>

InnerReturns(p) ==
    /\ pc[p] = "inner"
    /\ Goto(p, "idle")
    /\ cancelled' = [cancelled EXCEPT ![p] = FALSE]
    /\ UNCHANGED <<now, next, slot, timer, calls, sent>>

Next ==
    \/ Tick
    \/ \E p \in Procs : \/ Call(p) \/ Cancel(p)
                        \/ ReserveNow(p) \/ ReserveLater(p) \/ BackOff(p)
                        \/ Retry(p) \/ SlotArrives(p) \/ GiveUp(p)
                        \/ InnerReturns(p)

Spec == Init /\ [][Next]_vars

-----------------------------------------------------------------------------
\* The types of the variables.
TypeOK ==
    /\ now \in Nat /\ next \in Nat
    /\ pc \in [Procs -> {"idle", "reserve", "backoff", "sleep", "inner"}]
    /\ slot \in [Procs -> Nat] /\ timer \in [Procs -> Nat]
    /\ cancelled \in [Procs -> BOOLEAN]
    /\ calls \in [Procs -> Nat]
    /\ sent \subseteq [by : Procs, slot : Nat]

Apart(s, t) == s + Interval <= t \/ t + Interval <= s

\* Slots are handed out at least an interval apart, whoever holds them and
\* whether or not they have been used: no two queries share one, also when
\* reservations are given back or abandoned in between.
SlotsApart ==
    /\ \A s, t \in sent : s # t => Apart(s.slot, t.slot)
    /\ \A p, q \in Procs :
          pc[p] = "sleep" /\ pc[q] = "sleep" /\ p # q => Apart(slot[p], slot[q])
    /\ \A s \in sent, p \in Procs : pc[p] = "sleep" => Apart(s.slot, slot[p])

\* The ceiling this limiter exists for: at no time have more queries been sent
\* than one per interval since the start.
RateCeiling == Cardinality(sent) <= now \div Interval + 1

\* Reservations do not queue unboundedly: nobody sleeps for a slot more than
\* the burst and an interval ahead, and a caller that backs off does not push
\* the next free moment further away.
HorizonBounded ==
    /\ next <= now + Burst + 2 * Interval
    /\ \A p \in Procs : pc[p] = "sleep" => slot[p] <= now + Burst + Interval

=============================================================================
