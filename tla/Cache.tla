-------------------------------- MODULE Cache -------------------------------
(***************************************************************************)
(* dnsx/cache: a TTL-aware cache in front of a resolver, shared by many    *)
(* goroutines, that lets one goroutine ask a question on behalf of all     *)
(* those that need the same answer.                                        *)
(*                                                                         *)
(* Each goroutine p runs Cache.Query.  A step of p is what the code does   *)
(* while it holds the mutex once, a send or receive on a channel, or the   *)
(* call of the wrapped resolver; pc[p] names the step p takes next.  Time  *)
(* passes, contexts are cancelled and other goroutines run between any two *)
(* of them.                                                                *)
(*                                                                         *)
(* A channel is named after the goroutine that made it: it can have only   *)
(* one open.  Closing it turns the name into Closed wherever it is held.   *)
(***************************************************************************)
EXTENDS Integers, FiniteSets

CONSTANTS Procs,        \* goroutines calling Query
          Keys,         \* questions: a normalised name and a record type
          TTLs,         \* TTLs, in seconds, that answers arrive with
          MinTTL, MaxTTL, NegativeTTL, MaxEntries,  \* Config, after withDefaults
          MaxTime,      \* bound: the clock stops here
          MaxCalls,     \* bound: how often a goroutine calls Query
          None,         \* no entry, no answer, no waiter, a nil channel
          Closed        \* a channel that has been closed

Answer == [key : Keys, at : 0..MaxTime, ttl : TTLs \cup {0}, empty : BOOLEAN]
Entry == [answer : Answer, expires : Nat, observed : Nat, reused : BOOLEAN]

ASSUME ConfigAssumption ==
    /\ MinTTL \in Nat \ {0} /\ MaxTTL \in Nat \ {0} /\ NegativeTTL \in Nat \ {0}
    /\ MaxEntries \in Nat \ {0}

ASSUME ModelAssumption ==
    /\ IsFiniteSet(Keys)
    /\ TTLs \subseteq Nat
    /\ MaxTime \in Nat /\ MaxCalls \in Nat
    /\ None \notin Procs \cup Keys \cup Answer \cup Entry
    /\ Closed \notin Procs \cup {None}

VARIABLES now,         \* the clock c.now reads
          entries,     \* c.entries; None where the map has no such key
          waiters,     \* c.waiters: the open channel of each in-flight lookup
          pc,          \* the step each goroutine takes next
          question,    \* the key it was called with; None between calls
          cancelled,   \* whether its context is done
          chan,        \* the channel it holds (wait, in Query; ch, in release)
          held,        \* what c.tracer.Query returned to it; None for an error
          ret,         \* what Query returned to its caller; None for an error
          asked,       \* when it was called (nothing in the code: for Memo)
          calls        \* how often it has been called

vars == <<now, entries, waiters, pc, question, cancelled, chan, held, ret,
          asked, calls>>
local == <<question, cancelled, asked, calls>>  \* what stays during a call
shared == <<entries, waiters>>

Steps == {"idle", "get", "claim", "wait", "query", "release", "close", "put"}

-----------------------------------------------------------------------------
\* Mistaken: no ceiling.
LifeUncapped(a) ==
    IF a.empty THEN NegativeTTL ELSE IF a.ttl < MinTTL THEN MinTTL ELSE a.ttl

\* How long put lets an answer live.
Life(a) ==
    IF a.empty THEN NegativeTTL
    ELSE LET floored == IF a.ttl < MinTTL THEN MinTTL ELSE a.ttl
         IN  IF floored > MaxTTL THEN MaxTTL ELSE floored

Stored(es) == {k \in Keys : es[k] # None}
Keep(es, S) == [k \in Keys |-> IF k \in S THEN es[k] ELSE None]
Expired(e) == now > e.expires
\* Mistaken: an expired entry is served.
Present(k) == entries[k] # None
Servable(k) == entries[k] # None /\ ~Expired(entries[k])

\* The maps evictLocked can leave behind: expired entries go, and if that was
\* not enough others follow, in no order, until half the bound is left.
Evicted(es) ==
    LET live == {k \in Stored(es) : ~Expired(es[k])}
        target == MaxEntries \div 2
    IN  IF Cardinality(live) <= target THEN {Keep(es, live)}
        ELSE {Keep(es, S) : S \in {T \in SUBSET live : Cardinality(T) = target}}

\* The answers the wrapped resolver can return to a question now.  An empty
\* one has no record to take a TTL from.
WireAnswers(k) ==
    [key : {k}, at : {now}, ttl : TTLs, empty : {FALSE}]
      \cup [key : {k}, at : {now}, ttl : {0}, empty : {TRUE}]

-----------------------------------------------------------------------------
Init ==
    /\ now = 0
    /\ entries = [k \in Keys |-> None]
    /\ waiters = [k \in Keys |-> None]
    /\ pc = [p \in Procs |-> "idle"]
    /\ question = [p \in Procs |-> None]
    /\ cancelled = [p \in Procs |-> FALSE]
    /\ chan = [p \in Procs |-> None]
    /\ held = [p \in Procs |-> None]
    /\ ret = [p \in Procs |-> None]
    /\ asked = [p \in Procs |-> 0]
    /\ calls = [p \in Procs |-> 0]

Tick ==
    /\ now < MaxTime
    /\ now' = now + 1
    /\ UNCHANGED <<shared, pc, local, chan, held, ret>>

\* A caller's context is cancelled, or its deadline passes.
Cancel(p) ==
    /\ pc[p] # "idle" /\ ~cancelled[p]
    /\ cancelled' = [cancelled EXCEPT ![p] = TRUE]
    /\ UNCHANGED <<now, shared, pc, question, chan, held, ret, asked, calls>>

Goto(p, step) == pc' = [pc EXCEPT ![p] = step]

\* Query returns a to its caller and its locals go out of scope.
Return(p, a) ==
    /\ Goto(p, "idle")
    /\ ret' = [ret EXCEPT ![p] = a]
    /\ held' = [held EXCEPT ![p] = None]
    /\ question' = [question EXCEPT ![p] = None]
    /\ cancelled' = [cancelled EXCEPT ![p] = FALSE]
    /\ asked' = [asked EXCEPT ![p] = 0]
    /\ UNCHANGED calls

Call(p, k) ==
    /\ pc[p] = "idle" /\ calls[p] < MaxCalls
    /\ Goto(p, "get")
    /\ question' = [question EXCEPT ![p] = k]
    /\ ret' = [ret EXCEPT ![p] = None]
    /\ asked' = [asked EXCEPT ![p] = now]
    /\ calls' = [calls EXCEPT ![p] = @ + 1]
    /\ UNCHANGED <<now, shared, cancelled, chan, held>>

\* get: an unexpired entry is served and marked as used ...
Hit(p) ==
    LET k == question[p] IN
    /\ pc[p] = "get"
    /\ Servable(k)
    /\ entries' = [entries EXCEPT ![k].reused = TRUE]
    /\ Return(p, entries[k].answer)
    /\ chan' = [chan EXCEPT ![p] = None]
    /\ UNCHANGED <<now, waiters>>

\* ... an expired one is dropped, and the goroutine goes on to claim.
Miss(p) ==
    LET k == question[p] IN
    /\ pc[p] = "get"
    /\ ~Servable(k)
    /\ entries' = [entries EXCEPT ![k] = None]
    /\ Goto(p, "claim")
    /\ UNCHANGED <<now, waiters, local, chan, held, ret>>

\* Mistaken: a lookup already in flight is not looked for.
LeadAnyway(p) ==
    /\ pc[p] = "claim"
    /\ waiters' = [waiters EXCEPT ![question[p]] = p]
    /\ Goto(p, "query")
    /\ UNCHANGED <<now, entries, local, chan, held, ret>>

\* claim: nobody is asking this question, so p will ...
Lead(p) ==
    LET k == question[p] IN
    /\ pc[p] = "claim"
    /\ waiters[k] = None
    /\ waiters' = [waiters EXCEPT ![k] = p]
    /\ Goto(p, "query")
    /\ UNCHANGED <<now, entries, local, chan, held, ret>>

\* ... or somebody is, and p waits for it to finish.
Follow(p) ==
    LET k == question[p] IN
    /\ pc[p] = "claim"
    /\ waiters[k] # None
    /\ chan' = [chan EXCEPT ![p] = waiters[k]]
    /\ Goto(p, "wait")
    /\ UNCHANGED <<now, shared, local, held, ret>>

\* Mistaken: a goroutine woken without an entry takes that for its answer.
WakeWithFailure(p) ==
    /\ pc[p] = "wait"
    /\ chan[p] = Closed
    /\ IF entries[question[p]] = None
       THEN Return(p, None)
       ELSE Goto(p, "get") /\ UNCHANGED <<local, held, ret>>
    /\ UNCHANGED <<now, shared, chan>>

\* The two cases of the select.  When both are ready either may be taken.
Wake(p) ==
    /\ pc[p] = "wait"
    /\ chan[p] = Closed
    /\ Goto(p, "get")
    /\ UNCHANGED <<now, shared, local, chan, held, ret>>

GiveUp(p) ==
    /\ pc[p] = "wait"
    /\ cancelled[p]
    /\ Return(p, None)
    /\ chan' = [chan EXCEPT ![p] = None]
    /\ UNCHANGED <<now, shared>>

\* The wrapped resolver answers p's question ...
Answered(p) ==
    /\ pc[p] = "query"
    /\ \E a \in WireAnswers(question[p]) : held' = [held EXCEPT ![p] = a]
    /\ Goto(p, "release")
    /\ UNCHANGED <<now, shared, local, chan, ret>>

\* ... or reports that the lookup did not complete.
Unanswered(p) ==
    /\ pc[p] = "query"
    /\ held' = [held EXCEPT ![p] = None]
    /\ Goto(p, "release")
    /\ UNCHANGED <<now, shared, local, chan, ret>>

Closing(ch) == [q \in Procs |-> IF chan[q] = ch THEN Closed ELSE chan[q]]

\* Mistaken: the channel is closed and stays in the map, for newcomers to wait
\* on ...
ReleaseKeeping(p) ==
    LET k == question[p] IN
    /\ pc[p] = "release"
    /\ chan' = [Closing(waiters[k]) EXCEPT ![p] = None]
    /\ waiters' = [waiters EXCEPT ![k] = Closed]
    /\ Goto(p, "close")
    /\ UNCHANGED <<now, entries, local, held, ret>>

\* ... or is read after the entry that holds it is deleted.
ReleaseDeletingFirst(p) ==
    /\ pc[p] = "release"
    /\ chan' = [chan EXCEPT ![p] = None]
    /\ waiters' = [waiters EXCEPT ![question[p]] = None]
    /\ Goto(p, "close")
    /\ UNCHANGED <<now, entries, local, held, ret>>

\* release, under the mutex: the lookup is no longer in flight.
Release(p) ==
    LET k == question[p] IN
    /\ pc[p] = "release"
    /\ chan' = [chan EXCEPT ![p] = waiters[k]]
    /\ waiters' = [waiters EXCEPT ![k] = None]
    /\ Goto(p, "close")
    /\ UNCHANGED <<now, entries, local, held, ret>>

\* release, after the mutex: everyone waiting is woken, and p, if its lookup
\* failed, returns the error.
Close(p) ==
    /\ pc[p] = "close"
    /\ chan' = [IF chan[p] = None THEN chan ELSE Closing(chan[p]) EXCEPT ![p] = None]
    /\ IF held[p] = None THEN Return(p, None)
       ELSE Goto(p, "put") /\ UNCHANGED <<local, held, ret>>
    /\ UNCHANGED <<now, shared>>

\* Mistaken: room is made only once the bound is exceeded.
PutOffByOne(p) ==
    /\ pc[p] = "put"
    /\ \E es \in IF Cardinality(Stored(entries)) > MaxEntries
                 THEN Evicted(entries) ELSE {entries} :
         entries' = [es EXCEPT ![question[p]] =
                       [answer |-> held[p], expires |-> now + Life(held[p]),
                        observed |-> now, reused |-> FALSE]]
    /\ Return(p, held[p])
    /\ UNCHANGED <<now, waiters, chan>>

\* put: the answer is stored over whatever is there, after making room if the
\* map is full, and is returned.
Put(p) ==
    LET k == question[p]
        new == [answer |-> held[p], expires |-> now + Life(held[p]),
                observed |-> now, reused |-> FALSE]
    IN
    /\ pc[p] = "put"
    /\ \E es \in IF Cardinality(Stored(entries)) >= MaxEntries
                 THEN Evicted(entries) ELSE {entries} :
         entries' = [es EXCEPT ![k] = new]
    /\ Return(p, held[p])
    /\ UNCHANGED <<now, waiters, chan>>

Step(p) ==
    \/ Hit(p) \/ Miss(p)
    \/ Lead(p) \/ Follow(p)
    \/ Wake(p) \/ GiveUp(p)
    \/ Answered(p) \/ Unanswered(p)
    \/ Release(p) \/ Close(p) \/ Put(p)

Next ==
    \/ Tick
    \/ \E p \in Procs : \/ \E k \in Keys : Call(p, k)
                        \/ Cancel(p)
                        \/ Step(p)

Spec == Init /\ [][Next]_vars

\* The scheduler runs every goroutine that can run, and the wrapped resolver
\* bounds each of its calls (publicres gives an exchange a timeout).
Fairness == \A p \in Procs : WF_vars(Step(p))

FairSpec == Spec /\ Fairness

-----------------------------------------------------------------------------
\* The types of the variables.  In particular a channel in the map is open: no
\* goroutine finds a lookup in flight that is over.
TypeOK ==
    /\ now \in 0..MaxTime
    /\ entries \in [Keys -> Entry \cup {None}]
    /\ waiters \in [Keys -> Procs \cup {None}]
    /\ pc \in [Procs -> Steps]
    /\ question \in [Procs -> Keys \cup {None}]
    /\ \A p \in Procs : question[p] = None <=> pc[p] = "idle"
    /\ cancelled \in [Procs -> BOOLEAN]
    /\ chan \in [Procs -> Procs \cup {None, Closed}]
    /\ held \in [Procs -> Answer \cup {None}]
    /\ ret \in [Procs -> Answer \cup {None}]
    /\ asked \in [Procs -> Nat]
    /\ calls \in [Procs -> Nat]

\* p is the goroutine asking the wrapped resolver about k, or has just done so
\* and not yet said that it is done.
Leading(p, k) == pc[p] \in {"query", "release"} /\ question[p] = k

\* Query collapses concurrent lookups: the wrapped resolver is never working
\* on the same question for two goroutines at once.
SingleFlight ==
    \A p, q \in Procs, k \in Keys : Leading(p, k) /\ Leading(q, k) => p = q

\* No wakeup is lost.  A goroutine that waits on an open channel waits for one
\* that is leading the lookup of that same question, or that is about to close
\* that channel.
NoLostWakeup ==
    \A p \in Procs :
        pc[p] = "wait" /\ chan[p] # Closed =>
            LET l == chan[p] IN
            /\ l \in Procs
            /\ \/ Leading(l, question[p]) /\ waiters[question[p]] = l
               \/ pc[l] = "close" /\ chan[l] = l

\* Every entry, however it came to be where it is, is an answer to that very
\* question, obtained before it was stored, that lives as long as put gave it.
EntriesSound ==
    \A k \in Stored(entries) :
        LET e == entries[k] IN
        /\ e.answer.key = k
        /\ e.answer.at <= e.observed /\ e.observed <= now
        /\ e.expires = e.observed + Life(e.answer)

\* "MaxEntries bounds the map."
Bounded == Cardinality(Stored(entries)) <= MaxEntries

\* A caller is given an error only when its own context is done or its own
\* lookup did not complete: the failure, or the cancellation, of the goroutine
\* it was waiting for is not passed on to it.
OwnErrorOnly ==
    [][\A p \in Procs :
          pc[p] # "idle" /\ pc'[p] = "idle" /\ ret'[p] = None =>
              cancelled[p] \/ (pc[p] = "close" /\ held[p] = None)]_vars

\* Every call of Query returns, provided that a goroutine calls it finitely
\* often (each failure is asked again, by one of those who waited for it).
EveryCallReturns == \A p \in Procs : pc[p] # "idle" ~> pc[p] = "idle"

\* Cache implements Memo: answers are served only while they live or when
\* obtained since the call, and a failure is never remembered.
M == INSTANCE Memo WITH Answers <- Answer, asks <- question, since <- asked,
                        got <- ret, known <- entries

MemoSpec == M!Spec

\* "Wait for it rather than adding a duplicate query to the wire": a goroutine
\* that has waited for others does not ask the wrapped resolver while one of
\* them holds the answer to its question.
NoDuplicateQuery ==
    \A p, q \in Procs :
        ~ /\ pc[p] = "query" /\ chan[p] = Closed
          /\ pc[q] \in {"close", "put"} /\ held[q] # None
          /\ question[p] = question[q]

=============================================================================
