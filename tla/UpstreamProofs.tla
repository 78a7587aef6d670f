---------------------------- MODULE UpstreamProofs --------------------------
(***************************************************************************)
(* Proofs about Upstream: the limiter and the resolver keep, together, the *)
(* promises each keeps alone, and what is sent in the slots is bounded.    *)
(***************************************************************************)
EXTENDS Upstream, RateLimitProofs

-----------------------------------------------------------------------------
(***************************************************************************)
(* The limiter.                                                            *)
(***************************************************************************)

\* Behind the composition, the limiter takes its own steps, or none.
THEOREM UpstreamImplementsRateLimit == SpecBoth => Spec
  <1>1. InitBoth => Init
    BY DEF InitBoth
  <1>2. [NextBoth]_allvars => [Next]_vars
    BY DEF NextBoth, allvars, vars, Let, Wait, Asking, AskIPv6, Back, Next
  <1>3. QED
    BY <1>1, <1>2, PTL DEF SpecBoth, Spec

\* Slots stay apart whatever the queries made in them do.
THEOREM UpstreamSlotsApart == SpecBoth => []SlotsApart
  BY UpstreamImplementsRateLimit, SlotsAreApart, PTL

\* The ceiling on calls holds of the calls that reach the resolver.
THEOREM UpstreamCeiling == SpecBoth => []RateCeiling
  BY UpstreamImplementsRateLimit, CeilingHolds, PTL

-----------------------------------------------------------------------------
(***************************************************************************)
(* The resolver.                                                           *)
(***************************************************************************)

\* What the resolver knows of the limiter: a goroutine the limiter holds back
\* has no query going or to come, and no result it has not taken.
Quiet ==
    /\ step \in [Procs -> {"idle", "loop", "udp", "tcp"}]
    /\ started \in [Procs -> Int]
    /\ result = [q \in Procs |-> result[q]]
    /\ fallback \in [Procs -> Questions \cup {None}]
    /\ \A p \in Procs :
          pc[p] # "inner" =>
              step[p] = "idle" /\ result[p] = None /\ fallback[p] = None

\* The resolver's steps leave it what it is.
LEMMA QuietRun ==
    ASSUME TypeOK, Quiet, NEW p \in Procs, Pub!Run(p)
    PROVE  /\ step' \in [Procs -> {"idle", "loop", "udp", "tcp"}]
           /\ started' \in [Procs -> Int]
           /\ result' = [q \in Procs |-> result'[q]]
           /\ \A q \in Procs \ {p} :
                 /\ step'[q] = step[q] /\ result'[q] = result[q]
                 /\ started'[q] = started[q]
           /\ step'[p] # "idle" =>
                 step[p] # "idle" /\ started'[p] = started[p]
  <1> USE DEF TypeOK, Quiet
  <1>0. step[p] # "idle"
    BY DEF Pub!Run, Pub!GiveUp, Pub!Attempt, Pub!Unanswered, Pub!Refused,
           Pub!Rejected, Pub!Truncated, Pub!Answered, Pub!Exchanging
  <1>1. CASE \E r : Pub!Return(p, r)
    BY <1>1 DEF Pub!Return
  <1>2. CASE Pub!Attempt(p)
    BY <1>2 DEF Pub!Attempt
  <1>3. CASE Pub!TryAgain(p)
    BY <1>0, <1>3 DEF Pub!TryAgain
  <1>4. CASE Pub!Truncated(p)
    BY <1>4 DEF Pub!Truncated
  <1> QED
    BY <1>1, <1>2, <1>3, <1>4
    DEF Pub!Run, Pub!GiveUp, Pub!Unanswered, Pub!Refused, Pub!Rejected,
        Pub!Answered

\* A query leaves it what it is, if it begins inside the limiter.
LEMMA QuietAsks ==
    ASSUME TypeOK, Quiet, NEW p \in Procs, NEW q, NEW f \in Questions \cup {None},
           Asks(p, q, f),
           \A r \in Procs : pc'[r] # "inner" => r # p /\ pc[r] # "inner"
    PROVE  Quiet'
  <1> USE DEF TypeOK, Quiet
  <1>1. /\ step' = [step EXCEPT ![p] = "loop"]
        /\ result' = [result EXCEPT ![p] = None]
        /\ started' = [started EXCEPT ![p] = now]
        /\ fallback' = [fallback EXCEPT ![p] = f]
    BY DEF Asks, Pub!Query
  <1>2. /\ step' \in [Procs -> {"idle", "loop", "udp", "tcp"}]
        /\ started' \in [Procs -> Int]
        /\ fallback' \in [Procs -> Questions \cup {None}]
    BY <1>1
  <1>3. result' = [r \in Procs |-> result'[r]]
    BY <1>1
  <1>4. ASSUME NEW r \in Procs, pc'[r] # "inner"
        PROVE  step'[r] = "idle" /\ result'[r] = None /\ fallback'[r] = None
    <2>1. r # p /\ pc[r] # "inner"
      BY <1>4
    <2> QED BY <1>1, <2>1
  <1> QED BY <1>2, <1>3, <1>4

\* Every step keeps it.
LEMMA QuietStep == TypeOK /\ Quiet /\ [NextBoth]_allvars => Quiet'
  <1> SUFFICES ASSUME TypeOK, Quiet, [NextBoth]_allvars
               PROVE  Quiet'
    OBVIOUS
  <1> USE DEF TypeOK, Quiet, Goto, Grant
  <1>1. CASE Tick /\ Pub!Tick /\ UNCHANGED fallback
    BY <1>1 DEF Tick, Pub!Tick
  <1>2. ASSUME NEW p \in Procs, Let(p)
        PROVE  Quiet'
    <2>1. pc' = [pc EXCEPT ![p] = "inner"]
      BY <1>2 DEF Let, ReserveNow, SlotArrives
    <2>2. CASE Pub!EmptyName(p) /\ UNCHANGED fallback
      BY <2>1, <2>2 DEF Pub!EmptyName
    <2>3. ASSUME NEW q \in Questions, NEW f \in Questions \cup {None},
                 Asks(p, q, f)
          PROVE  Quiet'
      <3>1. \A r \in Procs : pc'[r] # "inner" => r # p /\ pc[r] # "inner"
        BY <2>1
      <3> QED BY <2>3, <3>1, QuietAsks
    <2>4. \A q \in DOMAIN IPv6Of : IPv6Of[q] \in Questions
      BY HostAssumption
    <2> QED
      BY <1>2, <2>2, <2>3, <2>4 DEF Let
  <1>3. ASSUME NEW p \in Procs, Wait(p)
        PROVE  Quiet'
    BY <1>3 DEF Wait, pubvars, Call, Cancel, ReserveLater, BackOff, Retry,
                GiveUp
  <1>4. ASSUME NEW p \in Procs, Asking(p)
        PROVE  Quiet'
    BY <1>4, QuietRun DEF Asking
  <1>5. ASSUME NEW p \in Procs, Back(p)
        PROVE  Quiet'
    BY <1>5 DEF Back, InnerReturns
  <1>6. ASSUME NEW p \in Procs, AskIPv6(p)
        PROVE  Quiet'
    <2>1. pc' = pc /\ now' = now /\ pc[p] = "inner"
      BY <1>6 DEF AskIPv6, FallsBack, vars
    <2>2. Asks(p, fallback[p], None)
      BY <1>6 DEF AskIPv6
    <2>3. \A r \in Procs : pc'[r] # "inner" => r # p /\ pc[r] # "inner"
      BY <2>1
    <2> QED
      BY <2>2, <2>3, QuietAsks
  <1>7. CASE UNCHANGED allvars
    BY <1>7 DEF allvars, vars, pubvars
  <1> QED
    BY <1>1, <1>2, <1>3, <1>4, <1>5, <1>6, <1>7 DEF NextBoth

\* Each step of the two together is one of the resolver's, or none.
LEMMA ResolverStep ==
    TypeOK /\ Quiet /\ [NextBoth]_allvars => [Pub!Next]_(Pub!vars)
  <1> SUFFICES ASSUME TypeOK, Quiet, [NextBoth]_allvars
               PROVE  Pub!Next \/ UNCHANGED Pub!vars
    OBVIOUS
  <1> USE DEF TypeOK, Quiet
  <1>1. CASE Tick /\ Pub!Tick
    BY <1>1 DEF Pub!Next
  <1>2. ASSUME NEW p \in Procs, Let(p)
        PROVE  Pub!Next
    BY <1>2 DEF Let, Asks, Pub!Next
  <1>3. ASSUME NEW p \in Procs, Wait(p)
        PROVE  Pub!Next \/ UNCHANGED Pub!vars
    <2>1. CASE Call(p) \/ ReserveLater(p) \/ BackOff(p) \/ Retry(p)
      BY <1>3, <2>1 DEF Wait, Call, ReserveLater, BackOff, Retry, pubvars,
                        Pub!vars
    <2>2. CASE Cancel(p)
      <3>1. Pub!Cancel(p)
        BY <1>3, <2>2 DEF Wait, Cancel, pubvars, Pub!Cancel
      <3>2. QED
        BY <3>1 DEF Pub!Next
    <2>3. CASE GiveUp(p)
      <3>1. pc[p] # "inner"
        BY <2>3 DEF GiveUp
      <3>2. result = [result EXCEPT ![p] = None]
        BY <3>1
      <3>3. Pub!Take(p)
        BY <1>3, <2>3, <3>1, <3>2 DEF Wait, GiveUp, pubvars, Pub!Take
      <3>4. QED
        BY <3>3 DEF Pub!Next
    <2>4. QED
      BY <1>3, <2>1, <2>2, <2>3 DEF Wait
  <1>4. ASSUME NEW p \in Procs, Asking(p)
        PROVE  Pub!Next
    BY <1>4 DEF Asking, Pub!Next
  <1>5. ASSUME NEW p \in Procs, Back(p)
        PROVE  Pub!Next
    <2>1. Pub!Take(p)
      BY <1>5 DEF Back, InnerReturns, Pub!Take
    <2>2. QED
      BY <2>1 DEF Pub!Next
  <1>6. ASSUME NEW p \in Procs, AskIPv6(p)
        PROVE  Pub!Next
    <2>1. fallback[p] \in Questions
      BY <1>6 DEF AskIPv6, FallsBack
    <2>2. QED
      BY <1>6, <2>1 DEF AskIPv6, Asks, Pub!Next
  <1>7. CASE UNCHANGED allvars
    BY <1>7 DEF allvars, vars, pubvars, Pub!vars
  <1> QED
    BY <1>1, <1>2, <1>3, <1>4, <1>5, <1>6, <1>7 DEF NextBoth

\* The limiter interferes with none of what the resolver promises: behind it,
\* the resolver behaves as alone.
THEOREM ResolverUndisturbed == SpecBoth => Resolver
  <1>1. InitBoth => Quiet
    BY DEF InitBoth, Init, Pub!Init, Quiet
  <1>2. InitBoth => Pub!Init
    BY DEF InitBoth
  <1>3. SpecBoth => []TypeOK
    BY UpstreamImplementsRateLimit, TypeCorrect, PTL
  <1>4. QED
    BY <1>1, <1>2, <1>3, QuietStep, ResolverStep, PTL
    DEF SpecBoth, Resolver, Pub!Spec

-----------------------------------------------------------------------------
(***************************************************************************)
(* What PublicResProofs proves of the resolver alone, for the instance of  *)
(* it that is behind the limiter.  Pub and Proved are two instances of one *)
(* module, so that their definitions have to be told to be the same.       *)
(***************************************************************************)
Proved == INSTANCE PublicResProofs WITH next <- rotation, pc <- step

\* What is assumed of the resolver alone is assumed here.
LEMMA SameAssumption == Proved!PublicResAssumption
  BY PublicResAssumption
  DEF PublicResAssumption, Proved!PublicResAssumption, Error, NoName,
      Proved!Error, Proved!NoName

\* The constants are the same.
LEMMA SameConstants ==
    /\ Pub!NServers = Proved!NServers
    /\ Pub!Timeout = Proved!Timeout
    /\ Pub!Attempts = Proved!Attempts
  BY DEF Pub!NServers, Proved!NServers, Pub!Timeout, Proved!Timeout,
         Pub!Attempts, Proved!Attempts, Pub!WithDefaults, Proved!WithDefaults

\* The servers, and whose turn it is, are the same.
LEMMA SameServers ==
    /\ Pub!Servers = Proved!Servers
    /\ \A t : Pub!Server(t) = Proved!Server(t)
  BY SameConstants DEF Pub!Servers, Proved!Servers, Pub!Server, Proved!Server

\* The steps are the same.
LEMMA SameNext == [Pub!Next]_(Pub!vars) => [Proved!Next]_(Proved!vars)
  <1> USE SameConstants, SameServers
      DEF Pub!Exchanging, Proved!Exchanging, Pub!Return, Proved!Return,
          Pub!TryAgain, Proved!TryAgain, Pub!Error, Proved!Error, Pub!NoName,
          Proved!NoName
  <1>1. Pub!Tick => Proved!Tick
    BY DEF Pub!Tick, Proved!Tick
  <1>2. ASSUME NEW p \in Procs
        PROVE  /\ Pub!Cancel(p) => Proved!Cancel(p)
               /\ Pub!Take(p) => Proved!Take(p)
               /\ Pub!EmptyName(p) => Proved!EmptyName(p)
               /\ \A q \in Questions : Pub!Query(p, q) => Proved!Query(p, q)
    BY DEF Pub!Cancel, Proved!Cancel, Pub!Take, Proved!Take, Pub!EmptyName,
           Proved!EmptyName, Pub!Query, Proved!Query
  <1>3. ASSUME NEW p \in Procs
        PROVE  Pub!Attempt(p) => Proved!Attempt(p)
    BY DEF Pub!Attempt, Proved!Attempt
  <1>4. ASSUME NEW p \in Procs
        PROVE  /\ Pub!GiveUp(p) => Proved!GiveUp(p)
               /\ Pub!Unanswered(p) => Proved!Unanswered(p)
               /\ Pub!Refused(p) => Proved!Refused(p)
               /\ Pub!Rejected(p) => Proved!Rejected(p)
               /\ Pub!Truncated(p) => Proved!Truncated(p)
               /\ Pub!Answered(p) => Proved!Answered(p)
    BY DEF Pub!GiveUp, Proved!GiveUp, Pub!Unanswered, Proved!Unanswered,
           Pub!Refused, Proved!Refused, Pub!Rejected, Proved!Rejected,
           Pub!Truncated, Proved!Truncated, Pub!Answered, Proved!Answered
  <1>5. Pub!Next => Proved!Next
    BY <1>1, <1>2, <1>3, <1>4 DEF Pub!Next, Proved!Next, Pub!Run, Proved!Run
  <1> QED
    BY <1>5 DEF Pub!vars, Proved!vars

\* The behaviours are the same.
LEMMA SameResolver == SpecBoth => Proved!Spec
  <1>1. Pub!Init => Proved!Init
    BY SameServers DEF Pub!Init, Proved!Init
  <1> QED
    BY <1>1, SameNext, ResolverUndisturbed, PTL
    DEF Resolver, Pub!Spec, Proved!Spec

\* Behind the limiter too, no server is asked more than once more often than
\* another, and no two attempts take the same turn.
THEOREM UpstreamBalanced == SpecBoth => []Balanced
  <1>1. Proved!Spec => []Proved!Balanced
    BY SameAssumption, Proved!RotationBalanced, PTL
  <1>2. Proved!Balanced => Balanced
    BY SameServers DEF Balanced, Pub!Balanced, Proved!Balanced,
                       Pub!Exchanging, Proved!Exchanging
  <1> QED
    BY <1>1, <1>2, SameResolver, PTL

\* A query is over within its attempts' timeouts, counted from when it was let
\* through.
THEOREM UpstreamTimeBounded == SpecBoth => []TimeBounded
  <1>1. Proved!Spec => []Proved!TimeBounded
    BY SameAssumption, Proved!QueryTimeBounded, PTL
  <1>2. Proved!TimeBounded => TimeBounded
    BY SameConstants DEF TimeBounded, Pub!TimeBounded, Proved!TimeBounded
  <1> QED
    BY <1>1, <1>2, SameResolver, PTL

\* A retry moves on, or others have taken all the other turns.
THEOREM UpstreamRetriesMove == SpecBoth => RetryMoves
  <1>1. Proved!Spec => Proved!RetryMoves
    BY SameAssumption, Proved!RetriesMove, PTL
  <1>2. [\A p \in Procs :
            /\ Proved!Attempt(p) /\ attempt[p] > 0
            /\ Proved!Server(ticket'[p]) = Proved!Server(ticket[p])
            => rotation - ticket[p] >= Proved!NServers]_(Proved!vars)
        => [\A p \in Procs :
               /\ Pub!Attempt(p) /\ attempt[p] > 0
               /\ Pub!Server(ticket'[p]) = Pub!Server(ticket[p])
               => rotation - ticket[p] >= Pub!NServers]_(Pub!vars)
    BY SameConstants, SameServers
    DEF Pub!vars, Proved!vars, Pub!Attempt, Proved!Attempt
  <1>3. Proved!RetryMoves => RetryMoves
    BY <1>2, PTL DEF RetryMoves, Pub!RetryMoves, Proved!RetryMoves
  <1> QED
    BY <1>1, <1>3, SameResolver, PTL

\* What a query reports is what the zone holds, or an error.
THEOREM UpstreamKeepsPromise == SpecBoth => KeepsPromise
  <1>1. Proved!Spec => Proved!KeepsPromise
    BY SameAssumption, Proved!PublicResKeepsPromise, PTL
  <1>2. Proved!Promise!Init => Pub!Promise!Init
    BY DEF Proved!Promise!Init, Pub!Promise!Init
  <1>3. [Proved!Promise!Next]_<<question, result>>
           => [Pub!Promise!Next]_<<question, result>>
    BY DEF Proved!Promise!Next, Pub!Promise!Next,
           Proved!Promise!Ask, Pub!Promise!Ask,
           Proved!Promise!Answer, Pub!Promise!Answer,
           Proved!Promise!Fail, Pub!Promise!Fail,
           Proved!Promise!Decline, Pub!Promise!Decline,
           Proved!Promise!Take, Pub!Promise!Take,
           Proved!Promise!Finish, Pub!Promise!Finish,
           Proved!Promise!Error, Pub!Promise!Error,
           Proved!Promise!NoName, Pub!Promise!NoName
  <1> QED
    BY <1>1, <1>2, <1>3, SameResolver, PTL
    DEF KeepsPromise, Pub!KeepsPromise, Proved!KeepsPromise,
        Pub!Promise!Spec, Proved!Promise!Spec

-----------------------------------------------------------------------------
(***************************************************************************)
(* The ceiling on attempts.  A call that is let through may yet make as    *)
(* many attempts as its queries have left: they are paid for by its slot.  *)
(***************************************************************************)

\* The attempts a goroutine has begun in the query it makes.
Used(p) == IF step[p] \in {"udp", "tcp"} THEN attempt[p] + 1 ELSE attempt[p]

\* Those it may still make: what is left to this query, and those of a query
\* for AAAA records that may follow.
Left(p) == (IF step[p] = "idle" THEN 0 ELSE Attempts - Used(p))
              + (IF fallback[p] = None THEN 0 ELSE Attempts)

\* The same, each by its number.
Due == {d \in Procs \X (1 .. 2 * Attempts) : d[2] <= Left(d[1])}

\* The attempts made and those that are due are paid for by the slots used.
Paid ==
    /\ IsFiniteSet(sent) /\ IsFiniteSet(Due)
    /\ rotation + Cardinality(Due) <= 2 * Attempts * Cardinality(sent)

\* What is known of a goroutine's attempts, under this module's names.
LEMMA AttemptsTyped ==
    ASSUME Proved!Typed
    PROVE  /\ Attempts \in Nat
           /\ Attempts = Pub!Attempts
           /\ rotation \in Nat
           /\ step \in [Procs -> {"idle", "loop", "udp", "tcp"}]
           /\ attempt \in [Procs -> 0 .. Attempts]
           /\ \A p \in Procs : step[p] \in {"udp", "tcp"} => attempt[p] < Attempts
  <1>1. Attempts = Pub!Attempts /\ Attempts = Proved!Attempts
    BY SameConstants
    DEF Attempts, WithDefaults, Pub!Attempts, Pub!WithDefaults
  <1>2. Attempts \in Nat
    BY PublicResAssumption, SMT DEF PublicResAssumption, Attempts, WithDefaults
  <1> QED
    BY <1>1, <1>2
    DEF Proved!Typed, Proved!TypeOK, Proved!Counted, Proved!Exchanging

\* A slot that is used for a query was not used for another before.
LEMMA FreshSlot ==
    ASSUME IInv, NEW p \in Procs, ReserveNow(p) \/ SlotArrives(p)
    PROVE  \E at \in Nat : /\ sent' = sent \cup {[by |-> p, slot |-> at]}
                           /\ [by |-> p, slot |-> at] \notin sent
  <1> USE DEF IInv, TypeOK, Grant
  <1>1. CASE ReserveNow(p)
    <2>1. Free \in Nat /\ Free >= next
      BY DEF Free
    <2>2. [by |-> p, slot |-> Free] \notin sent
      <3> SUFFICES ASSUME [by |-> p, slot |-> Free] \in sent
                   PROVE  FALSE
        OBVIOUS
      <3>1. Free + Interval <= next
        BY DEF Reserved
      <3> QED
        BY <2>1, <3>1, LimitAssumption
    <2> QED
      BY <1>1, <2>1, <2>2 DEF ReserveNow
  <1>2. CASE SlotArrives(p)
    <2>1. slot[p] \in Nat /\ pc[p] = "sleep"
      BY <1>2 DEF SlotArrives
    <2>2. [by |-> p, slot |-> slot[p]] \notin sent
      <3> SUFFICES ASSUME [by |-> p, slot |-> slot[p]] \in sent
                   PROVE  FALSE
        OBVIOUS
      <3>1. Apart(slot[p], slot[p])
        BY <2>1 DEF SlotsApart
      <3> QED
        BY <2>1, <3>1, LimitAssumption DEF Apart
    <2> QED
      BY <1>2, <2>1, <2>2 DEF SlotArrives
  <1> QED
    BY <1>1, <1>2

\* Nobody has more attempts left than two queries make.
LEMMA LeftBounded ==
    ASSUME Proved!Typed, NEW p \in Procs
    PROVE  Left(p) \in 0 .. 2 * Attempts
  <1> USE AttemptsTyped
  <1>1. CASE step[p] \in {"udp", "tcp"}
    <2>1. attempt[p] \in 0 .. Attempts /\ attempt[p] < Attempts
      BY <1>1
    <2> QED BY <1>1, <2>1 DEF Left, Used
  <1>2. CASE step[p] \notin {"udp", "tcp"}
    <2>1. attempt[p] \in 0 .. Attempts
      OBVIOUS
    <2> QED BY <1>2, <2>1 DEF Left, Used
  <1> QED BY <1>1, <1>2

\* Where nobody has more attempts left than before, none are added to those due.
LEMMA NoMoreDue ==
    ASSUME Proved!Typed, Paid, sent' = sent, rotation' = rotation,
           \A q \in Procs : Left(q)' <= Left(q),
           \A q \in Procs : Left(q)' \in Int
    PROVE  Paid'
  <1> USE AttemptsTyped
  <1>1. Due' \subseteq Due
    <2> SUFFICES ASSUME NEW d \in Due'
                 PROVE  d \in Due
      OBVIOUS
    <2>1. d \in Procs \X (1 .. 2 * Attempts) /\ d[2] <= Left(d[1])'
      BY DEF Due, Attempts, WithDefaults
    <2>2. d[1] \in Procs /\ d[2] \in Int /\ Left(d[1]) \in Int
      BY <2>1, LeftBounded
    <2>3. d[2] <= Left(d[1])
      BY <2>1, <2>2
    <2> QED BY <2>1, <2>3 DEF Due
  <1>2. IsFiniteSet(Due') /\ Cardinality(Due') <= Cardinality(Due)
    BY <1>1, FS_Subset DEF Paid
  <1>3. /\ Cardinality(Due) \in Nat /\ Cardinality(Due') \in Nat
        /\ Cardinality(sent) \in Nat
    BY <1>2, FS_CardinalityType DEF Paid
  <1> QED
    BY <1>2, <1>3 DEF Paid, Attempts, WithDefaults

\* A slot pays for every attempt of the call it lets through.
LEMMA PaidLet ==
    ASSUME IInv, Proved!Typed, Quiet, Paid, NEW p \in Procs, Let(p)
    PROVE  Paid'
  <1> DEFINE most == 2 * Attempts
  <1>0. most \in Nat
    BY AttemptsTyped
  <1>1. PICK at \in Nat : /\ sent' = sent \cup {[by |-> p, slot |-> at]}
                          /\ [by |-> p, slot |-> at] \notin sent
    BY FreshSlot DEF Let
  <1>2. IsFiniteSet(sent') /\ Cardinality(sent') = Cardinality(sent) + 1
    BY <1>1, FS_AddElement DEF Paid
  <1> DEFINE own == {d \in {p} \X (1 .. most) : TRUE}
  <1>3. IsFiniteSet(own) /\ Cardinality(own) = most
    <2> HIDE DEF most
    <2> DEFINE f == [k \in 1 .. most |-> <<p, k>>]
    <2>1. f \in Bijection(1 .. most, own)
      <3>1. f \in [1 .. most -> own]
        OBVIOUS
      <3>2. \A k, m \in 1 .. most : k # m => f[k] # f[m]
        OBVIOUS
      <3>3. \A d \in own : \E k \in 1 .. most : f[k] = d
        OBVIOUS
      <3> HIDE DEF f, own
      <3> QED BY <3>1, <3>2, <3>3
              DEF Bijection, Injection, IsInjective, Surjection
    <2>2. IsFiniteSet(1 .. most) /\ Cardinality(1 .. most) = most
      BY <1>0, FS_Interval
    <2> HIDE DEF f, own
    <2> QED BY <2>1, <2>2, FS_Bijection DEF ExistsBijection
  <1>4. Due' \subseteq Due \cup own
    <2>1. ASSUME NEW q \in Procs \ {p}
          PROVE  Left(q)' = Left(q)
      <3>1. step'[q] = step[q] /\ fallback'[q] = fallback[q] /\ attempt' = attempt
        BY AttemptsTyped DEF Let, Asks, Pub!EmptyName, Pub!Query, Quiet
      <3> QED BY <3>1 DEF Left, Used, Attempts, WithDefaults
    <2> SUFFICES ASSUME NEW d \in Due', d[1] # p
                 PROVE  d \in Due
      BY DEF Due, Attempts, WithDefaults
    <2>2. d \in Procs \X (1 .. 2 * Attempts) /\ d[2] <= Left(d[1])'
      BY DEF Due, Attempts, WithDefaults
    <2> QED BY <2>1, <2>2 DEF Due
  <1> HIDE DEF own
  <1>5. /\ IsFiniteSet(Due \cup own)
        /\ Cardinality(Due \cup own) <= Cardinality(Due) + most
    <2>1. IsFiniteSet(Due) /\ Cardinality(Due) \in Nat
      BY FS_CardinalityType DEF Paid
    <2>2. IsFiniteSet(Due \cap own) /\ Cardinality(Due \cap own) \in Nat
      BY <2>1, FS_Intersection, FS_CardinalityType
    <2>3. /\ IsFiniteSet(Due \cup own)
          /\ Cardinality(Due \cup own)
               = Cardinality(Due) + Cardinality(own) - Cardinality(Due \cap own)
      BY <1>3, <2>1, FS_Union
    <2> HIDE DEF most
    <2> QED
      BY <1>0, <1>3, <2>1, <2>2, <2>3
  <1>6. IsFiniteSet(Due') /\ Cardinality(Due') <= Cardinality(Due) + most
    <2>1. IsFiniteSet(Due') /\ Cardinality(Due') <= Cardinality(Due \cup own)
      BY <1>4, <1>5, FS_Subset
    <2>2. /\ Cardinality(Due') \in Nat /\ Cardinality(Due \cup own) \in Nat
          /\ Cardinality(Due) \in Nat
      BY <1>5, <2>1, FS_CardinalityType DEF Paid
    <2> HIDE DEF most
    <2> QED BY <1>0, <1>5, <2>1, <2>2
  <1>7. rotation' = rotation
    BY DEF Let, Asks, Pub!EmptyName, Pub!Query
  <1>8. /\ Cardinality(sent) \in Nat
        /\ Cardinality(Due) \in Nat /\ Cardinality(Due') \in Nat
    BY <1>6, FS_CardinalityType DEF Paid
  <1>9. /\ most * (Cardinality(sent) + 1) = most * Cardinality(sent) + most
        /\ most * Cardinality(sent) \in Nat
    <2> HIDE DEF most
    <2> QED BY <1>0, <1>8
  <1>10. rotation + Cardinality(Due) <= most * Cardinality(sent)
    BY DEF Paid
  <1>11. rotation' + Cardinality(Due') <= most * Cardinality(sent')
    <2>1. rotation \in Nat
      BY AttemptsTyped
    <2> HIDE DEF most
    <2> QED BY <1>0, <1>2, <1>6, <1>7, <1>8, <1>9, <1>10, <2>1
  <1> QED
    BY <1>2, <1>6, <1>11 DEF Paid, Attempts, WithDefaults

\* The query for AAAA records was due since the one for A records began.
LEMMA PaidIPv6 ==
    ASSUME Proved!Typed, Quiet, Paid, NEW p \in Procs, AskIPv6(p)
    PROVE  Paid'
  <1> USE AttemptsTyped
  <1>1. /\ step[p] = "idle" /\ step' = [step EXCEPT ![p] = "loop"]
        /\ fallback[p] # None /\ fallback' = [fallback EXCEPT ![p] = None]
        /\ attempt' = attempt /\ rotation' = rotation
    BY DEF AskIPv6, FallsBack, Asks, Pub!Query
  <1>2. ASSUME NEW q \in Procs \ {p}
        PROVE  Left(q)' = Left(q)
    <2>1. step'[q] = step[q] /\ fallback'[q] = fallback[q]
      BY <1>1 DEF Quiet
    <2> QED BY <1>1, <2>1 DEF Left, Used, Attempts, WithDefaults
  <1>3. Left(p)' = Attempts - attempt[p] /\ Left(p) = Attempts
    <2>1. step'[p] = "loop" /\ fallback'[p] = None
      BY <1>1 DEF Quiet
    <2>2. Left(p)' = (Attempts - attempt[p]) + 0
      BY <1>1, <2>1 DEF Left, Used, Attempts, WithDefaults
    <2>3. Left(p) = 0 + Attempts
      BY <1>1 DEF Left
    <2> QED BY <2>2, <2>3
  <1>4. \A q \in Procs : Left(q)' <= Left(q) /\ Left(q)' \in Int
    <2>1. ASSUME NEW q \in Procs
          PROVE  Left(q)' <= Left(q) /\ Left(q)' \in Int
      <3>1. Left(q) \in Int /\ attempt[p] \in 0 .. Attempts
        BY LeftBounded
      <3>2. CASE q = p
        BY <1>3, <3>1, <3>2
      <3>3. CASE q # p
        BY <1>2, <3>1, <3>3
      <3> QED BY <3>2, <3>3
    <2> QED BY <2>1
  <1> QED
    BY <1>1, <1>4, NoMoreDue DEF AskIPv6, vars

\* A turn at the rotation is one that was due; nothing else adds to them.
LEMMA PaidAsking ==
    ASSUME Proved!Typed, Quiet, Paid, NEW p \in Procs, Asking(p)
    PROVE  Paid'
  <1> USE AttemptsTyped
  <1>1. sent' = sent /\ fallback' = fallback
    BY DEF Asking
  <1>2. CASE Pub!Attempt(p)
    <2> DEFINE d == <<p, Left(p)>>
    <2>0. /\ step' = [step EXCEPT ![p] = "udp"] /\ attempt' = attempt
          /\ step[p] = "loop" /\ attempt[p] < Attempts
      BY <1>2 DEF Pub!Attempt
    <2>1. /\ Left(p) \in 1 .. 2 * Attempts /\ Left(p)' = Left(p) - 1
          /\ \A q \in Procs \ {p} : Left(q)' = Left(q)
      <3>1. step'[p] = "udp" /\ \A q \in Procs \ {p} : step'[q] = step[q]
        BY <2>0
      <3>2. \A q \in Procs \ {p} : Left(q)' = Left(q)
        BY <1>1, <2>0, <3>1 DEF Left, Used, Attempts, WithDefaults
      <3>3. attempt[p] \in 0 .. Attempts
        OBVIOUS
      <3>4. CASE fallback[p] = None
        <4>1. Left(p) = Attempts - attempt[p] + 0
          BY <2>0, <3>4 DEF Left, Used
        <4>2. Left(p)' = Attempts - (attempt[p] + 1) + 0
          BY <1>1, <2>0, <3>1, <3>4 DEF Left, Used, Attempts, WithDefaults
        <4> QED BY <2>0, <3>2, <3>3, <4>1, <4>2
      <3>5. CASE fallback[p] # None
        <4>1. Left(p) = Attempts - attempt[p] + Attempts
          BY <2>0, <3>5 DEF Left, Used
        <4>2. Left(p)' = Attempts - (attempt[p] + 1) + Attempts
          BY <1>1, <2>0, <3>1, <3>5 DEF Left, Used, Attempts, WithDefaults
        <4> QED BY <2>0, <3>2, <3>3, <4>1, <4>2
      <3> QED BY <3>4, <3>5
    <2>2. d \in Due
      BY <2>1 DEF Due
    <2>3. Due' = Due \ {d}
      <3>1. ASSUME NEW e \in Procs \X (1 .. 2 * Attempts)
            PROVE  e \in Due' <=> e \in Due \ {d}
        <4>0. /\ e \in Due <=> e[2] <= Left(e[1])
              /\ e \in Due' <=> e[2] <= Left(e[1])'
              /\ e[1] \in Procs /\ e[2] \in Int
          BY DEF Due, Attempts, WithDefaults
        <4>1. CASE e[1] = p
          <5>1. e = d <=> e[2] = Left(p)
            BY <4>1
          <5> HIDE DEF d
          <5> QED BY <2>1, <4>0, <4>1, <5>1
        <4>2. CASE e[1] # p
          <5>1. e # d /\ Left(e[1])' = Left(e[1])
            BY <2>1, <4>0, <4>2
          <5> HIDE DEF d
          <5> QED BY <4>0, <5>1
        <4> QED BY <4>1, <4>2
      <3>2. Due \subseteq Procs \X (1 .. 2 * Attempts)
        BY DEF Due
      <3>3. Due' \subseteq Procs \X (1 .. 2 * Attempts)
        BY DEF Due, Attempts, WithDefaults
      <3> HIDE DEF d
      <3> QED
        BY <3>1, <3>2, <3>3
    <2>4. rotation' = rotation + 1
      BY <1>2 DEF Pub!Attempt
    <2>5. IsFiniteSet(Due') /\ Cardinality(Due') = Cardinality(Due) - 1
      <3> HIDE DEF d
      <3> QED BY <2>2, <2>3, FS_RemoveElement DEF Paid
    <2>6. Cardinality(Due) \in Nat /\ Cardinality(sent) \in Nat
      BY FS_CardinalityType DEF Paid
    <2> QED
      BY <1>1, <2>4, <2>5, <2>6 DEF Paid, Attempts, WithDefaults
  <1>3. CASE ~Pub!Attempt(p)
    <2>1. rotation' = rotation
      BY <1>3 DEF Asking, Pub!Run, Pub!GiveUp, Pub!Unanswered, Pub!Refused,
                  Pub!Rejected, Pub!Truncated, Pub!Answered, Pub!Return,
                  Pub!TryAgain
    <2>2. \A q \in Procs :
              \/ step'[q] = "idle"
              \/ /\ step[q] # "idle" /\ step'[q] # "idle"
                 /\ Used(q)' = Used(q)
      <3>1. CASE \E r : Pub!Return(p, r)
        BY <3>1 DEF Pub!Return, Used
      <3>2. CASE step[p] \in {"udp", "tcp"} /\ Pub!TryAgain(p)
        BY <3>2 DEF Pub!TryAgain, Used
      <3>3. CASE Pub!Truncated(p)
        BY <3>3 DEF Pub!Truncated, Used
      <3> QED
        BY <1>3, <3>1, <3>2, <3>3
        DEF Asking, Pub!Run, Pub!GiveUp, Pub!Unanswered, Pub!Refused,
            Pub!Rejected, Pub!Answered, Pub!Exchanging
    <2>3. \A q \in Procs : Left(q)' <= Left(q) /\ Left(q)' \in Int
      <3>1. ASSUME NEW q \in Procs
            PROVE  Left(q)' <= Left(q) /\ Left(q)' \in Int
        <4>1. Left(q) \in Int
          BY LeftBounded
        <4>2. Used(q) \in Int /\ Used(q) <= Attempts
          BY DEF Used
        <4>3. CASE step'[q] = "idle"
          <5>1. Left(q)' = 0 + (IF fallback[q] = None THEN 0 ELSE Attempts)
            BY <1>1, <4>3 DEF Left, Attempts, WithDefaults
          <5>2. Left(q) >= (IF fallback[q] = None THEN 0 ELSE Attempts)
            BY <4>2 DEF Left
          <5> QED BY <4>1, <5>1, <5>2
        <4>4. CASE step[q] # "idle" /\ step'[q] # "idle" /\ Used(q)' = Used(q)
          <5>1. Left(q)' = Left(q)
            BY <1>1, <4>4 DEF Left, Attempts, WithDefaults
          <5> QED BY <4>1, <5>1
        <4> QED BY <2>2, <4>3, <4>4
      <3> QED BY <3>1
    <2> QED
      BY <1>1, <2>1, <2>3, NoMoreDue
  <1> QED
    BY <1>2, <1>3

\* The goroutine that returns has nothing to come.
LEMMA PaidBack ==
    ASSUME Proved!Typed, Quiet, Paid, NEW p \in Procs, Back(p)
    PROVE  Paid'
  <1> USE AttemptsTyped
  <1>1. /\ sent' = sent /\ rotation' = rotation /\ step' = step
        /\ attempt' = attempt /\ fallback' = [fallback EXCEPT ![p] = None]
    BY DEF Back, InnerReturns
  <1>2. ASSUME NEW q \in Procs
        PROVE  Left(q)' <= Left(q) /\ Left(q)' \in Int
    <2>1. Left(q) \in Int
      BY LeftBounded
    <2>2. CASE fallback'[q] = fallback[q]
      <3>1. Left(q)' = Left(q)
        BY <1>1, <2>2 DEF Left, Used, Attempts, WithDefaults
      <3> QED BY <2>1, <3>1
    <2>3. CASE fallback'[q] = None
      <3> DEFINE mine == IF step[q] = "idle" THEN 0 ELSE Attempts - Used(q)
      <3>1. Left(q)' = mine + 0
        BY <1>1, <2>3 DEF Left, Used, Attempts, WithDefaults
      <3>2. mine \in Int
        BY DEF Used
      <3>3. Left(q) = mine + (IF fallback[q] = None THEN 0 ELSE Attempts)
        BY DEF Left
      <3> HIDE DEF mine
      <3> QED BY <3>1, <3>2, <3>3
    <2> QED BY <1>1, <2>2, <2>3 DEF Quiet
  <1> QED
    BY <1>1, <1>2, NoMoreDue

LEMMA PaidStep ==
    IInv /\ Proved!Typed /\ Quiet /\ Paid /\ [NextBoth]_allvars => Paid'
  <1> SUFFICES ASSUME IInv, Proved!Typed, Quiet, Paid, [NextBoth]_allvars
               PROVE  Paid'
    OBVIOUS
  <1>a. ASSUME UNCHANGED <<rotation, step, attempt, sent, fallback>>
        PROVE  Paid'
    BY <1>a DEF Paid, Due, Left, Used, Attempts, WithDefaults
  <1>1. CASE Tick /\ Pub!Tick /\ UNCHANGED fallback
    BY <1>1, <1>a DEF Tick, Pub!Tick
  <1>2. ASSUME NEW p \in Procs, Let(p)
        PROVE  Paid'
    BY <1>2, PaidLet
  <1>3. ASSUME NEW p \in Procs, Wait(p)
        PROVE  Paid'
    BY <1>3, <1>a DEF Wait, pubvars, Call, Cancel, ReserveLater, BackOff,
                      Retry, GiveUp
  <1>4. ASSUME NEW p \in Procs, Asking(p)
        PROVE  Paid'
    BY <1>4, PaidAsking
  <1>5. ASSUME NEW p \in Procs, AskIPv6(p)
        PROVE  Paid'
    BY <1>5, PaidIPv6
  <1>6. ASSUME NEW p \in Procs, Back(p)
        PROVE  Paid'
    BY <1>6, PaidBack
  <1>7. CASE UNCHANGED allvars
    BY <1>7, <1>a DEF allvars, vars, pubvars
  <1> QED
    BY <1>1, <1>2, <1>3, <1>4, <1>5, <1>6, <1>7 DEF NextBoth

\* The attempts made upstream, retries included, keep to the limiter's rate
\* times the attempts of the two queries a call may make, whatever the
\* interleaving of the callers.
THEOREM AttemptCeilingHolds == SpecBoth => []AttemptCeiling
  <1>1. InitBoth => Paid /\ Quiet
    <2> SUFFICES ASSUME InitBoth PROVE Paid /\ Quiet
      OBVIOUS
    <2>1. sent = {} /\ rotation = 0
      BY DEF InitBoth, Init, Pub!Init
    <2>2. Attempts \in Nat
      BY PublicResAssumption, SMT
      DEF PublicResAssumption, Attempts, WithDefaults
    <2>3. Due = {}
      <3>1. \A p \in Procs : Left(p) = 0
        BY DEF InitBoth, Pub!Init, Left
      <3> QED BY <2>2, <3>1 DEF Due
    <2>4. Quiet
      BY DEF InitBoth, Init, Pub!Init, Quiet
    <2> QED
      BY <2>1, <2>2, <2>3, <2>4, FS_EmptySet DEF Paid
  <1>2. SpecBoth => []IInv
    BY UpstreamImplementsRateLimit, Invariance, PTL
  <1>3. Proved!IInv => Proved!Typed
    BY DEF Proved!IInv
  <1>4. SpecBoth => []Proved!Typed
    BY SameAssumption, SameResolver, Proved!Inductive, <1>3, PTL
  <1>5. IInv => TypeOK
    BY DEF IInv
  <1>6. ASSUME IInv, Proved!Typed, Paid, RateCeiling
        PROVE  AttemptCeiling
    <2> DEFINE n == now \div Interval + 1
               c == Cardinality(sent)
               most == 2 * Attempts
    <2>0. most \in Nat /\ rotation \in Nat
      BY <1>6, AttemptsTyped
    <2>1. n \in Nat /\ c \in Nat /\ c <= n /\ Cardinality(Due) \in Nat
      <3>1. now \div Interval \in Nat
        BY <1>6, LimitAssumption DEF IInv, TypeOK
      <3>2. c \in Nat /\ Cardinality(Due) \in Nat
        BY <1>6, FS_CardinalityType DEF Paid
      <3>3. c <= n
        BY <1>6 DEF RateCeiling
      <3> QED BY <3>1, <3>2, <3>3
    <2>2. rotation + Cardinality(Due) <= most * c
      BY <1>6 DEF Paid
    <2>3. rotation <= most * n
      <3> HIDE DEF n, c, most
      <3>1. PICK m \in Nat : n = c + m
        BY <2>1, n = c + (n - c)
      <3>2. most * n = most * c + most * m /\ most * m >= 0
        BY <2>0, <2>1, <3>1
      <3>3. most * c \in Nat /\ most * m \in Nat
        BY <2>0, <2>1, <3>1
      <3> QED BY <2>0, <2>1, <2>2, <3>2, <3>3
    <2> QED
      BY <2>3 DEF AttemptCeiling
  <1> QED
    BY <1>1, <1>2, <1>4, <1>5, <1>6, QuietStep, PaidStep, UpstreamCeiling, PTL
    DEF SpecBoth

=============================================================================
