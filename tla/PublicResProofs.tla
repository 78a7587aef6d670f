--------------------------- MODULE PublicResProofs --------------------------
(***************************************************************************)
(* Proofs about PublicRes, for any goroutines, configuration and zone: the *)
(* types, the balance of the rotation, the time a query takes, and that it *)
(* keeps the promise of Resolve.                                           *)
(***************************************************************************)
EXTENDS PublicRes, TLAPS

-----------------------------------------------------------------------------
(***************************************************************************)
(* Arithmetic of the rotation.                                             *)
(***************************************************************************)

\* Whatever New is given, there is a server, a timeout and an attempt.
LEMMA Defaults ==
    /\ NServers \in Nat \ {0}
    /\ Timeout \in Nat \ {0}
    /\ Attempts \in Nat \ {0}
BY PublicResAssumption, SMT
   DEF PublicResAssumption, NServers, Timeout, Attempts, WithDefaults

\* Division leaves one remainder.
LEMMA UniqueQuotient ==
    ASSUME NEW n \in Nat \ {0},
           NEW a \in Nat, NEW b \in Nat, NEW d \in Nat, NEW e \in Nat,
           a * n + d = b * n + e, d < n, e < n
    PROVE  a = b /\ d = e
<1>1. ~(a < b)
  <2>1. SUFFICES ASSUME a < b PROVE FALSE
    OBVIOUS
  <2>2. PICK c \in Nat : b = a + 1 + c
    BY <2>1, b = a + 1 + (b - a - 1)
  <2>3. b * n = a * n + n + c * n /\ c * n >= 0
    BY <2>2, SMT
  <2>4. QED
    BY <2>3
<1>2. ~(b < a)
  <2>1. SUFFICES ASSUME b < a PROVE FALSE
    OBVIOUS
  <2>2. PICK c \in Nat : a = b + 1 + c
    BY <2>1, a = b + 1 + (a - b - 1)
  <2>3. a * n = b * n + n + c * n /\ c * n >= 0
    BY <2>2, SMT
  <2>4. QED
    BY <2>3
<1>3. a = b
  BY <1>1, <1>2
<1>4. QED
  BY <1>3

\* Fewer attempts take less time.
LEMMA Monotone ==
    ASSUME NEW n \in Nat, NEW a \in Nat, NEW b \in Nat, a <= b
    PROVE  a * n \in Nat /\ b * n \in Nat /\ a * n <= b * n
<1>1. PICK c \in Nat : b = a + c
  BY b = a + (b - a)
<1>2. b * n = a * n + c * n /\ a * n \in Nat /\ c * n \in Nat
  BY <1>1, SMT
<1>3. QED
  BY <1>2

\* A turn belongs to a server.
LEMMA ServerType ==
    ASSUME NEW t \in Nat
    PROVE  Server(t) \in Servers
BY Defaults, SMT DEF Server, Servers

\* The turn after a server's is the next server's, or the first one's.
LEMMA NextServer ==
    ASSUME NEW t \in Nat
    PROVE  Server(t + 1) = IF Server(t) = NServers - 1 THEN 0
                                                       ELSE Server(t) + 1
<1> DEFINE n == NServers
           q == t \div n  r == t % n
           q1 == (t + 1) \div n  r1 == (t + 1) % n
<1>1. n \in Nat \ {0}
  BY Defaults
<1>2. q \in Nat /\ r \in 0 .. n - 1 /\ t = n * q + r
  <2> HIDE DEF n
  <2> QED BY <1>1, SMT
<1>3. q1 \in Nat /\ r1 \in 0 .. n - 1 /\ t + 1 = n * q1 + r1
  <2> HIDE DEF n
  <2> QED BY <1>1, SMT
<1> HIDE DEF n, q, r, q1, r1
<1>4. CASE r = n - 1
  <2>1. (q + 1) * n + 0 = q1 * n + r1
    BY <1>1, <1>2, <1>3, <1>4
  <2>2. r1 = 0
    BY <2>1, <1>1, <1>2, <1>3, UniqueQuotient
  <2>3. QED
    BY <2>2, <1>4 DEF r, r1, n, Server
<1>5. CASE r # n - 1
  <2>1. q * n + (r + 1) = q1 * n + r1
    BY <1>1, <1>2, <1>3
  <2>2. r1 = r + 1
    BY <2>1, <1>1, <1>2, <1>3, <1>5, UniqueQuotient
  <2>3. QED
    BY <2>2, <1>5 DEF r, r1, n, Server
<1>6. QED
  BY <1>4, <1>5

\* Two turns of one server are a round apart.
LEMMA SameServer ==
    ASSUME NEW t \in Nat, NEW u \in Nat, t < u, Server(t) = Server(u)
    PROVE  u - t >= NServers
<1> DEFINE n == NServers
           a == t \div n  b == u \div n  r == t % n
<1>1. n \in Nat \ {0}
  BY Defaults
<1>2. /\ a \in Nat /\ b \in Nat /\ r \in 0 .. n - 1
      /\ t = n * a + r /\ u = n * b + r
  <2>1. u % n = r
    BY DEF Server
  <2> HIDE DEF n
  <2>2. a \in Nat /\ r \in 0 .. n - 1 /\ t = n * a + r
    BY <1>1, SMT
  <2>3. b \in Nat /\ u = n * b + (u % n)
    BY <1>1, SMT
  <2>4. QED
    BY <2>1, <2>2, <2>3
<1> HIDE DEF n, a, b, r
<1>3. n * a < n * b
  <2>1. n * a \in Nat /\ n * b \in Nat
    BY <1>1, <1>2, SMT
  <2>2. QED
    BY <1>1, <1>2, <2>1
<1>4. ~(b <= a)
  <2>1. SUFFICES ASSUME b <= a PROVE FALSE
    OBVIOUS
  <2>2. PICK c \in Nat : a = b + c
    BY <2>1, <1>2, a = b + (a - b)
  <2>3. n * a = n * b + n * c /\ n * c >= 0 /\ n * b \in Nat /\ n * c \in Nat
    BY <2>2, <1>1, <1>2, SMT
  <2>4. QED
    BY <2>3, <1>3
<1>5. PICK c \in Nat : b = a + 1 + c
  BY <1>2, <1>4, b = a + 1 + (b - a - 1)
<1>6. n * b = n * a + n + n * c /\ n * c \in Nat /\ n * a \in Nat
  BY <1>1, <1>2, <1>5, SMT
<1>7. u - t = n + n * c
  BY <1>1, <1>2, <1>6
<1>8. QED
  BY <1>1, <1>6, <1>7 DEF n

-----------------------------------------------------------------------------
(***************************************************************************)
(* The inductive invariant, in four parts that lean on the first.          *)
(***************************************************************************)

\* A goroutine has a question exactly while it is in Query.
Questioned == \A p \in Procs : pc[p] = "idle" <=> question[p] = None

\* An attempt under way is one of those allowed.
Counted == \A p \in Procs : Exchanging(p) => attempt[p] < Attempts

\* After k whole rounds, the servers before the next one are a turn ahead.
Rounds ==
    \E k \in Nat : \A s \in Servers :
        asked[s] = IF s < Server(next) THEN k + 1 ELSE k

\* The turn of an attempt has been taken, and that of one under way by no
\* other.
Turns ==
    \A p \in Procs :
        /\ Exchanging(p) \/ attempt[p] > 0 => ticket[p] < next
        /\ \A q \in Procs : Exchanging(p) /\ Exchanging(q) /\ p # q =>
                              ticket[p] # ticket[q]

\* An attempt begins within the time of those before it, and ends within its
\* own.
Timely ==
    \A p \in Procs :
        /\ pc[p] = "loop" => now <= started[p] + attempt[p] * Timeout
        /\ Exchanging(p) =>
              /\ now <= deadline[p]
              /\ deadline[p] <= started[p] + (attempt[p] + 1) * Timeout

Typed == TypeOK /\ Questioned /\ Counted

IInv == Typed /\ Rounds /\ Turns /\ Timely

-----------------------------------------------------------------------------
LEMMA TypedInit == Init => Typed
  <1> SUFFICES ASSUME Init PROVE Typed
    OBVIOUS
  <1>1. attempt \in [Procs -> 0 .. Attempts] /\ asked \in [Servers -> Nat]
    BY Defaults, SMT DEF Init
  <1>2. QED
    BY <1>1 DEF Init, Typed, TypeOK, Questioned, Counted, Exchanging

LEMMA TypedStep == Typed /\ [Next]_vars => Typed'
  <1> SUFFICES ASSUME Typed, [Next]_vars
               PROVE  Typed'
    OBVIOUS
  <1> USE Defaults, PublicResAssumption
      DEF Typed, TypeOK, Questioned, Counted, Exchanging, PublicResAssumption
  <1>1. CASE Tick
    BY <1>1 DEF Tick
  <1>2. ASSUME NEW p \in Procs, Cancel(p) PROVE Typed'
    BY <1>2 DEF Cancel
  <1>3. ASSUME NEW p \in Procs, EmptyName(p) PROVE Typed'
    BY <1>3 DEF EmptyName
  <1>4. ASSUME NEW p \in Procs, Take(p) PROVE Typed'
    BY <1>4 DEF Take
  <1>5. ASSUME NEW p \in Procs, NEW q \in Questions, Query(p, q)
        PROVE  Typed'
    BY <1>5 DEF Query
  <1>6. ASSUME NEW p \in Procs, NEW r, Return(p, r),
               r \in {Zone[q] : q \in Questions} \cup {Error}
        PROVE  Typed'
    BY <1>6 DEF Return
  <1>7. ASSUME NEW p \in Procs, GiveUp(p) PROVE Typed'
    BY <1>6, <1>7 DEF GiveUp
  <1>8. ASSUME NEW p \in Procs, Attempt(p) PROVE Typed'
    <2>1. Server(next) \in Servers
      BY ServerType
    <2>2. deadline' \in [Procs -> Nat]
      BY <1>8 DEF Attempt
    <2>3. QED
      BY <1>8, <2>1, <2>2 DEF Attempt
  <1>9. ASSUME NEW p \in Procs, Exchanging(p), TryAgain(p)
        PROVE  Typed'
    BY <1>9 DEF TryAgain
  <1>10. ASSUME NEW p \in Procs, Truncated(p) PROVE Typed'
    BY <1>10 DEF Truncated
  <1>11. ASSUME NEW p \in Procs, Rejected(p) PROVE Typed'
    BY <1>6, <1>11 DEF Rejected
  <1>12. ASSUME NEW p \in Procs, Answered(p) PROVE Typed'
    <2>1. question[p] \in Questions
      BY <1>12 DEF Answered
    <2>2. QED
      BY <1>6, <1>12, <2>1 DEF Answered
  <1>13. CASE UNCHANGED vars
    BY <1>13 DEF vars
  <1>14. QED
    BY <1>1, <1>2, <1>3, <1>4, <1>5, <1>7, <1>8, <1>9, <1>10, <1>11, <1>12,
       <1>13 DEF Next, Run, Unanswered, Refused

-----------------------------------------------------------------------------
\* Only Attempt moves the rotation.
LEMMA RoundsStep == Typed /\ Rounds /\ [Next]_vars => Rounds'
  <1> SUFFICES ASSUME Typed, Rounds, [Next]_vars
               PROVE  Rounds'
    OBVIOUS
  <1>1. ASSUME NEW p \in Procs, Attempt(p)
        PROVE  Rounds'
    <2>1. PICK k \in Nat : \A s \in Servers :
              asked[s] = IF s < Server(next) THEN k + 1 ELSE k
      BY DEF Rounds
    <2>2. /\ next \in Nat /\ asked \in [Servers -> Nat]
          /\ next' = next + 1
          /\ asked' = [asked EXCEPT ![Server(next)] = @ + 1]
          /\ Server(next) \in Servers
      BY <1>1, ServerType DEF Attempt, Typed, TypeOK
    <2>3. CASE Server(next) = NServers - 1
      <3>1. Server(next') = 0
        BY <2>2, <2>3, NextServer
      <3>2. \A s \in Servers : asked'[s] = k + 1
        BY <2>1, <2>2, <2>3, Defaults DEF Servers
      <3>3. \A s \in Servers : asked'[s] = IF s < Server(next') THEN (k + 1) + 1
                                                                ELSE k + 1
        BY <3>1, <3>2 DEF Servers
      <3>4. QED
        BY <3>3, k + 1 \in Nat DEF Rounds
    <2>4. CASE Server(next) # NServers - 1
      <3>1. Server(next') = Server(next) + 1
        BY <2>2, <2>4, NextServer
      <3>2. \A s \in Servers : asked'[s] = IF s < Server(next') THEN k + 1 ELSE k
        BY <2>1, <2>2, <3>1, Defaults DEF Servers
      <3>3. QED
        BY <3>2 DEF Rounds
    <2>5. QED
      BY <2>3, <2>4
  <1>2. CASE UNCHANGED <<next, asked>>
    BY <1>2 DEF Rounds
  <1>3. QED
    BY <1>1, <1>2 DEF Next, vars, Tick, Cancel, EmptyName, Take, Query, Run,
       GiveUp, Return, Unanswered, Refused, TryAgain, Rejected, Truncated, Answered

\* A turn that has been taken is not given out again.
LEMMA TurnsStep == Typed /\ Turns /\ [Next]_vars => Turns'
  <1> SUFFICES ASSUME Typed, Turns, [Next]_vars
               PROVE  Turns'
    OBVIOUS
  <1> USE DEF Typed, TypeOK, Turns, Exchanging
  <1>1. ASSUME NEW p \in Procs, Attempt(p) PROVE Turns'
    BY <1>1 DEF Attempt
  <1>2. ASSUME NEW p \in Procs, NEW r, Return(p, r) PROVE Turns'
    BY <1>2 DEF Return
  <1>3. ASSUME NEW p \in Procs, Exchanging(p), TryAgain(p) PROVE Turns'
    BY <1>3 DEF TryAgain
  <1>4. ASSUME NEW p \in Procs, NEW q \in Questions, Query(p, q) PROVE Turns'
    BY <1>4 DEF Query
  <1>5. ASSUME NEW p \in Procs, Truncated(p) PROVE Turns'
    BY <1>5 DEF Truncated
  <1>6. CASE UNCHANGED <<pc, ticket, next, attempt>>
    BY <1>6
  <1>7. QED
    BY <1>1, <1>2, <1>3, <1>4, <1>5, <1>6 DEF Next, vars, Tick, Cancel,
       EmptyName, Take, Run, GiveUp, Unanswered, Refused, Rejected, Answered

\* Time passes only within an exchange, and not beyond its deadline.
LEMMA TimelyStep == Typed /\ Timely /\ [Next]_vars => Timely'
  <1> SUFFICES ASSUME Typed, Timely, [Next]_vars
               PROVE  Timely'
    OBVIOUS
  <1> USE Defaults DEF Typed, TypeOK, Timely, Exchanging
  <1>1. CASE Tick
    BY <1>1 DEF Tick
  <1>2. ASSUME NEW p \in Procs, Attempt(p) PROVE Timely'
    <2>1. (attempt[p] + 1) * Timeout = attempt[p] * Timeout + Timeout
      BY SMT
    <2>2. now + Timeout <= started[p] + (attempt[p] + 1) * Timeout
      <3>1. attempt[p] * Timeout \in Nat
        BY SMT
      <3>2. now <= started[p] + attempt[p] * Timeout
        BY <1>2 DEF Attempt
      <3>3. QED
        BY <2>1, <3>1, <3>2
    <2>3. QED
      BY <1>2, <2>2 DEF Attempt
  <1>3. ASSUME NEW p \in Procs, NEW r, Return(p, r) PROVE Timely'
    BY <1>3 DEF Return
  <1>4. ASSUME NEW p \in Procs, Exchanging(p), TryAgain(p) PROVE Timely'
    <2>1. now <= started[p] + (attempt[p] + 1) * Timeout
      <3>1. (attempt[p] + 1) * Timeout \in Nat
        BY SMT
      <3>2. QED
        BY <1>4, <3>1
    <2>2. QED
      BY <1>4, <2>1 DEF TryAgain
  <1>5. ASSUME NEW p \in Procs, NEW q \in Questions, Query(p, q)
        PROVE  Timely'
    <2>1. attempt[p] * Timeout \in Nat
      BY SMT
    <2>2. QED
      BY <1>5, <2>1 DEF Query
  <1>6. ASSUME NEW p \in Procs, Truncated(p) PROVE Timely'
    BY <1>6 DEF Truncated
  <1>7. CASE UNCHANGED <<pc, now, started, attempt, deadline>>
    BY <1>7
  <1>8. QED
    BY <1>1, <1>2, <1>3, <1>4, <1>5, <1>6, <1>7 DEF Next, vars, Cancel,
       EmptyName, Take, Run, GiveUp, Unanswered, Refused, Rejected, Answered

-----------------------------------------------------------------------------
LEMMA Inductive == Spec => []IInv
  <1>1. Init => IInv
    <2>1. ASSUME Init PROVE Rounds
      <3>1. Server(0) \in Servers /\ Server(0) = 0
        BY Defaults, SMT DEF Server, Servers
      <3>2. \A s \in Servers : asked[s] = IF s < Server(next) THEN 0 + 1 ELSE 0
        BY <2>1, <3>1 DEF Init, Servers
      <3>3. QED
        BY <3>2 DEF Rounds
    <2>2. ASSUME Init PROVE Turns /\ Timely
      BY <2>2, Defaults DEF Init, Turns, Timely, Exchanging
    <2>3. QED
      BY <2>1, <2>2, TypedInit DEF IInv
  <1>2. IInv /\ [Next]_vars => IInv'
    BY TypedStep, RoundsStep, TurnsStep, TimelyStep DEF IInv
  <1>3. QED
    BY <1>1, <1>2, PTL DEF Spec

\* The variables have their types, and a result is what the zone holds, an
\* error, or what is made of an empty name: never a part of an answer.
THEOREM TypeCorrect == Spec => []TypeOK
  <1>1. IInv => TypeOK
    BY DEF IInv, Typed
  <1>2. QED
    BY <1>1, Inductive, PTL

\* The shared counter keeps the servers' load within one attempt of each
\* other, and gives no two attempts the same turn.
THEOREM RotationBalanced == Spec => []Balanced
  <1>1. IInv => Balanced
    <2>1. ASSUME IInv PROVE Balanced
      <3>1. \A s, t \in Servers : asked[s] <= asked[t] + 1
        <4>1. PICK k \in Nat : \A s \in Servers :
                  asked[s] = IF s < Server(next) THEN k + 1 ELSE k
          BY <2>1 DEF IInv, Rounds
        <4>2. QED
          BY <4>1
      <3>2. QED
        BY <2>1, <3>1 DEF IInv, Turns, Balanced
    <2>2. QED
      BY <2>1
  <1>2. QED
    BY <1>1, Inductive, PTL

\* A query takes no longer than its attempts may.
THEOREM QueryTimeBounded == Spec => []TimeBounded
  <1>1. IInv => TimeBounded
    <2>1. SUFFICES ASSUME IInv, NEW p \in Procs, pc[p] # "idle"
                   PROVE  now <= started[p] + Attempts * Timeout
      BY DEF TimeBounded
    <2> USE <2>1, Defaults DEF IInv, Typed, TypeOK, Timely, Counted
    <2>2. CASE pc[p] = "loop"
      <3>1. attempt[p] * Timeout <= Attempts * Timeout
        BY Monotone
      <3>2. attempt[p] * Timeout \in Nat /\ Attempts * Timeout \in Nat
        BY Monotone
      <3>3. QED
        BY <2>2, <3>1, <3>2
    <2>3. CASE Exchanging(p)
      <3>1. attempt[p] + 1 \in Nat /\ attempt[p] + 1 <= Attempts
        BY <2>3
      <3>2. /\ (attempt[p] + 1) * Timeout \in Nat
            /\ Attempts * Timeout \in Nat
            /\ (attempt[p] + 1) * Timeout <= Attempts * Timeout
        BY <3>1, Monotone
      <3>3. QED
        BY <2>3, <3>2
    <2>4. QED
      BY <2>2, <2>3 DEF Exchanging
  <1>2. QED
    BY <1>1, Inductive, PTL

\* A retry moves on, or the others have taken a round's other turns.
THEOREM RetriesMove == Spec => RetryMoves
  <1>1. IInv /\ [Next]_vars =>
          [\A p \in Procs :
             /\ Attempt(p) /\ attempt[p] > 0
             /\ Server(ticket'[p]) = Server(ticket[p])
             => next - ticket[p] >= NServers]_vars
    <2>1. SUFFICES ASSUME IInv, NEW p \in Procs, Attempt(p), attempt[p] > 0,
                          Server(ticket'[p]) = Server(ticket[p])
                   PROVE  next - ticket[p] >= NServers
      OBVIOUS
    <2>2. ticket'[p] = next /\ ticket[p] < next /\ next \in Nat /\ ticket[p] \in Nat
      BY <2>1 DEF IInv, Typed, TypeOK, Turns, Attempt
    <2>3. QED
      BY <2>1, <2>2, SameServer
  <1>2. QED
    BY <1>1, Inductive, PTL DEF Spec, RetryMoves

\* Query implements Resolve: every step of an attempt is invisible, and every
\* return hands over what the zone holds, or an error.
THEOREM PublicResKeepsPromise == Spec => KeepsPromise
  <1>1. Init => Promise!Init
    BY DEF Init, Promise!Init
  <1>2. Typed /\ [Next]_vars => [Promise!Next]_<<question, result>>
    <2> SUFFICES ASSUME Typed, [Next]_vars
                 PROVE  [Promise!Next]_<<question, result>>
      OBVIOUS
    <2> USE DEF Typed, TypeOK, Questioned, Promise!Next, Promise!Finish,
                Promise!Error, Promise!NoName, Error, NoName
    <2>1. ASSUME NEW p \in Procs, NEW q \in Questions, Query(p, q)
          PROVE  Promise!Next
      BY <2>1 DEF Query, Promise!Ask
    <2>2. ASSUME NEW p \in Procs, EmptyName(p) PROVE Promise!Next
      BY <2>2 DEF EmptyName, Promise!Decline
    <2>3. ASSUME NEW p \in Procs, Take(p) PROVE Promise!Next
      BY <2>3 DEF Take, Promise!Take
    <2>4. ASSUME NEW p \in Procs, pc[p] # "idle", Return(p, Error)
          PROVE  Promise!Next
      BY <2>4 DEF Return, Promise!Fail
    <2>5. ASSUME NEW p \in Procs, Answered(p) PROVE Promise!Next
      BY <2>5 DEF Answered, Exchanging, Return, Promise!Answer
    <2>6. CASE UNCHANGED <<question, result>>
      BY <2>6
    <2>7. QED
      BY <2>1, <2>2, <2>3, <2>4, <2>5, <2>6 DEF Next, vars, Tick, Cancel, Run,
         GiveUp, Attempt, Unanswered, Refused, TryAgain, Rejected, Truncated,
         Exchanging
  <1>3. IInv => Typed
    BY DEF IInv
  <1>4. QED
    BY <1>1, <1>2, <1>3, Inductive, PTL DEF Spec, KeepsPromise, Promise!Spec

=============================================================================
