--------------------------- MODULE RateLimitProofs --------------------------
(***************************************************************************)
(* Proofs about RateLimit, for any number of goroutines, any interval and  *)
(* any burst.                                                              *)
(***************************************************************************)
EXTENDS RateLimit, FiniteSetTheorems, TLAPS

USE LimitAssumption

LEMMA BurstType == Burst \in Nat
  BY DEF Burst

-----------------------------------------------------------------------------
\* The strengthening SlotsApart needs: next is beyond every slot handed out,
\* and no query was sent before its slot.
Reserved ==
    /\ \A s \in sent : s.slot <= now /\ s.slot + Interval <= next
    /\ \A p \in Procs : pc[p] = "sleep" => slot[p] + Interval <= next

IInv == TypeOK /\ Reserved /\ SlotsApart /\ HorizonBounded

\* The variables keep their types.
LEMMA TypeStep == TypeOK /\ [Next]_vars => TypeOK'
  <1> SUFFICES ASSUME TypeOK, [Next]_vars
               PROVE  TypeOK'
    OBVIOUS
  <1> USE DEF TypeOK, Goto, Grant, Free
  <1>1. CASE Tick
    BY <1>1 DEF Tick
  <1>2. ASSUME NEW p \in Procs, Cancel(p)
        PROVE  TypeOK'
    BY <1>2 DEF Cancel
  <1>3. ASSUME NEW p \in Procs, Call(p)
        PROVE  TypeOK'
    BY <1>3 DEF Call
  <1>4. ASSUME NEW p \in Procs, ReserveNow(p)
        PROVE  TypeOK'
    BY <1>4 DEF ReserveNow
  <1>5. ASSUME NEW p \in Procs, ReserveLater(p)
        PROVE  TypeOK'
    BY <1>5 DEF ReserveLater
  <1>6. ASSUME NEW p \in Procs, BackOff(p)
        PROVE  TypeOK'
    BY <1>6 DEF BackOff
  <1>7. ASSUME NEW p \in Procs, Retry(p)
        PROVE  TypeOK'
    BY <1>7 DEF Retry
  <1>8. ASSUME NEW p \in Procs, SlotArrives(p)
        PROVE  TypeOK'
    BY <1>8 DEF SlotArrives
  <1>9. ASSUME NEW p \in Procs, GiveUp(p)
        PROVE  TypeOK'
    BY <1>9 DEF GiveUp
  <1>10. ASSUME NEW p \in Procs, InnerReturns(p)
         PROVE  TypeOK'
    BY <1>10 DEF InnerReturns
  <1>11. CASE UNCHANGED vars
    BY <1>11 DEF vars
  <1> QED
    BY <1>1, <1>2, <1>3, <1>4, <1>5, <1>6, <1>7, <1>8, <1>9, <1>10, <1>11 DEF Next

\* A slot is reserved beyond all those reserved before.
LEMMA ReservedStep == TypeOK /\ Reserved /\ [Next]_vars => Reserved'
  <1> SUFFICES ASSUME TypeOK, Reserved, [Next]_vars
               PROVE  Reserved'
    OBVIOUS
  <1> USE DEF TypeOK, Reserved, Goto, Grant, Free
  <1>1. CASE Tick
    BY <1>1 DEF Tick
  <1>2. ASSUME NEW p \in Procs, Cancel(p)
        PROVE  Reserved'
    BY <1>2 DEF Cancel
  <1>3. ASSUME NEW p \in Procs, Call(p)
        PROVE  Reserved'
    BY <1>3 DEF Call
  <1>4. ASSUME NEW p \in Procs, ReserveNow(p)
        PROVE  Reserved'
    BY <1>4 DEF ReserveNow
  <1>5. ASSUME NEW p \in Procs, ReserveLater(p)
        PROVE  Reserved'
    BY <1>5 DEF ReserveLater
  <1>6. ASSUME NEW p \in Procs, BackOff(p)
        PROVE  Reserved'
    BY <1>6 DEF BackOff
  <1>7. ASSUME NEW p \in Procs, Retry(p)
        PROVE  Reserved'
    BY <1>7 DEF Retry
  <1>8. ASSUME NEW p \in Procs, SlotArrives(p)
        PROVE  Reserved'
    BY <1>8 DEF SlotArrives
  <1>9. ASSUME NEW p \in Procs, GiveUp(p)
        PROVE  Reserved'
    BY <1>9 DEF GiveUp
  <1>10. ASSUME NEW p \in Procs, InnerReturns(p)
         PROVE  Reserved'
    BY <1>10 DEF InnerReturns
  <1>11. CASE UNCHANGED vars
    BY <1>11 DEF vars
  <1> QED
    BY <1>1, <1>2, <1>3, <1>4, <1>5, <1>6, <1>7, <1>8, <1>9, <1>10, <1>11 DEF Next

\* Nothing that is reserved comes close to what was.
LEMMA ApartStep == TypeOK /\ Reserved /\ SlotsApart /\ [Next]_vars => SlotsApart'
  <1> SUFFICES ASSUME TypeOK, Reserved, SlotsApart, [Next]_vars
               PROVE  SlotsApart'
    OBVIOUS
  <1> USE DEF TypeOK, Reserved, SlotsApart, Apart, Goto, Grant, Free
  <1>1. CASE Tick
    BY <1>1 DEF Tick
  <1>2. ASSUME NEW p \in Procs, Cancel(p)
        PROVE  SlotsApart'
    BY <1>2 DEF Cancel
  <1>3. ASSUME NEW p \in Procs, Call(p)
        PROVE  SlotsApart'
    BY <1>3 DEF Call
  <1>4. ASSUME NEW p \in Procs, ReserveNow(p)
        PROVE  SlotsApart'
    BY <1>4 DEF ReserveNow
  <1>5. ASSUME NEW p \in Procs, ReserveLater(p)
        PROVE  SlotsApart'
    BY <1>5 DEF ReserveLater
  <1>6. ASSUME NEW p \in Procs, BackOff(p)
        PROVE  SlotsApart'
    BY <1>6 DEF BackOff
  <1>7. ASSUME NEW p \in Procs, Retry(p)
        PROVE  SlotsApart'
    BY <1>7 DEF Retry
  <1>8. ASSUME NEW p \in Procs, SlotArrives(p)
        PROVE  SlotsApart'
    BY <1>8 DEF SlotArrives
  <1>9. ASSUME NEW p \in Procs, GiveUp(p)
        PROVE  SlotsApart'
    BY <1>9 DEF GiveUp
  <1>10. ASSUME NEW p \in Procs, InnerReturns(p)
         PROVE  SlotsApart'
    BY <1>10 DEF InnerReturns
  <1>11. CASE UNCHANGED vars
    BY <1>11 DEF vars
  <1> QED
    BY <1>1, <1>2, <1>3, <1>4, <1>5, <1>6, <1>7, <1>8, <1>9, <1>10, <1>11 DEF Next

\* A slot is reserved only within the horizon, and time brings it nearer.
LEMMA HorizonStep == TypeOK /\ HorizonBounded /\ [Next]_vars => HorizonBounded'
  <1> SUFFICES ASSUME TypeOK, HorizonBounded, [Next]_vars
               PROVE  HorizonBounded'
    OBVIOUS
  <1> USE BurstType DEF TypeOK, HorizonBounded, TooFar, Goto, Grant, Free
  <1>1. CASE Tick
    BY <1>1 DEF Tick
  <1>2. ASSUME NEW p \in Procs, Cancel(p)
        PROVE  HorizonBounded'
    BY <1>2 DEF Cancel
  <1>3. ASSUME NEW p \in Procs, Call(p)
        PROVE  HorizonBounded'
    BY <1>3 DEF Call
  <1>4. ASSUME NEW p \in Procs, ReserveNow(p)
        PROVE  HorizonBounded'
    BY <1>4 DEF ReserveNow
  <1>5. ASSUME NEW p \in Procs, ReserveLater(p)
        PROVE  HorizonBounded'
    BY <1>5 DEF ReserveLater
  <1>6. ASSUME NEW p \in Procs, BackOff(p)
        PROVE  HorizonBounded'
    BY <1>6 DEF BackOff
  <1>7. ASSUME NEW p \in Procs, Retry(p)
        PROVE  HorizonBounded'
    BY <1>7 DEF Retry
  <1>8. ASSUME NEW p \in Procs, SlotArrives(p)
        PROVE  HorizonBounded'
    BY <1>8 DEF SlotArrives
  <1>9. ASSUME NEW p \in Procs, GiveUp(p)
        PROVE  HorizonBounded'
    BY <1>9 DEF GiveUp
  <1>10. ASSUME NEW p \in Procs, InnerReturns(p)
         PROVE  HorizonBounded'
    BY <1>10 DEF InnerReturns
  <1>11. CASE UNCHANGED vars
    BY <1>11 DEF vars
  <1> QED
    BY <1>1, <1>2, <1>3, <1>4, <1>5, <1>6, <1>7, <1>8, <1>9, <1>10, <1>11 DEF Next

LEMMA InitIInv == Init => IInv
  BY BurstType DEF Init, IInv, TypeOK, Reserved, SlotsApart, HorizonBounded

LEMMA NextIInv == IInv /\ [Next]_vars => IInv'
  BY TypeStep, ReservedStep, ApartStep, HorizonStep DEF IInv

LEMMA Invariance == Spec => []IInv
  BY InitIInv, NextIInv, PTL DEF Spec

-----------------------------------------------------------------------------
\* The variables keep their types.
THEOREM TypeCorrect == Spec => []TypeOK
  <1>1. IInv => TypeOK
    BY DEF IInv
  <1> QED BY Invariance, <1>1, PTL

\* No two queries get slots less than an interval apart.
THEOREM SlotsAreApart == Spec => []SlotsApart
  <1>1. IInv => SlotsApart
    BY DEF IInv
  <1> QED BY Invariance, <1>1, PTL

\* No caller is made to sleep beyond the horizon.
THEOREM HorizonIsBounded == Spec => []HorizonBounded
  <1>1. IInv => HorizonBounded
    BY DEF IInv
  <1> QED BY Invariance, <1>1, PTL

\* Slots an interval apart fall into different intervals.
LEMMA ApartQuotients ==
    ASSUME NEW s \in Nat, NEW t \in Nat, Apart(s, t)
    PROVE  s \div Interval # t \div Interval
  <1> DEFINE a == s \div Interval
             b == t \div Interval
  <1>1. /\ a \in Nat /\ Interval * a <= s /\ s < Interval * a + Interval
        /\ b \in Nat /\ Interval * b <= t /\ t < Interval * b + Interval
    OBVIOUS
  <1> QED BY <1>1 DEF Apart

\* Until any moment, at most one query per interval was sent, and one more.
THEOREM CeilingHolds == Spec => []RateCeiling
  <1>1. ASSUME IInv
        PROVE  RateCeiling
    <2> DEFINE n == now \div Interval
               f == [s \in sent |-> s.slot \div Interval]
    <2> USE <1>1 DEF IInv, TypeOK
    <2>1. n \in Nat
      OBVIOUS
    <2>2. ASSUME NEW s \in sent
          PROVE  s.slot \div Interval \in 0..n
      <3>1. s.slot \in Nat /\ s.slot <= now
        BY DEF Reserved
      <3> QED BY <3>1
    <2>3. ASSUME NEW s \in sent, NEW t \in sent, s # t
          PROVE  f[s] # f[t]
      BY <2>3, ApartQuotients DEF SlotsApart
    <2>4. f \in Injection(sent, 0..n)
      <3>1. f \in [sent -> 0..n]
        BY <2>2
      <3> HIDE DEF f
      <3> QED BY <2>3, <3>1 DEF Injection, IsInjective
    <2>5. IsFiniteSet(0..n) /\ Cardinality(0..n) = n + 1
      <3> HIDE DEF n
      <3>1. /\ IsFiniteSet(0..n)
            /\ Cardinality(0..n) = IF 0 > n THEN 0 ELSE n - 0 + 1
        BY <2>1, FS_Interval
      <3> QED BY <2>1, <3>1
    <2>6. Cardinality(sent) <= Cardinality(0..n)
      <3> HIDE DEF f, n
      <3> QED BY <2>4, <2>5, FS_Injection
    <2> QED BY <2>5, <2>6 DEF RateCeiling
  <1> QED BY Invariance, <1>1, PTL

=============================================================================
