----------------------------- MODULE CacheProofs ----------------------------
(***************************************************************************)
(* Proofs about Cache, for any number of goroutines, questions and entries *)
(* and any configuration; and about CacheFile: what the cache promises     *)
(* survives any number of saves, torn files, ends of the process and       *)
(* loads.                                                                  *)
(***************************************************************************)
EXTENDS CacheFile, FiniteSetTheorems, TLAPS

USE ConfigAssumption, ModelAssumption

-----------------------------------------------------------------------------
\* put gives every answer a positive life, between the limits of Config.
LEMMA LifeBounds ==
    ASSUME NEW a \in Answer
    PROVE  /\ Life(a) \in Nat \ {0}
           /\ a.empty => Life(a) = NegativeTTL
           /\ ~a.empty => Life(a) <= MaxTTL
  BY DEF Life, Answer

\* Nothing the wrapped resolver returns is outside the type of answers.
LEMMA WireAnswersType ==
    ASSUME NEW k \in Keys, now \in 0..MaxTime, NEW a \in WireAnswers(k)
    PROVE  a \in Answer /\ a.key = k /\ a.at = now
  BY DEF WireAnswers, Answer

\* Eviction only removes entries.
LEMMA EvictedSubset ==
    ASSUME NEW es, NEW f \in Evicted(es)
    PROVE  \E S \in SUBSET Stored(es) : f = Keep(es, S)
  <1>1. CASE f = Keep(es, {k \in Stored(es) : ~Expired(es[k])})
    BY <1>1
  <1>2. CASE \E S \in SUBSET {k \in Stored(es) : ~Expired(es[k])} : f = Keep(es, S)
    BY <1>2
  <1> QED BY <1>1, <1>2 DEF Evicted

\* The map after put has a new entry for the question, and for every other
\* question the entry it had or none.
LEMMA PutEntries ==
    ASSUME NEW p \in Procs, TypeOK, Put(p)
    PROVE  LET k == question[p]
               new == [answer |-> held[p], expires |-> now + Life(held[p]),
                       observed |-> now, reused |-> FALSE]
           IN  \E S \in SUBSET Stored(entries) : entries' = [Keep(entries, S) EXCEPT ![k] = new]
  <1> DEFINE k == question[p]
             new == [answer |-> held[p], expires |-> now + Life(held[p]),
                     observed |-> now, reused |-> FALSE]
  <1>1. PICK es \in IF Cardinality(Stored(entries)) >= MaxEntries
                    THEN Evicted(entries) ELSE {entries} :
               entries' = [es EXCEPT ![k] = new]
    BY DEF Put
  <1>2. CASE es = entries
    <2>1. entries = Keep(entries, Stored(entries))
      BY DEF TypeOK, Keep, Stored
    <2> QED BY <1>1, <1>2, <2>1
  <1>3. CASE es \in Evicted(entries)
    BY <1>1, <1>3, EvictedSubset
  <1> QED BY <1>1, <1>2, <1>3

-----------------------------------------------------------------------------
(***************************************************************************)
(* The inductive invariant.  The properties of Cache speak of what callers *)
(* see; none of them is preserved by every step on its own, because they   *)
(* do not say what a goroutine holds between its steps.                    *)
(***************************************************************************)

\* What a goroutine holds of the wrapped resolver's answer, and when.
HeldSound ==
    \A p \in Procs :
        /\ asked[p] <= now
        /\ pc[p] = "put" => held[p] # None
        /\ held[p] # None =>
              /\ pc[p] \in {"release", "close", "put"}
              /\ held[p].key = question[p]
              /\ asked[p] <= held[p].at /\ held[p].at <= now

\* A key has a waiters entry exactly while one goroutine leads its lookup, and
\* the entry is that goroutine's channel.
LeaderRegistered ==
    \A p \in Procs, k \in Keys : Leading(p, k) <=> waiters[k] = p

\* Where channels are held: by those that wait, and by a goroutine about to
\* close the one it made.
ChannelsHeld ==
    \A p \in Procs :
        /\ pc[p] = "close" => chan[p] = p
        /\ pc[p] = "wait" => chan[p] # None
        /\ chan[p] \in Procs => pc[p] \in {"wait", "close"}

IInv == TypeOK /\ HeldSound /\ LeaderRegistered /\ ChannelsHeld /\ NoLostWakeup /\ EntriesSound

-----------------------------------------------------------------------------
\* Type correctness, one step for each action.
LEMMA TypeStep == TypeOK /\ HeldSound /\ [Next]_vars => TypeOK'
  <1> SUFFICES ASSUME TypeOK, HeldSound, [Next]_vars
               PROVE  TypeOK'
    OBVIOUS
  <1> USE DEF TypeOK, Steps, shared, local, Goto, Return
  <1>1. CASE Tick
    BY <1>1 DEF Tick
  <1>2. ASSUME NEW p \in Procs, Cancel(p)
        PROVE  TypeOK'
    BY <1>2 DEF Cancel
  <1>3. ASSUME NEW p \in Procs, NEW k \in Keys, Call(p, k)
        PROVE  TypeOK'
    BY <1>3 DEF Call
  <1>4. ASSUME NEW p \in Procs, Hit(p)
        PROVE  TypeOK'
    <2>1. /\ question[p] \in Keys
          /\ entries[question[p]] \in Entry
      BY <1>4 DEF Hit, Servable
    <2>2. [entries[question[p]] EXCEPT !.reused = TRUE] \in Entry
      BY <2>1 DEF Entry
    <2>3. entries' \in [Keys -> Entry \cup {None}]
      BY <1>4, <2>1, <2>2 DEF Hit
    <2>4. entries[question[p]].answer \in Answer
      BY <2>1 DEF Entry
    <2> QED BY <1>4, <2>3, <2>4 DEF Hit
  <1>5. ASSUME NEW p \in Procs, Miss(p)
        PROVE  TypeOK'
    BY <1>5 DEF Miss
  <1>6. ASSUME NEW p \in Procs, Lead(p)
        PROVE  TypeOK'
    BY <1>6 DEF Lead
  <1>7. ASSUME NEW p \in Procs, Follow(p)
        PROVE  TypeOK'
    BY <1>7 DEF Follow
  <1>8. ASSUME NEW p \in Procs, Wake(p)
        PROVE  TypeOK'
    BY <1>8 DEF Wake
  <1>9. ASSUME NEW p \in Procs, GiveUp(p)
        PROVE  TypeOK'
    BY <1>9 DEF GiveUp
  <1>10. ASSUME NEW p \in Procs, Answered(p)
         PROVE  TypeOK'
    <2>1. question[p] \in Keys
      BY <1>10 DEF Answered
    <2>2. PICK a \in WireAnswers(question[p]) : held' = [held EXCEPT ![p] = a]
      BY <1>10 DEF Answered
    <2>3. a \in Answer
      BY <2>1, WireAnswersType
    <2> QED BY <1>10, <2>2, <2>3 DEF Answered
  <1>11. ASSUME NEW p \in Procs, Unanswered(p)
         PROVE  TypeOK'
    BY <1>11 DEF Unanswered
  <1>12. ASSUME NEW p \in Procs, Release(p)
         PROVE  TypeOK'
    BY <1>12 DEF Release
  <1>13. ASSUME NEW p \in Procs, Close(p)
         PROVE  TypeOK'
    <2>1. chan' \in [Procs -> Procs \cup {None, Closed}]
      BY <1>13 DEF Close, Closing
    <2>2. CASE held[p] = None
      <3>1. Return(p, None) /\ UNCHANGED <<now, entries, waiters>>
        BY <1>13, <2>2 DEF Close
      <3> QED BY <2>1, <3>1
    <2>3. CASE held[p] # None
      BY <1>13, <2>1, <2>3 DEF Close
    <2> QED BY <2>2, <2>3
  <1>14. ASSUME NEW p \in Procs, Put(p)
         PROVE  TypeOK'
    <2> DEFINE new == [answer |-> held[p], expires |-> now + Life(held[p]),
                       observed |-> now, reused |-> FALSE]
    <2>1. question[p] \in Keys /\ held[p] \in Answer
      BY <1>14 DEF Put, HeldSound
    <2>2. new \in Entry
      BY <2>1, LifeBounds DEF Entry
    <2>3. PICK S \in SUBSET Stored(entries) :
                  entries' = [Keep(entries, S) EXCEPT ![question[p]] = new]
      BY <1>14, PutEntries
    <2>4. entries' \in [Keys -> Entry \cup {None}]
      BY <2>2, <2>3 DEF Keep
    <2> QED BY <1>14, <2>1, <2>4 DEF Put
  <1>15. CASE UNCHANGED vars
    BY <1>15 DEF vars
  <1> QED
    BY <1>1, <1>2, <1>3, <1>4, <1>5, <1>6, <1>7, <1>8, <1>9, <1>10, <1>11,
       <1>12, <1>13, <1>14, <1>15 DEF Next, Step
\* A goroutine's answer is one to its question, obtained since it was called.
LEMMA HeldStep == TypeOK /\ HeldSound /\ [Next]_vars => HeldSound'
  <1> SUFFICES ASSUME TypeOK, HeldSound, [Next]_vars
               PROVE  HeldSound'
    OBVIOUS
  <1> USE DEF TypeOK, HeldSound, Steps, shared, local, Goto, Return
  <1>1. CASE Tick
    <2>1. \A p \in Procs : held[p] # None => held[p].at \in 0..MaxTime
      BY DEF Answer
    <2> QED BY <1>1, <2>1 DEF Tick
  <1>2. ASSUME NEW p \in Procs, Cancel(p)
        PROVE  HeldSound'
    BY <1>2 DEF Cancel
  <1>3. ASSUME NEW p \in Procs, NEW k \in Keys, Call(p, k)
        PROVE  HeldSound'
    BY <1>3 DEF Call
  <1>4. ASSUME NEW p \in Procs, Hit(p)
        PROVE  HeldSound'
    BY <1>4 DEF Hit
  <1>5. ASSUME NEW p \in Procs, Miss(p)
        PROVE  HeldSound'
    BY <1>5 DEF Miss
  <1>6. ASSUME NEW p \in Procs, Lead(p)
        PROVE  HeldSound'
    BY <1>6 DEF Lead
  <1>7. ASSUME NEW p \in Procs, Follow(p)
        PROVE  HeldSound'
    BY <1>7 DEF Follow
  <1>8. ASSUME NEW p \in Procs, Wake(p)
        PROVE  HeldSound'
    BY <1>8 DEF Wake
  <1>9. ASSUME NEW p \in Procs, GiveUp(p)
        PROVE  HeldSound'
    BY <1>9 DEF GiveUp
  <1>10. ASSUME NEW p \in Procs, Answered(p)
         PROVE  HeldSound'
    <2>1. question[p] \in Keys
      BY <1>10 DEF Answered
    <2>2. PICK a \in WireAnswers(question[p]) : held' = [held EXCEPT ![p] = a]
      BY <1>10 DEF Answered
    <2>3. a \in Answer /\ a.key = question[p] /\ a.at = now
      BY <2>1, WireAnswersType
    <2> QED BY <1>10, <2>2, <2>3 DEF Answered, Answer
  <1>11. ASSUME NEW p \in Procs, Unanswered(p)
         PROVE  HeldSound'
    BY <1>11 DEF Unanswered
  <1>12. ASSUME NEW p \in Procs, Release(p)
         PROVE  HeldSound'
    BY <1>12 DEF Release
  <1>13. ASSUME NEW p \in Procs, Close(p)
         PROVE  HeldSound'
    <2>1. CASE held[p] = None
      <3>1. Return(p, None) /\ UNCHANGED <<now, entries, waiters>>
        BY <1>13, <2>1 DEF Close
      <3> QED BY <2>1, <3>1
    <2>2. CASE held[p] # None
      BY <1>13, <2>2 DEF Close
    <2> QED BY <2>1, <2>2
  <1>14. ASSUME NEW p \in Procs, Put(p)
         PROVE  HeldSound'
    BY <1>14 DEF Put
  <1>15. CASE UNCHANGED vars
    BY <1>15 DEF vars
  <1> QED
    BY <1>1, <1>2, <1>3, <1>4, <1>5, <1>6, <1>7, <1>8, <1>9, <1>10, <1>11,
       <1>12, <1>13, <1>14, <1>15 DEF Next, Step

\* claim and release keep the waiters map in step with who leads.
LEMMA LeaderStep == TypeOK /\ LeaderRegistered /\ [Next]_vars => LeaderRegistered'
  <1> SUFFICES ASSUME TypeOK, LeaderRegistered, [Next]_vars
               PROVE  LeaderRegistered'
    OBVIOUS
  <1> USE DEF TypeOK, LeaderRegistered, Leading, Steps, shared, local, Goto, Return
  <1>1. CASE Tick
    BY <1>1 DEF Tick
  <1>2. ASSUME NEW p \in Procs, Cancel(p)
        PROVE  LeaderRegistered'
    BY <1>2 DEF Cancel
  <1>3. ASSUME NEW p \in Procs, NEW k \in Keys, Call(p, k)
        PROVE  LeaderRegistered'
    BY <1>3 DEF Call
  <1>4. ASSUME NEW p \in Procs, Hit(p)
        PROVE  LeaderRegistered'
    BY <1>4 DEF Hit
  <1>5. ASSUME NEW p \in Procs, Miss(p)
        PROVE  LeaderRegistered'
    BY <1>5 DEF Miss
  <1>6. ASSUME NEW p \in Procs, Lead(p)
        PROVE  LeaderRegistered'
    BY <1>6 DEF Lead
  <1>7. ASSUME NEW p \in Procs, Follow(p)
        PROVE  LeaderRegistered'
    BY <1>7 DEF Follow
  <1>8. ASSUME NEW p \in Procs, Wake(p)
        PROVE  LeaderRegistered'
    BY <1>8 DEF Wake
  <1>9. ASSUME NEW p \in Procs, GiveUp(p)
        PROVE  LeaderRegistered'
    BY <1>9 DEF GiveUp
  <1>10. ASSUME NEW p \in Procs, Answered(p)
         PROVE  LeaderRegistered'
    BY <1>10 DEF Answered
  <1>11. ASSUME NEW p \in Procs, Unanswered(p)
         PROVE  LeaderRegistered'
    BY <1>11 DEF Unanswered
  <1>12. ASSUME NEW p \in Procs, Release(p)
         PROVE  LeaderRegistered'
    BY <1>12 DEF Release
  <1>13. ASSUME NEW p \in Procs, Close(p)
         PROVE  LeaderRegistered'
    BY <1>13 DEF Close
  <1>14. ASSUME NEW p \in Procs, Put(p)
         PROVE  LeaderRegistered'
    BY <1>14 DEF Put
  <1>15. CASE UNCHANGED vars
    BY <1>15 DEF vars
  <1> QED
    BY <1>1, <1>2, <1>3, <1>4, <1>5, <1>6, <1>7, <1>8, <1>9, <1>10, <1>11,
       <1>12, <1>13, <1>14, <1>15 DEF Next, Step

\* Channels stay with those that wait and those that close.
LEMMA ChannelStep == TypeOK /\ LeaderRegistered /\ ChannelsHeld /\ [Next]_vars => ChannelsHeld'
  <1> SUFFICES ASSUME TypeOK, LeaderRegistered, ChannelsHeld, [Next]_vars
               PROVE  ChannelsHeld'
    OBVIOUS
  <1> USE DEF TypeOK, LeaderRegistered, Leading, ChannelsHeld, Steps, shared, local, Goto, Return
  <1>1. CASE Tick
    BY <1>1 DEF Tick
  <1>2. ASSUME NEW p \in Procs, Cancel(p)
        PROVE  ChannelsHeld'
    BY <1>2 DEF Cancel
  <1>3. ASSUME NEW p \in Procs, NEW k \in Keys, Call(p, k)
        PROVE  ChannelsHeld'
    BY <1>3 DEF Call
  <1>4. ASSUME NEW p \in Procs, Hit(p)
        PROVE  ChannelsHeld'
    BY <1>4 DEF Hit
  <1>5. ASSUME NEW p \in Procs, Miss(p)
        PROVE  ChannelsHeld'
    BY <1>5 DEF Miss
  <1>6. ASSUME NEW p \in Procs, Lead(p)
        PROVE  ChannelsHeld'
    BY <1>6 DEF Lead
  <1>7. ASSUME NEW p \in Procs, Follow(p)
        PROVE  ChannelsHeld'
    BY <1>7 DEF Follow
  <1>8. ASSUME NEW p \in Procs, Wake(p)
        PROVE  ChannelsHeld'
    BY <1>8 DEF Wake
  <1>9. ASSUME NEW p \in Procs, GiveUp(p)
        PROVE  ChannelsHeld'
    BY <1>9 DEF GiveUp
  <1>10. ASSUME NEW p \in Procs, Answered(p)
         PROVE  ChannelsHeld'
    BY <1>10 DEF Answered
  <1>11. ASSUME NEW p \in Procs, Unanswered(p)
         PROVE  ChannelsHeld'
    BY <1>11 DEF Unanswered
  <1>12. ASSUME NEW p \in Procs, Release(p)
         PROVE  ChannelsHeld'
    BY <1>12 DEF Release
  <1>13. ASSUME NEW p \in Procs, Close(p)
         PROVE  ChannelsHeld'
    BY <1>13 DEF Close, Closing
  <1>14. ASSUME NEW p \in Procs, Put(p)
         PROVE  ChannelsHeld'
    BY <1>14 DEF Put
  <1>15. CASE UNCHANGED vars
    BY <1>15 DEF vars
  <1> QED
    BY <1>1, <1>2, <1>3, <1>4, <1>5, <1>6, <1>7, <1>8, <1>9, <1>10, <1>11,
       <1>12, <1>13, <1>14, <1>15 DEF Next, Step

\* A goroutine that waits goes on waiting for one that will close its channel.
LEMMA WakeupStep == TypeOK /\ LeaderRegistered /\ ChannelsHeld /\ NoLostWakeup /\ [Next]_vars => NoLostWakeup'
  <1> SUFFICES ASSUME TypeOK, LeaderRegistered, ChannelsHeld, NoLostWakeup, [Next]_vars
               PROVE  NoLostWakeup'
    OBVIOUS
  <1> USE DEF TypeOK, LeaderRegistered, Leading, ChannelsHeld, NoLostWakeup, Steps, shared, local, Goto, Return
  <1>1. CASE Tick
    BY <1>1 DEF Tick
  <1>2. ASSUME NEW p \in Procs, Cancel(p)
        PROVE  NoLostWakeup'
    BY <1>2 DEF Cancel
  <1>3. ASSUME NEW p \in Procs, NEW k \in Keys, Call(p, k)
        PROVE  NoLostWakeup'
    BY <1>3 DEF Call
  <1>4. ASSUME NEW p \in Procs, Hit(p)
        PROVE  NoLostWakeup'
    BY <1>4 DEF Hit
  <1>5. ASSUME NEW p \in Procs, Miss(p)
        PROVE  NoLostWakeup'
    BY <1>5 DEF Miss
  <1>6. ASSUME NEW p \in Procs, Lead(p)
        PROVE  NoLostWakeup'
    BY <1>6 DEF Lead
  <1>7. ASSUME NEW p \in Procs, Follow(p)
        PROVE  NoLostWakeup'
    BY <1>7 DEF Follow
  <1>8. ASSUME NEW p \in Procs, Wake(p)
        PROVE  NoLostWakeup'
    BY <1>8 DEF Wake
  <1>9. ASSUME NEW p \in Procs, GiveUp(p)
        PROVE  NoLostWakeup'
    BY <1>9 DEF GiveUp
  <1>10. ASSUME NEW p \in Procs, Answered(p)
         PROVE  NoLostWakeup'
    BY <1>10 DEF Answered
  <1>11. ASSUME NEW p \in Procs, Unanswered(p)
         PROVE  NoLostWakeup'
    BY <1>11 DEF Unanswered
  <1>12. ASSUME NEW p \in Procs, Release(p)
         PROVE  NoLostWakeup'
    BY <1>12 DEF Release
  <1>13. ASSUME NEW p \in Procs, Close(p)
         PROVE  NoLostWakeup'
    BY <1>13 DEF Close, Closing
  <1>14. ASSUME NEW p \in Procs, Put(p)
         PROVE  NoLostWakeup'
    BY <1>14 DEF Put
  <1>15. CASE UNCHANGED vars
    BY <1>15 DEF vars
  <1> QED
    BY <1>1, <1>2, <1>3, <1>4, <1>5, <1>6, <1>7, <1>8, <1>9, <1>10, <1>11,
       <1>12, <1>13, <1>14, <1>15 DEF Next, Step

\* Whatever enters the map is a sound entry and stays one.
LEMMA EntriesStep == TypeOK /\ HeldSound /\ EntriesSound /\ [Next]_vars => EntriesSound'
  <1> SUFFICES ASSUME TypeOK, HeldSound, EntriesSound, [Next]_vars
               PROVE  EntriesSound'
    OBVIOUS
  <1> USE DEF TypeOK, HeldSound, EntriesSound, Stored, Steps, shared, local, Goto, Return
  <1>1. CASE Tick
    <2>1. \A k \in Stored(entries) : entries[k].observed \in Nat
      BY DEF Entry
    <2> QED BY <1>1, <2>1 DEF Tick
  <1>2. ASSUME NEW p \in Procs, Cancel(p)
        PROVE  EntriesSound'
    BY <1>2 DEF Cancel
  <1>3. ASSUME NEW p \in Procs, NEW k \in Keys, Call(p, k)
        PROVE  EntriesSound'
    BY <1>3 DEF Call
  <1>4. ASSUME NEW p \in Procs, Hit(p)
        PROVE  EntriesSound'
    <2>1. entries[question[p]] \in Entry
      BY <1>4 DEF Hit, Servable
    <2> QED BY <1>4, <2>1 DEF Hit, Entry
  <1>5. ASSUME NEW p \in Procs, Miss(p)
        PROVE  EntriesSound'
    BY <1>5 DEF Miss
  <1>6. ASSUME NEW p \in Procs, Lead(p)
        PROVE  EntriesSound'
    BY <1>6 DEF Lead
  <1>7. ASSUME NEW p \in Procs, Follow(p)
        PROVE  EntriesSound'
    BY <1>7 DEF Follow
  <1>8. ASSUME NEW p \in Procs, Wake(p)
        PROVE  EntriesSound'
    BY <1>8 DEF Wake
  <1>9. ASSUME NEW p \in Procs, GiveUp(p)
        PROVE  EntriesSound'
    BY <1>9 DEF GiveUp
  <1>10. ASSUME NEW p \in Procs, Answered(p)
         PROVE  EntriesSound'
    BY <1>10 DEF Answered
  <1>11. ASSUME NEW p \in Procs, Unanswered(p)
         PROVE  EntriesSound'
    BY <1>11 DEF Unanswered
  <1>12. ASSUME NEW p \in Procs, Release(p)
         PROVE  EntriesSound'
    BY <1>12 DEF Release
  <1>13. ASSUME NEW p \in Procs, Close(p)
         PROVE  EntriesSound'
    BY <1>13 DEF Close
  <1>14. ASSUME NEW p \in Procs, Put(p)
         PROVE  EntriesSound'
    <2> DEFINE new == [answer |-> held[p], expires |-> now + Life(held[p]),
                       observed |-> now, reused |-> FALSE]
    <2>1. PICK S \in SUBSET Stored(entries) :
                  entries' = [Keep(entries, S) EXCEPT ![question[p]] = new]
      BY <1>14, PutEntries
    <2>2. now' = now
      BY <1>14 DEF Put
    <2>3. question[p] \in Keys /\ held[p] \in Answer
      BY <1>14 DEF Put
    <2>4. ASSUME NEW k \in Keys, entries'[k] # None
          PROVE  \/ entries'[k] = new /\ k = question[p]
                 \/ entries'[k] = entries[k]
      BY <2>1, <2>3, <2>4 DEF Keep
    <2>5. /\ new.answer = held[p] /\ new.observed = now
          /\ new.expires = now + Life(held[p])
      OBVIOUS
    <2>6. held[p].key = question[p] /\ held[p].at <= now
      BY <1>14 DEF Put
    <2> HIDE DEF new
    <2> QED BY <2>2, <2>3, <2>4, <2>5, <2>6
  <1>15. CASE UNCHANGED vars
    BY <1>15 DEF vars
  <1> QED
    BY <1>1, <1>2, <1>3, <1>4, <1>5, <1>6, <1>7, <1>8, <1>9, <1>10, <1>11,
       <1>12, <1>13, <1>14, <1>15 DEF Next, Step
-----------------------------------------------------------------------------
LEMMA InitIInv == Init => IInv
  BY DEF Init, IInv, TypeOK, Steps, HeldSound, LeaderRegistered, Leading,
         ChannelsHeld, NoLostWakeup, EntriesSound, Stored

LEMMA NextIInv == IInv /\ [Next]_vars => IInv'
  BY TypeStep, HeldStep, LeaderStep, ChannelStep, WakeupStep, EntriesStep DEF IInv

LEMMA Invariance == Spec => []IInv
  BY InitIInv, NextIInv, PTL DEF Spec

\* The variables keep their types.
THEOREM TypeCorrect == Spec => []TypeOK
  <1>1. IInv => TypeOK
    BY DEF IInv
  <1> QED BY Invariance, <1>1, PTL

\* However many goroutines ask the same question at once, one of them at a
\* time has it before the wrapped resolver.
THEOREM OneLookupInFlight == Spec => []SingleFlight
  <1>1. IInv => SingleFlight
    BY DEF IInv, TypeOK, LeaderRegistered, SingleFlight
  <1> QED BY Invariance, <1>1, PTL

\* A goroutine never waits on a channel that nobody is going to close.
THEOREM EveryWaiterHasALeader == Spec => []NoLostWakeup
  <1>1. IInv => NoLostWakeup
    BY DEF IInv
  <1> QED BY Invariance, <1>1, PTL

\* The map never attributes an answer to the wrong question or lengthens its
\* life.
THEOREM EntriesAreSound == Spec => []EntriesSound
  <1>1. IInv => EntriesSound
    BY DEF IInv
  <1> QED BY Invariance, <1>1, PTL

\* Nobody is given an error that belongs to another goroutine.
THEOREM ErrorsAreOwn == Spec => OwnErrorOnly
  <1>1. TypeOK /\ HeldSound /\ [Next]_vars =>
           [\A p \in Procs :
               pc[p] # "idle" /\ pc'[p] = "idle" /\ ret'[p] = None =>
                   cancelled[p] \/ (pc[p] = "close" /\ held[p] = None)]_vars
    <2> SUFFICES ASSUME TypeOK, HeldSound, Next, NEW p \in Procs,
                        pc[p] # "idle", pc'[p] = "idle", ret'[p] = None
                 PROVE  cancelled[p] \/ (pc[p] = "close" /\ held[p] = None)
      OBVIOUS
    <2> USE DEF TypeOK, Goto, Return, local
    <2>1. Tick => pc' = pc
      BY DEF Tick
    <2>2. ASSUME NEW q \in Procs, NEW k \in Keys, Cancel(q) \/ Call(q, k)
          PROVE  pc'[p] # "idle"
      BY <2>2 DEF Cancel, Call
    <2>3. ASSUME NEW q \in Procs, Step(q), q # p
          PROVE  pc'[p] = pc[p]
      BY <2>3 DEF Step, Hit, Miss, Lead, Follow, Wake, GiveUp, Answered,
                  Unanswered, Release, Close, Put
    <2>4. Hit(p) => ret'[p] # None
      BY DEF Hit, Servable, Entry
    <2>5. Put(p) => ret'[p] # None
      BY DEF Put, HeldSound
    <2>6. Step(p) => GiveUp(p) \/ Close(p)
      BY <2>4, <2>5 DEF Step, Miss, Lead, Follow, Wake, Answered, Unanswered, Release
    <2>7. Step(p)
      BY <2>1, <2>2, <2>3 DEF Next
    <2> QED BY <2>6, <2>7 DEF GiveUp, Close
  <1>2. IInv => TypeOK /\ HeldSound
    BY DEF IInv
  <1> QED BY Invariance, <1>1, <1>2, PTL DEF Spec, OwnErrorOnly

-----------------------------------------------------------------------------
\* Eviction makes room: it leaves the map as it was, with nothing alive lost,
\* when that is half empty, and half full otherwise.
LEMMA EvictedRoom ==
    ASSUME TypeOK, NEW f \in Evicted(entries)
    PROVE  /\ Stored(f) \subseteq Stored(entries)
           /\ Cardinality(Stored(f)) <= MaxEntries \div 2
  <1> DEFINE live == {k \in Stored(entries) : ~Expired(entries[k])}
             target == MaxEntries \div 2
  <1>1. /\ target \in Nat
        /\ IsFiniteSet(live)
        /\ Cardinality(live) \in Nat
    BY FS_Subset, FS_CardinalityType DEF Stored
  <1>2. ASSUME NEW S \in SUBSET live
        PROVE  Stored(Keep(entries, S)) = S
    BY <1>2 DEF Stored, Keep
  <1>3. CASE Cardinality(live) <= target
    BY <1>1, <1>2, <1>3 DEF Evicted
  <1>4. CASE Cardinality(live) > target
    <2>1. PICK S \in SUBSET live : f = Keep(entries, S) /\ Cardinality(S) = target
      BY <1>1, <1>4 DEF Evicted
    <2> QED BY <1>1, <1>2, <2>1
  <1> QED BY <1>1, <1>3, <1>4

\* The map never holds more entries than Config allows.
THEOREM MapIsBounded == Spec => []Bounded
  <1>1. Init => Bounded
    <2>1. Init => Stored(entries) = {}
      BY DEF Init, Stored
    <2> QED BY <2>1, FS_EmptySet DEF Bounded
  <1>2. IInv /\ Bounded /\ [Next]_vars => Bounded'
    <2> SUFFICES ASSUME TypeOK, Bounded, [Next]_vars
                 PROVE  Bounded'
      BY DEF IInv
    <2>1. ASSUME Stored(entries') \subseteq Stored(entries)
          PROVE  Bounded'
      <3>1. IsFiniteSet(Stored(entries))
        BY FS_Subset DEF Stored
      <3>2. /\ Cardinality(Stored(entries')) <= Cardinality(Stored(entries))
            /\ Cardinality(Stored(entries')) \in Nat
            /\ Cardinality(Stored(entries)) \in Nat
        BY <2>1, <3>1, FS_Subset, FS_CardinalityType
      <3> QED BY <3>2 DEF Bounded
    <2>2. ASSUME NEW p \in Procs, Put(p)
          PROVE  Bounded'
      <3> DEFINE k == question[p]
      <3>1. PICK es \in IF Cardinality(Stored(entries)) >= MaxEntries
                        THEN Evicted(entries) ELSE {entries} :
                   \E new : entries' = [es EXCEPT ![k] = new]
        BY <2>2 DEF Put
      <3>2. Stored(entries') \subseteq Stored(es) \cup {k}
        BY <3>1 DEF Stored
      <3>3. /\ IsFiniteSet(Stored(entries)) /\ Cardinality(Stored(entries)) \in Nat
            /\ IsFiniteSet(Stored(es)) /\ Cardinality(Stored(es)) \in Nat
        BY FS_Subset, FS_CardinalityType DEF Stored
      <3>4. Cardinality(Stored(es)) < MaxEntries
        <4>1. CASE Cardinality(Stored(entries)) >= MaxEntries
          BY <3>1, <3>3, <4>1, EvictedRoom
        <4>2. CASE Cardinality(Stored(entries)) < MaxEntries
          BY <3>1, <3>3, <4>2
        <4> QED BY <3>3, <4>1, <4>2
      <3>5. /\ IsFiniteSet(Stored(es) \cup {k})
            /\ Cardinality(Stored(es) \cup {k}) <= Cardinality(Stored(es)) + 1
            /\ Cardinality(Stored(es) \cup {k}) \in Nat
        <4> DEFINE T == Stored(es)
        <4> HIDE DEF T
        <4>1. IsFiniteSet(T) /\ Cardinality(T) \in Nat
          BY <3>3 DEF T
        <4>2. /\ IsFiniteSet(T \cup {k})
              /\ Cardinality(T \cup {k}) = IF k \in T THEN Cardinality(T) ELSE Cardinality(T) + 1
          BY <4>1, FS_AddElement
        <4> QED BY <4>1, <4>2 DEF T
      <3>6. /\ Cardinality(Stored(entries')) <= Cardinality(Stored(es) \cup {k})
            /\ Cardinality(Stored(entries')) \in Nat
        BY <3>2, <3>5, FS_Subset, FS_CardinalityType
      <3> QED BY <3>3, <3>4, <3>5, <3>6 DEF Bounded
    <2>3. ASSUME NEW p \in Procs, Hit(p)
          PROVE  Stored(entries') \subseteq Stored(entries)
      BY <2>3 DEF Hit, Servable, Stored, TypeOK
    <2>4. ASSUME NEW p \in Procs, Miss(p)
          PROVE  Stored(entries') \subseteq Stored(entries)
      BY <2>4 DEF Miss, Stored, TypeOK
    <2>5. ASSUME NEW p \in Procs,
                 \/ Lead(p) \/ Follow(p) \/ Wake(p) \/ GiveUp(p) \/ Answered(p)
                 \/ Unanswered(p) \/ Release(p) \/ Close(p) \/ Cancel(p)
                 \/ \E k \in Keys : Call(p, k)
          PROVE  entries' = entries
      BY <2>5 DEF Lead, Follow, Wake, GiveUp, Answered, Unanswered, Release,
                  Close, Cancel, Call, shared
    <2>6. Tick \/ UNCHANGED vars => entries' = entries
      BY DEF Tick, vars, shared
    <2> QED BY <2>1, <2>2, <2>3, <2>4, <2>5, <2>6 DEF Next, Step
  <1> QED BY Invariance, <1>1, <1>2, PTL DEF Spec

-----------------------------------------------------------------------------
\* Cache does what Memo promises: callers are served from memory while an
\* entry lives, from the wire otherwise, and failures leave no trace.
THEOREM CacheImplementsMemo == Spec => MemoSpec
  <1>1. Init => M!Init
    BY DEF Init, M!Init
  <1>2. TypeOK /\ HeldSound /\ [Next]_vars => [M!Next]_(M!vars)
    <2> SUFFICES ASSUME TypeOK, HeldSound, [Next]_vars
                 PROVE  M!Next \/ UNCHANGED M!vars
      OBVIOUS
    <2> USE DEF TypeOK, shared, local, Goto, Return
    <2>1. Tick => M!Tick
      BY DEF Tick, M!Tick
    <2>2. ASSUME NEW p \in Procs, NEW k \in Keys, Call(p, k)
          PROVE  M!Ask(p, k)
      BY <2>2 DEF Call, M!Ask
    <2>3. ASSUME NEW p \in Procs, Hit(p)
          PROVE  M!Recall(p)
      <3>1. /\ question[p] \in Keys
            /\ entries[question[p]] \in Entry
        BY <2>3 DEF Hit, Servable
      <3>2. now <= entries[question[p]].expires
        BY <2>3, <3>1 DEF Hit, Servable, Expired, Entry
      <3>3. M!Reply(p, entries[question[p]].answer)
        BY <2>3, <3>1 DEF Hit, M!Reply
      <3>4. /\ entries' = [entries EXCEPT ![question[p]].reused = TRUE]
            /\ question[p] # None /\ entries[question[p]] # None
        BY <2>3 DEF Hit, Servable
      <3> QED BY <3>2, <3>3, <3>4 DEF M!Recall
    <2>4. ASSUME NEW p \in Procs, Miss(p)
          PROVE  M!Forget(question[p]) \/ UNCHANGED M!vars
      BY <2>4, ZenonT(40) DEF Miss, M!Forget, M!Lose, M!vars
    <2>5. ASSUME NEW p \in Procs, GiveUp(p)
          PROVE  M!Fail(p)
      BY <2>5 DEF GiveUp, M!Fail, M!Reply
    <2>6. ASSUME NEW p \in Procs, Close(p)
          PROVE  M!Fail(p) \/ UNCHANGED M!vars
      <3>1. CASE held[p] = None
        BY <2>6, <3>1 DEF Close, M!Fail, M!Reply
      <3>2. CASE held[p] # None
        BY <2>6, <3>2 DEF Close, M!vars
      <3> QED BY <3>1, <3>2
    <2>7. ASSUME NEW p \in Procs, Put(p)
          PROVE  M!Learn(p)
      <3> DEFINE new == [answer |-> held[p], expires |-> now + Life(held[p]),
                         observed |-> now, reused |-> FALSE]
      <3>1. PICK S \in SUBSET Stored(entries) :
                    entries' = [Keep(entries, S) EXCEPT ![question[p]] = new]
        BY <2>7, PutEntries
      <3>2. Keep(entries, S) = M!Lose(Keys \ S)
        BY <3>1 DEF Keep, M!Lose, Stored
      <3>3. /\ held[p] \in Answer /\ held[p].key = question[p]
            /\ asked[p] <= held[p].at /\ held[p].at <= now
            /\ question[p] # None
        BY <2>7 DEF Put, HeldSound
      <3>4. M!Reply(p, held[p])
        BY <2>7 DEF Put, M!Reply
      <3> QED BY <3>1, <3>2, <3>3, <3>4 DEF M!Learn
    <2>8. ASSUME NEW p \in Procs,
                 \/ Lead(p) \/ Follow(p) \/ Wake(p) \/ Answered(p)
                 \/ Unanswered(p) \/ Release(p) \/ Cancel(p)
          PROVE  UNCHANGED M!vars
      BY <2>8 DEF Lead, Follow, Wake, Answered, Unanswered, Release, Cancel, M!vars
    <2>9. ASSUME NEW p \in Procs, Miss(p)
          PROVE  question[p] \in Keys
      BY <2>9 DEF Miss
    <2>10. UNCHANGED vars => UNCHANGED M!vars
      BY DEF vars, M!vars
    <2> QED
      BY <2>1, <2>2, <2>3, <2>4, <2>5, <2>6, <2>7, <2>8, <2>9, <2>10
      DEF Next, Step, M!Next
  <1>3. IInv => TypeOK /\ HeldSound
    BY DEF IInv
  <1> QED BY Invariance, <1>1, <1>2, <1>3, PTL DEF Spec, MemoSpec, M!Spec

-----------------------------------------------------------------------------
(***************************************************************************)
(* CacheFile.                                                              *)
(***************************************************************************)


\* The file is written by WriteTo, whole or torn.
FileTyped == file \in [Keys -> Entry \cup {None}] \cup {Torn}

\* IInv says of the process what the other two say of its file.
FileIInv == IInv /\ FileTyped /\ FileSound

-----------------------------------------------------------------------------
\* Time does not run backwards, nor start again with the process.
LEMMA TimeMoves == TypeOK /\ [FileNext]_fileVars => now' >= now
  <1> SUFFICES ASSUME TypeOK, [FileNext]_fileVars
               PROVE  now' >= now
    OBVIOUS
  <1>0. now \in Nat
    BY ModelAssumption DEF TypeOK
  <1>1. CASE Tick
    BY <1>0, <1>1 DEF Tick
  <1>2. ASSUME NEW p \in Procs,
               (\E k \in Keys : Call(p, k)) \/ Cancel(p) \/ Step(p)
        PROVE  now' = now
    BY <1>2 DEF Call, Cancel, Step, Hit, Miss, Lead, Follow, Wake, GiveUp,
                Answered, Unanswered, Release, Close, Put
  <1>3. WriteTo \/ ReadFrom \/ Restart \/ UNCHANGED fileVars => now' = now
    BY DEF WriteTo, ReadFrom, Restart, fileVars, vars
  <1> QED BY <1>0, <1>1, <1>2, <1>3 DEF FileNext, Next

\* A file that stays as it is stays good as time passes.
LEMMA FileKeeps ==
    TypeOK /\ FileTyped /\ FileSound /\ now' \in Nat /\ now' >= now /\ file' = file => FileSound'
  <1> SUFFICES ASSUME TypeOK, FileTyped, FileSound, now' \in Nat, now' >= now, file' = file,
                      file # Torn, NEW k \in Stored(file)
               PROVE  /\ file[k].answer.key = k
                      /\ file[k].answer.at <= file[k].observed /\ file[k].observed <= now'
                      /\ file[k].expires = file[k].observed + Life(file[k].answer)
    BY DEF FileSound, Stored, Life
  <1>1. /\ file[k].answer.key = k
        /\ file[k].answer.at <= file[k].observed /\ file[k].observed <= now
        /\ file[k].expires = file[k].observed + Life(file[k].answer)
    BY DEF FileSound
  <1>2. file[k].observed \in Nat /\ now \in Nat
    BY ModelAssumption DEF FileTyped, Stored, Entry, TypeOK
  <1> QED BY <1>1, <1>2

\* WriteTo saves what is sound already.
LEMMA WriteToStep == FileIInv /\ WriteTo => FileIInv'
  <1> SUFFICES ASSUME FileIInv, WriteTo
               PROVE  FileIInv'
    OBVIOUS
  <1>1. IInv'
    BY NextIInv DEF FileIInv, WriteTo
  <1>2. CASE file' = Torn
    BY <1>1, <1>2 DEF FileIInv, FileTyped, FileSound
  <1>3. CASE file' = Keep(entries, Reusable)
    <2>1. FileTyped'
      BY <1>3 DEF FileIInv, IInv, TypeOK, FileTyped, Keep, Reusable, Stored
    <2>2. Stored(file)' \subseteq Stored(entries)
      BY <1>3 DEF Stored, Keep, Reusable
    <2>3. \A k \in Stored(file)' : file'[k] = entries[k]
      BY <1>3 DEF Stored, Keep
    <2>4. now' = now
      BY DEF WriteTo, vars
    <2>5. FileSound'
      BY <2>2, <2>3, <2>4 DEF FileSound, FileIInv, IInv, EntriesSound, Life
    <2> QED BY <1>1, <2>1, <2>5 DEF FileIInv
  <1> QED BY <1>2, <1>3 DEF WriteTo

\* ReadFrom changes the map only, and puts into it what is sound.
LEMMA ReadFromStep == FileIInv /\ ReadFrom => FileIInv'
  <1> SUFFICES ASSUME FileIInv, ReadFrom
               PROVE  FileIInv'
    OBVIOUS
  <1>1. /\ file # Torn
        /\ entries' = [k \in Keys |-> IF file[k] # None /\ ~Expired(file[k])
                                      THEN file[k] ELSE entries[k]]
        /\ UNCHANGED <<now, waiters, pc, local, chan, held, ret, calls, file>>
    BY DEF ReadFrom
  <1>2. TypeOK'
    BY <1>1 DEF FileIInv, FileTyped, IInv, TypeOK, local
  <1>3. HeldSound' /\ LeaderRegistered' /\ ChannelsHeld' /\ NoLostWakeup'
    BY <1>1 DEF FileIInv, IInv, HeldSound, LeaderRegistered, ChannelsHeld, NoLostWakeup,
                Leading, local
  <1>4. EntriesSound'
    BY <1>1 DEF FileIInv, IInv, FileSound, EntriesSound, Stored, Life
  <1>5. FileTyped' /\ FileSound'
    BY <1>1 DEF FileIInv, FileTyped, FileSound, Stored, Life
  <1> QED BY <1>2, <1>3, <1>4, <1>5 DEF FileIInv, IInv

\* A process that begins has no goroutine in a call and nothing in its map.
LEMMA RestartStep == FileIInv /\ Restart => FileIInv'
  <1> SUFFICES ASSUME FileIInv, Restart
               PROVE  FileIInv'
    OBVIOUS
  <1>1. TypeOK'
    BY DEF FileIInv, IInv, Restart, TypeOK, Steps, Nothing
  <1>2. HeldSound' /\ LeaderRegistered' /\ ChannelsHeld' /\ NoLostWakeup' /\ EntriesSound'
    BY ModelAssumption
       DEF FileIInv, IInv, TypeOK, Restart, HeldSound, LeaderRegistered, ChannelsHeld,
           NoLostWakeup, Leading, EntriesSound, Stored, Nothing
  <1>3. FileTyped' /\ FileSound'
    BY DEF FileIInv, Restart, FileTyped, FileSound, Stored, Life
  <1> QED BY <1>1, <1>2, <1>3 DEF FileIInv, IInv

LEMMA FileInvariance == FileSpec => []FileIInv
  <1>1. FileInit => FileIInv
    BY InitIInv DEF FileInit, FileIInv, FileTyped, FileSound, Stored, Nothing
  <1>2. FileIInv /\ [FileNext]_fileVars => FileIInv'
    <2> SUFFICES ASSUME FileIInv, [FileNext]_fileVars
                 PROVE  FileIInv'
      OBVIOUS
    <2>1. ASSUME [Next]_vars, UNCHANGED file
          PROVE  FileIInv'
      <3>1. IInv'
        BY <2>1, NextIInv DEF FileIInv
      <3>2. now' \in Nat /\ now' >= now
        BY <3>1, TimeMoves, ModelAssumption DEF FileIInv, IInv, TypeOK
      <3>3. FileSound'
        BY <2>1, <3>2, FileKeeps DEF FileIInv, IInv
      <3> QED BY <2>1, <3>1, <3>3 DEF FileIInv, FileTyped
    <2>2. UNCHANGED fileVars => [Next]_vars /\ UNCHANGED file
      BY DEF fileVars
    <2> QED BY <2>1, <2>2, WriteToStep, ReadFromStep, RestartStep DEF FileNext
  <1> QED BY <1>1, <1>2, PTL DEF FileSpec

-----------------------------------------------------------------------------
\* What is saved dies when it would have died in the process that obtained it,
\* after any number of restarts (WriteTo and ReadFrom, cache.go).
THEOREM SavedEntriesAreSound == FileSpec => []FileSound
  BY FileInvariance, PTL DEF FileIInv

\* So does what is in the map, loaded or not.
THEOREM LoadedEntriesAreSound == FileSpec => []EntriesSound
  BY FileInvariance, PTL DEF FileIInv, IInv

\* No goroutine is served from memory what is older than the ceiling put keeps
\* to, however the entry came to be in the map.
THEOREM NothingStaleIsServed == FileSpec => ServedWithinLife
  <1>1. FileIInv /\ [FileNext]_fileVars =>
           [\A p \in Procs :
               pc[p] = "get" /\ pc'[p] = "idle" /\ ret'[p] # None =>
                   LET e == entries[question[p]] IN
                   /\ ret'[p] = e.answer
                   /\ now - e.observed <= IF e.answer.empty THEN NegativeTTL ELSE MaxTTL
           ]_fileVars
    <2> SUFFICES ASSUME FileIInv, FileNext, NEW p \in Procs,
                        pc[p] = "get", pc'[p] = "idle", ret'[p] # None
                 PROVE  LET e == entries[question[p]] IN
                        /\ ret'[p] = e.answer
                        /\ now - e.observed <= IF e.answer.empty THEN NegativeTTL ELSE MaxTTL
      OBVIOUS
    <2>0. TypeOK /\ EntriesSound
      BY DEF FileIInv, IInv
    <2>1. ~(WriteTo \/ ReadFrom \/ Restart \/ Tick)
      BY DEF WriteTo, ReadFrom, Restart, Tick, vars
    <2>2. ASSUME NEW q \in Procs, q # p,
                 (\E k \in Keys : Call(q, k)) \/ Cancel(q) \/ Step(q)
          PROVE  FALSE
      BY <2>0, <2>2 DEF TypeOK, Goto, Return, Call, Cancel, Step, Hit, Miss, Lead,
                        Follow, Wake, GiveUp, Answered, Unanswered, Release, Close, Put
    <2>3. ASSUME (\E k \in Keys : Call(p, k)) \/ Cancel(p) \/ Step(p), ~Hit(p)
          PROVE  FALSE
      BY <2>0, <2>3 DEF TypeOK, Goto, Return, Call, Cancel, Step, Miss, Lead,
                        Follow, Wake, GiveUp, Answered, Unanswered, Release, Close, Put
    <2>4. Hit(p)
      BY <2>1, <2>2, <2>3 DEF FileNext, Next
    <2> DEFINE e == entries[question[p]]
    <2>5. question[p] \in Keys /\ e \in Entry /\ now \in Nat
      BY <2>0, <2>4, ModelAssumption DEF Hit, Servable, TypeOK
    <2>6. ret'[p] = e.answer /\ now <= e.expires
      BY <2>0, <2>4, <2>5 DEF Hit, Servable, Expired, Return, TypeOK, Entry
    <2>7. e.expires = e.observed + Life(e.answer) /\ e.observed \in Nat
      BY <2>0, <2>5, ModelAssumption DEF EntriesSound, Stored, Entry
    <2>8. e.answer \in Answer
      BY <2>5 DEF Entry
    <2>9. /\ Life(e.answer) \in Nat
          /\ Life(e.answer) <= IF e.answer.empty THEN NegativeTTL ELSE MaxTTL
      BY <2>8, LifeBounds, ConfigAssumption
    <2> QED BY <2>5, <2>6, <2>7, <2>9, ConfigAssumption
  <1> QED BY FileInvariance, <1>1, PTL DEF FileSpec, ServedWithinLife
=============================================================================
