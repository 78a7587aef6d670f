---------------------------- MODULE AlignerProofs ---------------------------
(***************************************************************************)
(* Proofs about Aligner, for any names, records and questions, and however *)
(* often the zones change.                                                 *)
(***************************************************************************)
EXTENDS Aligner, LeastElement, SequenceTheorems, TLAPS

-----------------------------------------------------------------------------
(***************************************************************************)
(* Walks.                                                                  *)
(***************************************************************************)

\* A walk from a name begins with it, asks names only, and is short.
LEMMA ClimbType ==
    ASSUME NEW d \in Names
    PROVE  /\ Climb(d) \in Seq(Names)
           /\ Len(Climb(d)) \in Nat \ {0} /\ Len(Climb(d)) <= MaxLabels + 1
           /\ DOMAIN Climb(d) = 1 .. Len(Climb(d))
           /\ \A i \in 1 .. Len(Climb(d)) : Climb(d)[i] \in Names
  <1> DEFINE start == IF Len(d) - 1 > MaxLabels THEN MaxLabels ELSE Len(d) - 1
  <1>1. /\ Len(d) \in Nat \ {0} /\ MaxLabels \in Nat \ {0}
        /\ \A n \in 1 .. Len(d) : Suffix(d, n) \in Names
    BY NameAssumption
  <1>2. start \in 0 .. MaxLabels /\ start < Len(d)
    BY <1>1
  <1>3. \A i \in 1 .. start : start - i + 1 \in 1 .. Len(d)
    BY <1>1, <1>2
  <1> DEFINE above == [i \in 1 .. start |-> Suffix(d, start - i + 1)]
  <1>4. above \in Seq(Names) /\ Len(above) = start
    BY <1>1, <1>2, <1>3
  <1>5. Climb(d) = <<d>> \o above
    BY DEF Climb, TreeWalkNames
  <1>6. <<d>> \in Seq(Names) /\ Len(<<d>>) = 1
    OBVIOUS
  <1>7. Climb(d) \in Seq(Names) /\ Len(Climb(d)) = start + 1
    <2> HIDE DEF above, start
    <2>1. start \in Nat
      BY <1>2
    <2> QED BY <1>4, <1>5, <1>6, <2>1
  <1> QED BY <1>1, <1>2, <1>7

\* What is known of a view, another view knows too.
Extends(other, view) ==
    \A n \in Names : view[n] # Unknown => other[n] = view[n]

\* A walk that can be made in one view comes to the same in any that extends
\* it: it asks the same names, and is told the same.
LEMMA LearnedStays ==
    ASSUME NEW d \in Names, NEW view, NEW other, Extends(other, view),
           \A i \in Asked(view, Climb(d)) : view[Climb(d)[i]] \notin {Unknown, Malformed}
    PROVE  /\ \A i \in Asked(other, Climb(d)) : other[Climb(d)[i]] \notin {Unknown, Malformed}
           /\ OrgWalk(other, d) = OrgWalk(view, d)
  <1> DEFINE names == Climb(d)
             In(v, j) == Publishes(v, names[j]) /\ Ends(v[names[j]])
  <1>1. /\ DOMAIN names = 1 .. Len(names) /\ Len(names) \in Nat
        /\ \A i \in 1 .. Len(names) : names[i] \in Names
    BY ClimbType
  <1>2. Unknown \notin Record
    BY AlignerAssumption
  <1>3. \A v : Asked(v, names) = {i \in 1 .. Len(names) : \A j \in 1 .. (i - 1) : ~In(v, j)}
    BY <1>1 DEF Asked
  <1>4. \A i \in Asked(view, names) : \A j \in 1 .. i : j \in Asked(view, names)
    <2> HIDE DEF names, In
    <2> QED BY <1>1, <1>3
  <1>5. \A i \in Asked(view, names) : other[names[i]] = view[names[i]]
    BY <1>1, <1>3 DEF Extends
  <1>6. ASSUME NEW i \in Asked(view, names)
        PROVE  i \in Asked(other, names)
    <2>1. i \in 1 .. Len(names)
      BY <1>3
    <2>2. ASSUME NEW j \in 1 .. (i - 1)
          PROVE  ~In(other, j)
      <3>1. j \in Asked(view, names)
        BY <1>1, <1>4, <2>1
      <3>2. ~In(view, j)
        BY <1>3, <2>1
      <3> QED BY <1>5, <3>1, <3>2 DEF Publishes
    <2> QED BY <1>3, <2>1, <2>2
  <1>7. ASSUME NEW i \in Asked(other, names)
        PROVE  i \in Asked(view, names)
    <2>1. i \in 1 .. Len(names)
      BY <1>3
    <2>2. ASSUME NEW j \in 1 .. (i - 1), In(view, j)
          PROVE  FALSE
      <3>1. j \in 1 .. Len(names)
        BY <1>1, <2>1
      <3>2. other[names[j]] = view[names[j]]
        BY <1>1, <1>2, <2>2, <3>1 DEF Extends, Publishes
      <3>3. ~In(other, j)
        BY <1>3
      <3> QED BY <2>2, <3>2, <3>3 DEF Publishes
    <2> QED BY <1>3, <2>1, <2>2
  <1>8. Asked(other, names) = Asked(view, names)
    BY <1>6, <1>7
  <1>9. Walk(other, names) = Walk(view, names)
    BY <1>5, <1>8 DEF Walk, Publishes
  <1> QED BY <1>5, <1>8, <1>9 DEF OrgWalk

-----------------------------------------------------------------------------
(***************************************************************************)
(* The inductive invariant.  OneView is about walks that are over; a walk  *)
(* that is not has asked the names up to where it is, has forgotten none   *)
(* of the records among them, and has met none that would have ended it.   *)
(***************************************************************************)

\* Some record that was found is furthest up.
Furthest(records) ==
    records # {} => \E f \in records : \A g \in records : f.step >= g.step

WalkSoFar ==
    LET names == Climb(Current) IN
    /\ step < Len(names)
    /\ \A i \in 1 .. step : /\ txt[names[i]] \notin {Unknown, Malformed}
                            /\ ~(Publishes(txt, names[i]) /\ Ends(txt[names[i]]))
    /\ found = {Found(i - 1, names[i], txt[names[i]]) :
                   i \in {j \in 1 .. step : Publishes(txt, names[j])}}
    /\ Furthest(found)

WalkSound ==
    /\ ~Walking => step = 0 /\ found = {}
    /\ Walking => WalkSoFar

\* What the question has been told so far, and what earlier ones were told.
ToldSound ==
    /\ \A i \in 1 .. Len(got) : Learned(question[i], got[i])
    /\ \A v \in said : v.names \in Seq(Names)

IInv == TypeOK /\ WalkSound /\ ToldSound /\ OneView

\* The types, said once in a form the steps use.
LEMMA Types ==
    ASSUME TypeOK
    PROVE  /\ question \in Seq(Names) /\ got \in Seq(OrgAnswer)
           /\ Len(question) \in Nat /\ Len(got) \in Nat /\ Len(got) <= Len(question)
           /\ step \in Nat
           /\ \A n \in Names : txt[n] \in Answers \cup {Unknown} /\ dns[n] \in Answers
           /\ DOMAIN txt = Names
           /\ Pending => /\ Current \in Names /\ Len(got) + 1 \in 1 .. Len(question)
                         /\ step + 1 \in 1 .. Len(Climb(Current))
                         /\ Target = Climb(Current)[step + 1] /\ Target \in Names
  <1>1. /\ question \in Seq(Names) /\ got \in Seq(OrgAnswer)
        /\ Len(question) \in Nat /\ Len(got) \in Nat /\ Len(got) <= Len(question)
    BY DEF TypeOK
  <1>2. step \in Nat /\ (Pending => step < Len(Climb(Current)))
    BY NameAssumption DEF TypeOK
  <1>3. /\ \A n \in Names : txt[n] \in Answers \cup {Unknown} /\ dns[n] \in Answers
        /\ DOMAIN txt = Names
    BY DEF TypeOK
  <1>4. ASSUME Pending
        PROVE  /\ Current \in Names /\ Len(got) + 1 \in 1 .. Len(question)
               /\ step + 1 \in 1 .. Len(Climb(Current))
               /\ Target = Climb(Current)[step + 1] /\ Target \in Names
    <2>1. Len(got) + 1 \in 1 .. Len(question)
      BY <1>1, <1>4 DEF Pending
    <2>2. Current \in Names
      BY <1>1, <2>1 DEF Current
    <2>3. step + 1 \in 1 .. Len(Climb(Current))
      BY <1>2, <1>4, <2>2, ClimbType
    <2> QED BY <2>1, <2>2, <2>3, ClimbType DEF Target
  <1> QED BY <1>1, <1>2, <1>3, <1>4

\* Where a walk that has met no record that ends it, except perhaps the one it
\* has just been told of, puts the organization.
LEMMA OrganizationType ==
    ASSUME NEW d \in Names, NEW last \in Nat, last < Len(Climb(d)), NEW records,
           \A f \in records : f.step \in 0 .. last /\ f.name \in Names /\ f.rec \in Record,
           \A f \in records : f.step < last => ~Ends(f.rec),
           Furthest(records)
    PROVE  OrganizationalDomain(Climb(d), records).org \in Names \cup {NoName}
  <1> DEFINE names == Climb(d)
             says == {f \in records : f.rec.psd = "n" \/ (f.rec.psd = "y" /\ f.step > 0)}
  <1>1. ASSUME says # {}
        PROVE  OrganizationalDomain(Climb(d), records).org \in Names
    <2>1. ASSUME NEW f \in says
          PROVE  f \in records /\ f.step = last
      <3>1. f \in records /\ Ends(f.rec)
        BY DEF Ends
      <3>2. f.step \in 0 .. last /\ ~(f.step < last)
        BY <3>1
      <3> QED BY <3>1, <3>2
    <2>2. First(says) \in says
      <3>1. PICK g \in says : TRUE
        BY <1>1
      <3>2. \A f \in says : g.step <= f.step
        BY <2>1
      <3> QED BY <3>1, <3>2 DEF First
    <2>3. CASE First(says).rec.psd = "n"
      BY <1>1, <2>1, <2>2, <2>3 DEF OrganizationalDomain
    <2>4. CASE First(says).rec.psd # "n"
      <3> DEFINE f == First(says)
      <3>0. f.step = last /\ f.step > 0
        BY <2>1, <2>2, <2>4
      <3>1. f.step \in 1 .. Len(names)
        <4> HIDE DEF f, names
        <4>1. Len(names) \in Nat
          BY ClimbType DEF names
        <4>2. last < Len(names)
          BY DEF names
        <4> QED BY <3>0, <4>1, <4>2
      <3>2. OrganizationalDomain(Climb(d), records).org = names[First(says).step]
        BY <1>1, <2>4 DEF OrganizationalDomain
      <3> QED BY <3>1, <3>2, ClimbType
    <2> QED BY <2>3, <2>4
  <1>2. ASSUME says = {}, records # {}
        PROVE  OrganizationalDomain(Climb(d), records).org \in Names
    <2>1. LastOf(records) \in records
      BY <1>2 DEF Furthest, LastOf
    <2> QED BY <1>2, <2>1 DEF OrganizationalDomain
  <1>3. says = {} /\ records = {} => OrganizationalDomain(Climb(d), records).org = NoName
    BY DEF OrganizationalDomain
  <1> QED BY <1>1, <1>2, <1>3

-----------------------------------------------------------------------------
(***************************************************************************)
(* What the walk does with an answer, whether it is recalled or new.       *)
(***************************************************************************)

\* The lookup of the walk's next name came to a.
Told(a) ==
    /\ Walking /\ Handle(a)
    /\ a \in Answers
    /\ txt' = [txt EXCEPT ![Target] = a]
    /\ txt[Target] \in {a, Unknown}
    /\ UNCHANGED <<said, calls>>
    /\ dns' = dns

\* The records found once a is among them.
With(a) == IF a \in Record THEN found \cup {Found(step, Target, a)} ELSE found
Over(a) == step + 1 = Len(Climb(Current)) \/ (a \in Record /\ Ends(a))

LEMMA RecordsType ==
    ASSUME TypeOK, WalkSound, Walking, NEW a \in Answers
    PROVE  /\ \A f \in With(a) : f.step \in 0 .. step /\ f.name \in Names /\ f.rec \in Record
           /\ \A f \in With(a) : f.step < step => ~Ends(f.rec)
           /\ Furthest(With(a))
           /\ With(a) \subseteq [step : 0 .. MaxLabels, name : Names, rec : Record]
  <1> DEFINE names == Climb(Current)
  <1>1. WalkSoFar /\ Pending
    BY DEF WalkSound, Walking
  <1>2. /\ Current \in Names /\ step + 1 \in 1 .. Len(names) /\ Target \in Names
        /\ step \in Nat
    BY <1>1, Types
  <1>3. /\ Len(names) \in Nat /\ Len(names) <= MaxLabels + 1
        /\ \A i \in 1 .. Len(names) : names[i] \in Names
    BY <1>2, ClimbType
  <1>4. step \in 0 .. MaxLabels
    BY <1>2, <1>3, NameAssumption
  <1>5. ASSUME NEW f \in found
        PROVE  /\ f.step \in 0 .. MaxLabels /\ f.step < step
               /\ f.name \in Names /\ f.rec \in Record /\ ~Ends(f.rec)
               /\ f \in [step : 0 .. MaxLabels, name : Names, rec : Record]
    <2>1. PICK i \in 1 .. step : /\ Publishes(txt, names[i])
                                 /\ f = Found(i - 1, names[i], txt[names[i]])
      BY <1>1 DEF WalkSoFar
    <2>2. f.step = i - 1 /\ f.name = names[i] /\ f.rec = txt[names[i]]
      BY <2>1 DEF Found
    <2>3. f.rec \in Record /\ ~Ends(f.rec)
      BY <1>1, <2>1, <2>2 DEF WalkSoFar, Publishes
    <2>4. f.name \in Names /\ f.step \in 0 .. MaxLabels /\ f.step < step
      BY <1>2, <1>3, <1>4, <2>2, NameAssumption
    <2> QED BY <2>1, <2>3, <2>4, <2>2 DEF Found
  <1> DEFINE new == Found(step, Target, a)
  <1>6. new.step = step /\ new.name = Target /\ new.rec = a
    BY DEF Found
  <1>7. a \in Record => new \in [step : 0 .. MaxLabels, name : Names, rec : Record]
    BY <1>2, <1>4 DEF Found
  <1>8. Furthest(With(a))
    <2>1. CASE a \in Record
      <3>1. new \in With(a) /\ \A g \in With(a) : g = new \/ g \in found
        BY <2>1 DEF With
      <3>2. \A g \in With(a) : new.step >= g.step
        <4> HIDE DEF new
        <4> QED BY <1>2, <1>5, <1>6, <3>1
      <3> QED BY <3>1, <3>2 DEF Furthest
    <2>2. CASE a \notin Record
      BY <1>1, <2>2 DEF With, WalkSoFar
    <2> QED BY <2>1, <2>2
  <1>9. \A f \in With(a) : f \in found \/ (f = new /\ a \in Record)
    BY DEF With
  <1> HIDE DEF new
  <1>10. \A f \in With(a) : f.step \in 0 .. step /\ f.name \in Names /\ f.rec \in Record
    BY <1>2, <1>5, <1>6, <1>9
  <1>11. \A f \in With(a) : f.step < step => ~Ends(f.rec)
    BY <1>2, <1>5, <1>6, <1>9
  <1>12. With(a) \subseteq [step : 0 .. MaxLabels, name : Names, rec : Record]
    BY <1>5, <1>7, <1>9
  <1> QED BY <1>8, <1>10, <1>11, <1>12

\* A walk that is over comes to what a walk of what is remembered comes to.
LEMMA OverIsWalk ==
    ASSUME TypeOK, WalkSound, Walking, NEW a \in Answers, a # Malformed, Over(a),
           NEW view, \A n \in Names : view[n] = IF n = Target THEN a ELSE txt[n],
           txt[Target] \in {a, Unknown}
    PROVE  /\ \A i \in Asked(view, Climb(Current)) : view[Climb(Current)[i]] \notin {Unknown, Malformed}
           /\ Walk(view, Climb(Current)) = With(a)
  <1> DEFINE names == Climb(Current)
             In(v, j) == Publishes(v, names[j]) /\ Ends(v[names[j]])
  <1>1. WalkSoFar /\ Pending
    BY DEF WalkSound, Walking
  <1>2. /\ Current \in Names /\ step + 1 \in 1 .. Len(names) /\ Target \in Names
        /\ step \in Nat /\ Target = names[step + 1]
    BY <1>1, Types
  <1>3. /\ DOMAIN names = 1 .. Len(names) /\ Len(names) \in Nat
        /\ \A i \in 1 .. Len(names) : names[i] \in Names
    BY <1>2, ClimbType
  <1>4. a # Unknown
    BY AlignerAssumption DEF Answers
  <1>5. \A i \in 1 .. step : /\ view[names[i]] = txt[names[i]]
                             /\ view[names[i]] \notin {Unknown, Malformed}
                             /\ ~In(view, i)
    <2>1. ASSUME NEW i \in 1 .. step
          PROVE  /\ view[names[i]] = txt[names[i]]
                 /\ view[names[i]] \notin {Unknown, Malformed}
                 /\ ~In(view, i)
      <3>1. i \in 1 .. Len(names) /\ names[i] \in Names
        BY <1>2, <1>3
      <3>2. txt[names[i]] \notin {Unknown, Malformed} /\ ~In(txt, i)
        BY <1>1 DEF WalkSoFar
      <3>3. view[names[i]] = txt[names[i]]
        BY <3>1, <3>2
      <3> QED BY <3>2, <3>3 DEF Publishes
    <2> QED BY <2>1
  <1>6. view[names[step + 1]] = a
    BY <1>2
  <1>7. Asked(view, names) = 1 .. step + 1
    <2>1. Asked(view, names) = {i \in 1 .. Len(names) : \A j \in 1 .. (i - 1) : ~In(view, j)}
      BY <1>3 DEF Asked
    <2>2. ASSUME NEW i \in 1 .. step + 1
          PROVE  i \in 1 .. Len(names) /\ \A j \in 1 .. (i - 1) : ~In(view, j)
      BY <1>2, <1>3, <1>5
    <2>3. ASSUME NEW i \in 1 .. Len(names), \A j \in 1 .. (i - 1) : ~In(view, j), i > step + 1
          PROVE  FALSE
      <3>1. ~In(view, step + 1)
        BY <1>2, <1>3, <2>3
      <3>2. ~(a \in Record /\ Ends(a))
        BY <1>6, <3>1 DEF Publishes
      <3>3. step + 1 = Len(names)
        BY <3>2 DEF Over
      <3> HIDE DEF names, In
      <3> QED BY <1>2, <1>3, <2>3, <3>3
    <2> HIDE DEF In, names
    <2>4. \A i \in 1 .. Len(names) : i > step + 1 \/ i \in 1 .. step + 1
      BY <1>2, <1>3
    <2> QED BY <2>1, <2>2, <2>3, <2>4
  <1>8. \A i \in 1 .. step + 1 : i \in 1 .. step \/ i = step + 1
    BY <1>2
  <1>9. \A i \in Asked(view, names) : view[names[i]] \notin {Unknown, Malformed}
    BY <1>4, <1>5, <1>6, <1>7, <1>8
  <1>10. Walk(view, names) = With(a)
    <2>1. Walk(view, names) = {Found(i - 1, names[i], view[names[i]]) :
                                 i \in {j \in 1 .. step + 1 : Publishes(view, names[j])}}
      BY <1>7 DEF Walk
    <2>2. found = {Found(i - 1, names[i], view[names[i]]) :
                     i \in {j \in 1 .. step : Publishes(view, names[j])}}
      BY <1>1, <1>5 DEF WalkSoFar, Publishes
    <2>3. Publishes(view, names[step + 1]) <=> a \in Record
      BY <1>6 DEF Publishes
    <2>4. 1 .. step + 1 = (1 .. step) \cup {step + 1}
      BY <1>2
    <2> DEFINE F(i) == Found(i - 1, names[i], view[names[i]])
               P(i) == Publishes(view, names[i])
    <2>5. Walk(view, names) = {F(i) : i \in {j \in 1 .. step + 1 : P(j)}}
      BY <2>1
    <2>6. found = {F(i) : i \in {j \in 1 .. step : P(j)}}
      BY <2>2
    <2>7. F(step + 1) = Found(step, Target, a)
      BY <1>2, <1>6 DEF Found
    <2>8. P(step + 1) <=> a \in Record
      BY <2>3
    <2> HIDE DEF F, P, names
    <2>9. Walk(view, names) = IF P(step + 1) THEN found \cup {F(step + 1)} ELSE found
      BY <2>4, <2>5, <2>6
    <2> QED BY <2>7, <2>8, <2>9 DEF With
  <1> QED BY <1>9, <1>10

-----------------------------------------------------------------------------
\* What the question and the earlier ones were told stays true as more is
\* remembered.
LEMMA ToldStays ==
    ASSUME TypeOK, ToldSound, OneView, Extends(txt', txt), question' = question,
           got' = got, orgs' = orgs, said' = said
    PROVE  ToldSound' /\ OneView'
  <1>1. ASSUME NEW d \in Names, NEW o, Learned(d, o)
        PROVE  Learned(d, o)'
    BY <1>1, LearnedStays DEF Learned
  <1>2. \A i \in 1 .. Len(got) : question[i] \in Names
    <2>1. question \in Seq(Names) /\ Len(got) \in Nat /\ Len(got) <= Len(question)
      BY Types
    <2>2. \A i \in 1 .. Len(got) : i \in 1 .. Len(question)
      BY <2>1
    <2> QED BY <2>1, <2>2
  <1>3. ASSUME NEW i \in 1 .. Len(got)
        PROVE  Learned(question[i], got[i])'
    <2>1. PICK d \in Names : d = question[i]
      BY <1>2
    <2>2. PICK o : o = got[i]
      OBVIOUS
    <2>3. Learned(d, o)
      BY <2>1, <2>2 DEF ToldSound
    <2>4. Learned(d, o)'
      BY <1>1, <2>3
    <2> QED BY <2>1, <2>2, <2>4
  <1>4. ASSUME NEW d \in Names, orgs[d] # Unknown
        PROVE  Learned(d, orgs[d])'
    <2>1. PICK o : o = orgs[d]
      OBVIOUS
    <2>2. Learned(d, o)'
      BY <1>1, <1>4, <2>1 DEF OneView
    <2> QED BY <2>1, <2>2
  <1>5. ASSUME NEW v \in said, NEW i \in DOMAIN v.names
        PROVE  Learned(v.names[i], v.orgs[i])'
    <2>1. v.names[i] \in Names
      BY DEF ToldSound
    <2> QED BY <1>1, <2>1 DEF OneView
  <1> QED BY <1>3, <1>4, <1>5 DEF ToldSound, OneView

-----------------------------------------------------------------------------
(***************************************************************************)
(* One step for each outcome of a lookup.                                  *)
(***************************************************************************)

\* Nothing of the question is left when it is given up.
LEMMA AbortStep ==
    ASSUME IInv, Abort, Extends(txt', txt), said' = said, dns' = dns,
           txt' \in [Names -> Answers \cup {Unknown}]
    PROVE  IInv'
  <1>1. /\ question' = <<>> /\ got' = <<>> /\ step' = 0 /\ found' = {} /\ orgs' = orgs
    BY DEF Abort
  <1>2. Len(<<>>) = 0
    OBVIOUS
  <1>3. ~Pending'
    BY <1>1, <1>2 DEF Pending
  <1>4. TypeOK'
    BY <1>1, <1>2, <1>3, NameAssumption DEF IInv, TypeOK
  <1>5. WalkSound'
    BY <1>1, <1>3 DEF WalkSound, Walking
  <1>6. OneView'
    <2>1. ASSUME NEW d \in Names, NEW o, Learned(d, o)
          PROVE  Learned(d, o)'
      BY <2>1, LearnedStays DEF Learned
    <2>2. ASSUME NEW d \in Names, orgs[d] # Unknown
          PROVE  Learned(d, orgs[d])'
      <3>1. PICK o : o = orgs[d]
        OBVIOUS
      <3>2. Learned(d, o)'
        BY <2>1, <2>2, <3>1 DEF OneView, IInv
      <3> QED BY <1>1, <3>1, <3>2
    <2>3. ASSUME NEW v \in said, NEW j \in DOMAIN v.names
          PROVE  Learned(v.names[j], v.orgs[j])'
      <3>1. v.names[j] \in Names
        BY DEF IInv, ToldSound
      <3> QED BY <2>1, <3>1 DEF OneView, IInv
    <2> QED BY <1>1, <2>2, <2>3 DEF OneView
  <1>7. ToldSound'
    BY <1>1, <1>2 DEF IInv, ToldSound
  <1> QED BY <1>4, <1>5, <1>6, <1>7 DEF IInv

\* A walk goes on to its next name.
LEMMA ContinueStep ==
    ASSUME IInv, NEW a, Told(a), a # Malformed, ~Over(a), Continue(With(a))
    PROVE  IInv'
  <1> DEFINE names == Climb(Current)
  <1>0. TypeOK /\ WalkSound /\ ToldSound /\ OneView /\ Walking /\ Pending /\ WalkSoFar
        /\ a \in Answers /\ a # Unknown
    BY AlignerAssumption DEF IInv, Told, WalkSound, Walking, Answers
  <1>1. /\ Current \in Names /\ step + 1 \in 1 .. Len(names) /\ Target \in Names
        /\ step \in Nat /\ Target = names[step + 1]
    BY <1>0, Types
  <1>2. /\ Len(names) \in Nat /\ Len(names) <= MaxLabels + 1
        /\ \A i \in 1 .. Len(names) : names[i] \in Names
    BY <1>1, ClimbType
  <1>3. /\ step' = step + 1 /\ found' = With(a)
        /\ UNCHANGED <<orgs, question, got, said, dns>>
        /\ txt' = [txt EXCEPT ![Target] = a] /\ txt[Target] \in {a, Unknown}
    BY DEF Continue, Told
  <1>4. Current' = Current /\ Pending' /\ Walking'
    BY <1>0, <1>3 DEF Current, Pending, Walking
  <1>5. /\ txt' \in [Names -> Answers \cup {Unknown}]
        /\ \A n \in Names : txt'[n] = IF n = Target THEN a ELSE txt[n]
    BY <1>0, <1>1, <1>3 DEF TypeOK
  <1>6. Extends(txt', txt)
    BY <1>3, <1>5 DEF Extends
  <1>7. step + 1 < Len(names)
    <2>1. step + 1 # Len(names)
      BY DEF Over
    <2> HIDE DEF names
    <2> QED BY <1>1, <1>2, <2>1
  <1>8. TypeOK'
    <2>1. found' \subseteq [step : 0 .. MaxLabels, name : Names, rec : Record]
      BY <1>0, <1>3, RecordsType
    <2>2. step' \in 0 .. MaxLabels
      <3> HIDE DEF names
      <3> QED BY <1>1, <1>2, <1>3, <1>7, NameAssumption
    <2> QED BY <1>0, <1>3, <1>4, <1>5, <1>7, <2>1, <2>2 DEF TypeOK
  <1>9. WalkSound'
    <2> DEFINE P(i) == Publishes(txt', names[i])
               F(i) == Found(i - 1, names[i], txt'[names[i]])
    <2>1. ASSUME NEW i \in 1 .. step
          PROVE  /\ txt'[names[i]] = txt[names[i]]
                 /\ txt'[names[i]] \notin {Unknown, Malformed}
                 /\ ~(P(i) /\ Ends(txt'[names[i]]))
      <3>1. i \in 1 .. Len(names) /\ names[i] \in Names
        BY <1>1, <1>2
      <3>2. /\ txt[names[i]] \notin {Unknown, Malformed}
            /\ ~(Publishes(txt, names[i]) /\ Ends(txt[names[i]]))
        BY <1>0 DEF WalkSoFar
      <3>3. txt'[names[i]] = txt[names[i]]
        BY <1>6, <3>1, <3>2 DEF Extends
      <3> QED BY <3>2, <3>3 DEF Publishes
    <2>2. /\ txt'[names[step + 1]] = a /\ a \notin {Unknown, Malformed}
          /\ ~(a \in Record /\ Ends(a))
      BY <1>0, <1>1, <1>5 DEF Over
    <2>3. \A i \in 1 .. step + 1 : i \in 1 .. step \/ i = step + 1
      BY <1>1
    <2>4. \A i \in 1 .. step + 1 : /\ txt'[names[i]] \notin {Unknown, Malformed}
                                   /\ ~(P(i) /\ Ends(txt'[names[i]]))
      BY <2>1, <2>2, <2>3 DEF Publishes
    <2>5. found = {F(i) : i \in {j \in 1 .. step : P(j)}}
      BY <1>0, <2>1 DEF WalkSoFar, Publishes
    <2>6. F(step + 1) = Found(step, Target, a)
      BY <1>1, <2>2 DEF Found
    <2>7. P(step + 1) <=> a \in Record
      BY <2>2 DEF Publishes
    <2>8. 1 .. step + 1 = (1 .. step) \cup {step + 1}
      BY <1>1
    <2>9. found' = {F(i) : i \in {j \in 1 .. step + 1 : P(j)}}
      <3> HIDE DEF F, P, names
      <3> QED BY <1>3, <2>5, <2>6, <2>7, <2>8 DEF With
    <2>10. Furthest(found')
      BY <1>0, <1>3, RecordsType
    <2>11. WalkSoFar'
      BY <1>3, <1>4, <1>7, <2>4, <2>9, <2>10 DEF WalkSoFar
    <2> QED BY <1>4, <2>11 DEF WalkSound
  <1>10. ToldSound' /\ OneView'
    BY <1>0, <1>3, <1>6, ToldStays
  <1> QED BY <1>8, <1>9, <1>10 DEF IInv

\* Before its first lookup a walk has found nothing, and is not over.
LEMMA FreshWalk ==
    ASSUME question' \in Seq(Names), got' \in Seq(OrgAnswer), Len(got') <= Len(question'),
           step' = 0, found' = {}
    PROVE  WalkSound' /\ (Pending' => step' < Len(Climb(Current)'))
  <1>1. ASSUME Pending'
        PROVE  Current' \in Names /\ Len(Climb(Current)') > 0
    <2>1. Len(got') + 1 \in 1 .. Len(question')
      BY <1>1 DEF Pending
    <2>2. Current' \in Names
      BY <2>1 DEF Current
    <2>3. \A d \in Names : Len(Climb(d)) > 0
      BY ClimbType
    <2>4. \A d : Climb(d)' = Climb(d)
      BY DEF Climb, TreeWalkNames, Suffix
    <2> QED BY <2>2, <2>3, <2>4
  <1>2. WalkSound'
    BY <1>1 DEF WalkSound, WalkSoFar, Walking, Furthest
  <1> QED BY <1>1, <1>2

\* A walk is over, and its answer is remembered and used.
LEMMA ConcludeStep ==
    ASSUME IInv, NEW a, Told(a), a # Malformed, Over(a), Conclude(With(a))
    PROVE  IInv'
  <1> DEFINE ans == OrgWalk(txt', Current)
  <1>0. TypeOK /\ WalkSound /\ ToldSound /\ OneView /\ Walking /\ Pending /\ a \in Answers
    BY DEF IInv, Told, Walking
  <1>1. /\ Current \in Names /\ Target \in Names /\ step \in Nat
        /\ step < Len(Climb(Current))
        /\ question \in Seq(Names) /\ got \in Seq(OrgAnswer)
        /\ Len(question) \in Nat /\ Len(got) \in Nat /\ Len(got) + 1 \in 1 .. Len(question)
    BY <1>0, Types DEF TypeOK
  <1>2. /\ txt' \in [Names -> Answers \cup {Unknown}]
        /\ \A n \in Names : txt'[n] = IF n = Target THEN a ELSE txt[n]
        /\ txt[Target] \in {a, Unknown} /\ UNCHANGED <<said, dns>>
    BY <1>0, <1>1 DEF TypeOK, Told
  <1>3. Extends(txt', txt)
    BY <1>2 DEF Extends
  <1>4. /\ \A i \in Asked(txt', Climb(Current)) : txt'[Climb(Current)[i]] \notin {Unknown, Malformed}
        /\ Walk(txt', Climb(Current)) = With(a)
    BY <1>0, <1>2, OverIsWalk
  <1>5. /\ ans = IF OrganizationalDomain(Climb(Current), With(a)).org = NoName
                 THEN [org |-> Current, published |-> FALSE]
                 ELSE [org |-> OrganizationalDomain(Climb(Current), With(a)).org, published |-> TRUE]
    BY <1>4 DEF OrgWalk
  <1>6. /\ orgs' = [orgs EXCEPT ![Current] = ans] /\ got' = Append(got, ans)
        /\ step' = 0 /\ found' = {} /\ question' = question
    BY <1>5 DEF Conclude
  <1>7. ans \in OrgAnswer
    <2>1. OrganizationalDomain(Climb(Current), With(a)).org \in Names \cup {NoName}
      BY <1>0, <1>1, RecordsType, OrganizationType
    <2> QED BY <1>1, <1>5, <2>1 DEF OrgAnswer
  <1> HIDE DEF ans
  <1>8. /\ got' \in Seq(OrgAnswer) /\ Len(got') = Len(got) + 1 /\ Len(got') <= Len(question')
        /\ \A i \in 1 .. Len(got) : got'[i] = got[i]
        /\ got'[Len(got) + 1] = ans
    BY <1>1, <1>6, <1>7
  <1>9. WalkSound' /\ (Pending' => step' < Len(Climb(Current)'))
    BY <1>1, <1>6, <1>8, FreshWalk
  <1>10. TypeOK'
    <2>1. orgs' \in [Names -> OrgAnswer \cup {Unknown}]
      BY <1>0, <1>6, <1>7 DEF TypeOK
    <2>2. step' \in 0 .. MaxLabels
      BY <1>6, NameAssumption
    <2> QED BY <1>0, <1>1, <1>2, <1>6, <1>8, <1>9, <2>1, <2>2 DEF TypeOK
  <1>11. ASSUME NEW d \in Names, NEW o, Learned(d, o)
         PROVE  Learned(d, o)'
    BY <1>3, <1>11, LearnedStays DEF Learned
  <1>12. PICK d0, o0 : d0 \in Names /\ d0 = Current /\ o0 = ans
    BY <1>1
  <1>13. Learned(d0, o0)'
    BY <1>4, <1>12 DEF Learned, ans
  <1>14. \A i \in 1 .. Len(got) : question[i] \in Names
    BY <1>1
  <1>15. ASSUME NEW i \in 1 .. Len(got')
         PROVE  Learned(question[i], got[i])'
    <2>1. CASE i \in 1 .. Len(got)
      <3>1. PICK d, o : d \in Names /\ d = question[i] /\ o = got[i] /\ Learned(d, o)
        BY <1>0, <1>14, <2>1 DEF ToldSound
      <3>2. Learned(d, o)'
        BY <1>11, <3>1
      <3>3. d = question'[i] /\ o = got'[i]
        BY <1>6, <1>8, <2>1, <3>1
      <3> QED BY <3>2, <3>3
    <2>2. CASE i = Len(got) + 1
      <3>1. d0 = question'[i] /\ o0 = got'[i]
        BY <1>6, <1>8, <1>12, <2>2 DEF Current
      <3> QED BY <1>13, <3>1
    <2> QED BY <1>1, <1>8, <2>1, <2>2
  <1>16. ASSUME NEW d \in Names, orgs'[d] # Unknown
         PROVE  Learned(d, orgs[d])'
    <2>1. CASE d = Current
      <3>1. d = d0 /\ orgs'[d] = o0
        BY <1>0, <1>1, <1>6, <1>12, <2>1 DEF TypeOK
      <3> QED BY <1>13, <3>1
    <2>2. CASE d # Current
      <3>1. PICK o : o = orgs[d] /\ Learned(d, o)
        BY <1>0, <1>6, <1>16, <2>2 DEF OneView, TypeOK
      <3>2. Learned(d, o)' /\ orgs'[d] = o
        BY <1>0, <1>6, <1>11, <2>2, <3>1 DEF TypeOK
      <3> QED BY <3>2
    <2> QED BY <2>1, <2>2
  <1>17. ASSUME NEW v \in said, NEW i \in DOMAIN v.names
         PROVE  Learned(v.names[i], v.orgs[i])'
    <2>1. v.names[i] \in Names
      BY <1>0 DEF ToldSound
    <2> QED BY <1>0, <1>11, <2>1 DEF OneView
  <1>18. OneView'
    BY <1>2, <1>16, <1>17 DEF OneView
  <1>19. ToldSound'
    BY <1>0, <1>2, <1>15 DEF ToldSound
  <1> QED BY <1>9, <1>10, <1>18, <1>19 DEF IInv

\* Whatever a lookup comes to.
LEMMA ToldStep ==
    ASSUME IInv, NEW a, Told(a)
    PROVE  IInv'
  <1>1. a \in Answers /\ TypeOK /\ Walking /\ Pending
    BY DEF Told, IInv, Walking
  <1>2. Target \in Names
    BY <1>1, Types
  <1>3. /\ txt' \in [Names -> Answers \cup {Unknown}] /\ Extends(txt', txt)
        /\ said' = said /\ dns' = dns
    BY <1>1, <1>2 DEF Told, TypeOK, Extends
  <1>4. CASE a = Malformed
    BY <1>3, <1>4, AbortStep DEF Told, Handle
  <1>5. CASE a # Malformed /\ Over(a)
    BY <1>5, ConcludeStep DEF Told, Handle, Over, With
  <1>6. CASE a # Malformed /\ ~Over(a)
    BY <1>6, ContinueStep DEF Told, Handle, Over, With
  <1> QED BY <1>4, <1>5, <1>6

LEMMA AskStep == IInv /\ Ask => IInv'
  <1> SUFFICES ASSUME IInv, Ask
               PROVE  IInv'
    OBVIOUS
  <1>0. TypeOK /\ WalkSound /\ ToldSound /\ OneView
    BY DEF IInv
  <1>1. /\ question = <<>>
        /\ UNCHANGED <<dns, txt, orgs, got, step, found, said>>
        /\ question' \in Seq(Names)
    <2>1. \A d \in Subjects : d \in Names
      BY AlignerAssumption
    <2>2. \A d, e \in Names : <<d>> \in Seq(Names) /\ <<d, e>> \in Seq(Names)
      OBVIOUS
    <2> QED BY <2>1, <2>2 DEF Ask
  <1>2. Len(question) = 0 /\ Len(got) = 0 /\ got \in Seq(OrgAnswer) /\ ~Pending
    <2>1. Len(<<>>) = 0
      OBVIOUS
    <2> QED BY <1>0, <1>1, <2>1, Types DEF Pending
  <1>3. step = 0 /\ found = {}
    BY <1>0, <1>2 DEF WalkSound, Walking
  <1>4. Len(got') <= Len(question')
    BY <1>1, <1>2
  <1>5. WalkSound' /\ (Pending' => step' < Len(Climb(Current)'))
    BY <1>1, <1>2, <1>3, <1>4, FreshWalk
  <1>6. TypeOK'
    BY <1>0, <1>1, <1>2, <1>4, <1>5 DEF TypeOK
  <1>7. ToldSound' /\ OneView'
    BY <1>0, <1>1, <1>2 DEF ToldSound, OneView, Learned
  <1> QED BY <1>5, <1>6, <1>7 DEF IInv

LEMMA WalkedBeforeStep == IInv /\ WalkedBefore => IInv'
  <1> SUFFICES ASSUME IInv, WalkedBefore
               PROVE  IInv'
    OBVIOUS
  <1>0. TypeOK /\ WalkSound /\ ToldSound /\ OneView /\ Pending /\ ~Walking
    BY DEF IInv, WalkedBefore, Walking
  <1>1. /\ Current \in Names /\ Current = question[Len(got) + 1]
        /\ question \in Seq(Names) /\ got \in Seq(OrgAnswer)
        /\ Len(question) \in Nat /\ Len(got) \in Nat /\ Len(got) + 1 \in 1 .. Len(question)
    BY <1>0, Types DEF Current
  <1> DEFINE ans == orgs[Current]
  <1>2. /\ got' = Append(got, ans) /\ ans # Unknown
        /\ UNCHANGED <<dns, txt, orgs, question, step, found, said>>
    BY DEF WalkedBefore
  <1>3. ans \in OrgAnswer
    BY <1>0, <1>1, <1>2 DEF TypeOK
  <1>4. Learned(Current, ans)
    BY <1>0, <1>1, <1>2 DEF OneView
  <1> HIDE DEF ans
  <1>5. /\ got' \in Seq(OrgAnswer) /\ Len(got') = Len(got) + 1 /\ Len(got') <= Len(question')
        /\ \A i \in 1 .. Len(got) : got'[i] = got[i]
        /\ got'[Len(got) + 1] = ans
    BY <1>1, <1>2, <1>3
  <1>6. step = 0 /\ found = {}
    BY <1>0 DEF WalkSound
  <1>7. WalkSound' /\ (Pending' => step' < Len(Climb(Current)'))
    BY <1>1, <1>2, <1>5, <1>6, FreshWalk
  <1>8. TypeOK'
    BY <1>0, <1>2, <1>5, <1>7 DEF TypeOK
  <1>9. \A i \in 1 .. Len(got') : Learned(question[i], got'[i])
    <2>1. \A i \in 1 .. Len(got') : i \in 1 .. Len(got) \/ i = Len(got) + 1
      BY <1>1, <1>5
    <2> QED BY <1>0, <1>1, <1>4, <1>5, <2>1 DEF ToldSound
  <1>10. ToldSound' /\ OneView'
    BY <1>0, <1>2, <1>9 DEF ToldSound, OneView, Learned
  <1> QED BY <1>7, <1>8, <1>10 DEF IInv

LEMMA ReplyStep == IInv /\ Reply => IInv'
  <1> SUFFICES ASSUME IInv, Reply
               PROVE  IInv'
    OBVIOUS
  <1>0. TypeOK /\ WalkSound /\ ToldSound /\ OneView /\ ~Pending
    BY DEF IInv, Reply
  <1>1. /\ said' = said \cup {[names |-> question, orgs |-> got]}
        /\ question' = <<>> /\ got' = <<>>
        /\ UNCHANGED <<dns, txt, orgs, step, found>>
    BY DEF Reply
  <1>2. Len(<<>>) = 0
    OBVIOUS
  <1>3. step = 0 /\ found = {}
    BY <1>0 DEF WalkSound, Walking
  <1>4. ~Pending'
    BY <1>1, <1>2 DEF Pending
  <1>5. WalkSound' /\ TypeOK'
    BY <1>0, <1>1, <1>2, <1>3, <1>4 DEF WalkSound, Walking, TypeOK
  <1>6. question \in Seq(Names) /\ DOMAIN question = 1 .. Len(got)
    BY <1>0, Types DEF Pending
  <1>7. \A i \in DOMAIN question : Learned(question[i], got[i])
    BY <1>0, <1>6 DEF ToldSound
  <1>8. ToldSound'
    BY <1>0, <1>1, <1>2, <1>6 DEF ToldSound
  <1>9. OneView'
    BY <1>0, <1>1, <1>7 DEF OneView, Learned
  <1> QED BY <1>5, <1>8, <1>9 DEF IInv

LEMMA LookupStep == IInv /\ (Recalled \/ Answered \/ Unanswered) => IInv'
  <1> SUFFICES ASSUME IInv, Recalled \/ Answered \/ Unanswered
               PROVE  IInv'
    OBVIOUS
  <1>0. TypeOK /\ Walking /\ Pending
    BY DEF IInv, Recalled, Answered, Unanswered, Walking
  <1>1. Target \in Names /\ txt[Target] \in Answers \cup {Unknown} /\ dns[Target] \in Answers
    BY <1>0, Types
  <1>2. CASE Recalled
    <2>1. PICK a \in Answers : a = txt[Target]
      BY <1>1, <1>2 DEF Recalled
    <2>2. txt' = [txt EXCEPT ![Target] = a]
      BY <1>0, <1>2, <2>1 DEF Recalled, TypeOK
    <2>3. Told(a)
      BY <1>2, <2>1, <2>2 DEF Recalled, Told
    <2> QED BY <2>3, ToldStep
  <1>3. CASE Answered
    <2>1. PICK a \in Answers : a = dns[Target]
      BY <1>1
    <2>2. Told(a)
      BY <1>3, <2>1 DEF Answered, Told
    <2> QED BY <2>2, ToldStep
  <1>4. CASE Unanswered
    <2>1. Extends(txt', txt) /\ txt' \in [Names -> Answers \cup {Unknown}] /\ Abort
          /\ said' = said /\ dns' = dns
      BY <1>0, <1>4 DEF Unanswered, Extends, TypeOK
    <2> QED BY <2>1, AbortStep
  <1> QED BY <1>2, <1>3, <1>4

LEMMA Invariance == Spec => []IInv
  <1>1. Init => IInv
    <2> SUFFICES ASSUME Init
                 PROVE  IInv
      OBVIOUS
    <2>1. Len(<<>>) = 0 /\ <<>> \in Seq(Names) /\ <<>> \in Seq(OrgAnswer)
      OBVIOUS
    <2>2. ~Pending
      BY <2>1 DEF Init, Pending
    <2>3. dns \in [Names -> Answers]
      BY AlignerAssumption DEF Init, Answers
    <2>4. TypeOK
      BY <2>1, <2>2, <2>3, NameAssumption DEF Init, TypeOK
    <2>5. WalkSound /\ ToldSound /\ OneView
      BY <2>1, <2>2 DEF Init, WalkSound, Walking, ToldSound, OneView
    <2> QED BY <2>4, <2>5 DEF IInv
  <1>2. IInv /\ [Next]_vars => IInv'
    <2> SUFFICES ASSUME IInv, [Next]_vars
                 PROVE  IInv'
      OBVIOUS
    <2>1. CASE Publish
      <3>1. dns' \in [Names -> Answers]
        BY <2>1, AlignerAssumption DEF Publish, Answers
      <3>2. UNCHANGED <<txt, orgs, question, got, step, found, said>>
        BY <2>1 DEF Publish
      <3> QED BY <3>1, <3>2
              DEF IInv, TypeOK, WalkSound, WalkSoFar, ToldSound, OneView, Learned,
                  Pending, Walking, Current
    <2>2. CASE UNCHANGED vars
      BY <2>2 DEF vars, IInv, TypeOK, WalkSound, WalkSoFar, ToldSound, OneView, Learned,
                  Pending, Walking, Current
    <2> QED BY <2>1, <2>2, AskStep, WalkedBeforeStep, LookupStep, ReplyStep DEF Next
  <1> QED BY <1>1, <1>2, PTL DEF Spec

-----------------------------------------------------------------------------
\* The types of Aligner's variables; no walk goes past its last name.
THEOREM TypeCorrect == Spec => []TypeOK
  BY Invariance, PTL DEF IInv

\* All that an Aligner ever says is true of what it remembers (memoResolver and
\* walked, align.go), however the zones change and whatever goes unanswered.
THEOREM EverythingSaidIsOneView == Spec => []OneView
  BY Invariance, PTL DEF IInv

-----------------------------------------------------------------------------
(***************************************************************************)
(* Names and their ancestors.                                              *)
(***************************************************************************)

\* A name has labels, and its ancestors are names.
LEMMA NameShape ==
    /\ MaxLabels \in Nat \ {0} /\ NoName \notin Names
    /\ \A d \in Names : /\ Len(d) \in Nat \ {0}
                        /\ \A n \in 1 .. Len(d) : Suffix(d, n) \in Names
  <1> DEFINE Labelled(d) == d \in Seq({d[i] : i \in 1 .. Len(d)})
  <1>1. /\ \A d \in Names : /\ Len(d) \in Nat \ {0}
                            /\ Labelled(d)
                            /\ \A n \in 1 .. Len(d) : Suffix(d, n) \in Names
        /\ MaxLabels \in Nat \ {0} /\ NoName \notin Names
    BY NameAssumption
  <1> HIDE DEF Labelled
  <1> QED BY <1>1

\* The last labels of a name, and the last of those.
LEMMA SuffixType ==
    ASSUME NEW d \in Names, NEW m \in 1 .. Len(d)
    PROVE  /\ Suffix(d, m) \in Names /\ Len(Suffix(d, m)) = m
           /\ \A k \in 1 .. m : Suffix(Suffix(d, m), k) = Suffix(d, k)
  <1> DEFINE labels == {d[i] : i \in 1 .. Len(d)}
             b == Len(d) - m
             u == Suffix(d, m)
  <1>1. Len(d) \in Nat \ {0} /\ u \in Names /\ m \in Nat \ {0} /\ b \in Nat
    BY NameShape
  <1>2. \A i \in b + 1 .. Len(d) : d[i] \in labels
    BY <1>1
  <1>3. u = SubSeq(d, b + 1, Len(d))
    BY <1>1 DEF Suffix
  <1>4. Len(u) = m /\ \A i \in 1 .. m : u[i] = d[b + i]
    <2>0. b + 1 \in Int /\ Len(d) \in Int /\ b + 1 <= Len(d)
      BY <1>1
    <2>2. Len(d) - (b + 1) + 1 = m
      BY <1>1
    <2>3. \A i \in 1 .. m : (b + 1) + i - 1 = b + i
      BY <1>1
    <2> HIDE DEF labels, u, b
    <2>1. /\ Len(u) = Len(d) - (b + 1) + 1
          /\ \A i \in 1 .. Len(d) - (b + 1) + 1 : u[i] = d[(b + 1) + i - 1]
      <3> DEFINE from == b + 1
                 to == Len(d)
      <3>1. /\ from \in Int /\ to \in Int /\ from <= to /\ u = SubSeq(d, from, to)
            /\ \A i \in from .. to : d[i] \in labels
        BY <1>2, <1>3, <2>0
      <3> HIDE DEF from, to
      <3>2. /\ Len(u) = to - from + 1
            /\ \A i \in 1 .. to - from + 1 : u[i] = d[from + i - 1]
        BY <3>1, SubSeqProperties
      <3> QED BY <3>2 DEF from, to
    <2> QED BY <2>1, <2>2, <2>3
  <1>5. ASSUME NEW k \in 1 .. m
        PROVE  Suffix(u, k) = Suffix(d, k)
    <2> HIDE DEF labels, u
    <2>1. Suffix(u, k) = [i \in 1 .. k |-> u[m - k + i]]
      <3>1. Suffix(u, k) = SubSeq(u, m - k + 1, m)
        BY <1>4 DEF Suffix
      <3> QED BY <1>1, <3>1
    <2>2. Suffix(d, k) = [i \in 1 .. k |-> d[Len(d) - k + i]]
      <3>1. Suffix(d, k) = SubSeq(d, Len(d) - k + 1, Len(d))
        BY DEF Suffix
      <3> QED BY <1>1, <3>1
    <2>3. \A i \in 1 .. k : u[m - k + i] = d[Len(d) - k + i]
      BY <1>1, <1>4
    <2> QED BY <2>1, <2>2, <2>3
  <1> QED BY <1>1, <1>4, <1>5

\* All of its labels are the name.
LEMMA WholeName ==
    ASSUME NEW d \in Names
    PROVE  Suffix(d, Len(d)) = d
  <1> DEFINE labels == {d[i] : i \in 1 .. Len(d)}
  <1>1. Len(d) \in Nat \ {0} /\ d \in Seq(labels)
    BY NameAssumption
  <1> HIDE DEF labels
  <1>2. Suffix(d, Len(d)) = SubSeq(d, 1, Len(d))
    BY <1>1 DEF Suffix
  <1>3. SubSeq(d, 1, Len(d)) = [i \in 1 .. Len(d) |-> d[i]]
    BY <1>1
  <1>4. d = [i \in 1 .. Len(d) |-> d[i]]
    BY <1>1
  <1> QED BY <1>2, <1>3, <1>4

\* How far above itself a name is asked about.
Height(d) == IF Len(d) - 1 > MaxLabels THEN MaxLabels ELSE Len(d) - 1

\* The names a walk asks, one by one: the name, and its ancestors from the one
\* of Height(d) labels to that of one.
LEMMA ClimbNames ==
    ASSUME NEW d \in Names
    PROVE  /\ Height(d) \in Nat /\ Height(d) < Len(d) /\ Height(d) <= MaxLabels
           /\ Len(Climb(d)) = Height(d) + 1
           /\ Climb(d)[1] = d
           /\ \A k \in 2 .. Height(d) + 1 : Climb(d)[k] = Suffix(d, Height(d) - k + 2)
           /\ TreeWalkNames(d) \in Seq(Names) /\ Len(TreeWalkNames(d)) = Height(d)
           /\ \A k \in 1 .. Height(d) : TreeWalkNames(d)[k] = Climb(d)[k + 1]
  <1> DEFINE h == Height(d)
             above == [i \in 1 .. h |-> Suffix(d, h - i + 1)]
  <1>1. h \in Nat /\ h < Len(d) /\ h <= MaxLabels /\ Len(d) \in Nat
    BY NameShape DEF Height
  <1>2. above = TreeWalkNames(d)
    BY DEF Height, TreeWalkNames
  <1> HIDE DEF h
  <1>3. \A i \in 1 .. h : h - i + 1 \in 1 .. Len(d)
    BY <1>1
  <1>4. \A i \in 1 .. h : Suffix(d, h - i + 1) \in Names
    BY <1>3, NameAssumption
  <1>5. above \in Seq(Names) /\ Len(above) = h
    BY <1>1, <1>4
  <1>6. Climb(d) = <<d>> \o above
    BY <1>2 DEF Climb
  <1>7. \A k \in 1 .. h : above[k] = Suffix(d, h - k + 1)
    OBVIOUS
  <1> HIDE DEF above
  <1>8. <<d>> \in Seq(Names) /\ Len(<<d>>) = 1 /\ <<d>>[1] = d
    OBVIOUS
  <1>9. /\ Len(Climb(d)) = 1 + h
        /\ \A i \in 1 .. 1 + h : Climb(d)[i] = IF i <= 1 THEN <<d>>[i] ELSE above[i - 1]
    BY <1>1, <1>5, <1>6, <1>8, ConcatProperties
  <1>10. \A k \in 1 .. h : above[k] = Climb(d)[k + 1]
    BY <1>1, <1>9
  <1>11. \A k \in 2 .. h + 1 : Climb(d)[k] = Suffix(d, h - k + 2)
    <2> SUFFICES ASSUME NEW k \in 2 .. h + 1
                 PROVE  Climb(d)[k] = Suffix(d, h - k + 2)
      OBVIOUS
    <2>1. k - 1 \in 1 .. h /\ h - (k - 1) + 1 = h - k + 2 /\ (k - 1) + 1 = k
      BY <1>1
    <2>2. Climb(d)[k] = above[k - 1]
      BY <1>10, <2>1
    <2> QED BY <1>7, <2>1, <2>2
  <1>12. Climb(d)[1] = d
    BY <1>1, <1>8, <1>9
  <1> QED BY <1>1, <1>2, <1>5, <1>9, <1>10, <1>11, <1>12 DEF h

\* From a name that a walk asks about, another walk would go on as that one.
LEMMA ClimbFrom ==
    ASSUME NEW d \in Names, NEW j \in 1 .. Len(Climb(d))
    PROVE  /\ Len(Climb(Climb(d)[j])) = Len(Climb(d)) - j + 1
           /\ \A k \in 1 .. Len(Climb(d)) - j + 1 :
                  Climb(Climb(d)[j])[k] = Climb(d)[k + j - 1]
  <1> DEFINE h == Height(d)
             e == Climb(d)[j]
             m == h - j + 2
  <1>1. /\ h \in Nat /\ h < Len(d) /\ h <= MaxLabels /\ Len(Climb(d)) = h + 1
        /\ Climb(d)[1] = d
        /\ \A k \in 2 .. h + 1 : Climb(d)[k] = Suffix(d, h - k + 2)
        /\ Len(d) \in Nat /\ MaxLabels \in Nat
    BY ClimbNames, NameShape
  <1> HIDE DEF h
  <1>2. CASE j = 1
    <2>1. e = d
      BY <1>1, <1>2
    <2> QED BY <1>1, <1>2, <2>1
  <1>3. CASE j # 1
    <2>1. j \in 2 .. h + 1 /\ m \in 1 .. Len(d) /\ m <= MaxLabels
      BY <1>1, <1>3
    <2>2. e = Suffix(d, m)
      BY <1>1, <2>1
    <2>3. e \in Names /\ Len(e) = m /\ \A k \in 1 .. m : Suffix(e, k) = Suffix(d, k)
      BY <2>1, <2>2, SuffixType
    <2>4. Height(e) = m - 1
      BY <2>1, <2>3, <1>1 DEF Height
    <2>5. /\ Len(Climb(e)) = m /\ Climb(e)[1] = e
          /\ \A k \in 2 .. m : Climb(e)[k] = Suffix(e, m - k + 1)
      <3>1. /\ Len(Climb(e)) = (m - 1) + 1 /\ Climb(e)[1] = e
            /\ \A k \in 2 .. (m - 1) + 1 : Climb(e)[k] = Suffix(e, (m - 1) - k + 2)
        <4> HIDE DEF e, m
        <4> QED BY <2>3, <2>4, ClimbNames
      <3>2. m \in Nat /\ (m - 1) + 1 = m /\ \A k \in 2 .. m : (m - 1) - k + 2 = m - k + 1
        BY <1>1, <2>1
      <3> HIDE DEF e, m
      <3> QED BY <3>1, <3>2
    <2>6. Len(Climb(d)) - j + 1 = m
      BY <1>1, <2>1
    <2>7. ASSUME NEW k \in 1 .. m
          PROVE  Climb(e)[k] = Climb(d)[k + j - 1]
      <3>1. CASE k = 1
        <4>1. k + j - 1 = j
          BY <2>1, <3>1
        <4> QED BY <2>5, <3>1, <4>1
      <3>2. CASE k # 1
        <4>1. /\ k \in 2 .. m /\ k + j - 1 \in 2 .. h + 1
              /\ h - (k + j - 1) + 2 = m - k + 1 /\ m - k + 1 \in 1 .. m
          BY <1>1, <2>1, <3>2
        <4>2. Climb(d)[k + j - 1] = Suffix(d, m - k + 1)
          BY <1>1, <4>1
        <4>3. Climb(e)[k] = Suffix(d, m - k + 1)
          BY <2>3, <2>5, <4>1
        <4> QED BY <4>2, <4>3
      <3> QED BY <3>1, <3>2
    <2> QED BY <2>5, <2>6, <2>7
  <1> QED BY <1>2, <1>3

-----------------------------------------------------------------------------
(***************************************************************************)
(* What a whole walk over the names C comes to.  Its records are those of  *)
(* the names up to the first one that ends it, so that OrganizationalDomain *)
(* has at most one record that says anything.                              *)
(***************************************************************************)
EndsAt(view, C, i) == Publishes(view, C[i]) /\ Ends(view[C[i]])

Outcome(view, C) == OrganizationalDomain(C, Walk(view, C))

\* The walk ends at the e-th name.
LEMMA EndedWalk ==
    ASSUME NEW C, NEW N \in Nat, DOMAIN C = 1 .. N, NEW view,
           NEW e \in 1 .. N, EndsAt(view, C, e),
           \A i \in 1 .. e - 1 : ~EndsAt(view, C, i)
    PROVE  /\ view[C[e]].psd = "n" =>
                  Outcome(view, C) = [org |-> C[e], from |-> C[e]]
           /\ view[C[e]].psd # "n" =>
                  /\ view[C[e]].psd = "y"
                  /\ e = 1 => Outcome(view, C) = [org |-> C[1], from |-> C[1]]
                  /\ e > 1 => Outcome(view, C) =
                        [org |-> C[e - 1],
                         from |-> IF Publishes(view, C[e - 1]) THEN C[e - 1] ELSE C[e]]
  <1> DEFINE F(i) == Found(i - 1, C[i], view[C[i]])
             records == Walk(view, C)
             says == {f \in records : f.rec.psd = "n" \/ (f.rec.psd = "y" /\ f.step > 0)}
             end == F(e)
  <1>1. Asked(view, C) = 1 .. e
    <2>1. Asked(view, C) = {i \in 1 .. N : \A j \in 1 .. (i - 1) : ~EndsAt(view, C, j)}
      BY DEF Asked, EndsAt
    <2>2. ASSUME NEW i \in 1 .. N
          PROVE  (\A j \in 1 .. (i - 1) : ~EndsAt(view, C, j)) <=> i \in 1 .. e
      <3>1. CASE i <= e
        BY <3>1
      <3>2. CASE i > e
        <4>1. e \in 1 .. i - 1
          BY <3>2
        <4> QED BY <3>2, <4>1
      <3> QED BY <3>1, <3>2
    <2> QED BY <2>1, <2>2
  <1>2. records = {F(i) : i \in {j \in 1 .. e : Publishes(view, C[j])}}
    BY <1>1 DEF Walk
  <1>3. \A i \in 1 .. N : F(i).step = i - 1 /\ F(i).name = C[i] /\ F(i).rec = view[C[i]]
    BY DEF Found
  <1>4. view[C[e]] \in Record /\ view[C[e]].psd \in {"y", "n"}
    BY DEF EndsAt, Publishes, Ends, Record
  <1>5. end \in records
    BY <1>2, <1>4 DEF Publishes
  <1>6. ASSUME NEW f \in records, f # end
        PROVE  f.rec.psd = ""
    <2>1. PICK i \in 1 .. e : Publishes(view, C[i]) /\ f = F(i)
      BY <1>2
    <2>2. i \in 1 .. e - 1 /\ i \in 1 .. N
      BY <1>6, <2>1
    <2>3. ~Ends(view[C[i]])
      BY <2>1, <2>2 DEF EndsAt
    <2>4. F(i).rec = view[C[i]]
      BY <1>3, <2>2
    <2> QED BY <2>1, <2>3, <2>4 DEF Ends
  <1>7. \A f \in says : f = end
    BY <1>6
  <1>8. ASSUME e > 1
        PROVE  (\E g \in records : g.name = C[e - 1]) <=> Publishes(view, C[e - 1])
    <2>1. e - 1 \in 1 .. e /\ e - 1 \in 1 .. N
      BY <1>8
    <2>2. ASSUME NEW g \in records, g.name = C[e - 1]
          PROVE  Publishes(view, C[e - 1])
      <3>1. PICK i \in 1 .. e : Publishes(view, C[i]) /\ g = F(i)
        BY <1>2
      <3> QED BY <1>3, <2>2, <3>1
    <2>3. ASSUME Publishes(view, C[e - 1])
          PROVE  \E g \in records : g.name = C[e - 1]
      BY <1>2, <1>3, <2>1, <2>3
    <2> QED BY <2>2, <2>3
  <1> HIDE DEF F, records
  <1>9. ASSUME end \in says
        PROVE  says # {} /\ First(says) = end
    <2>1. end.step = e - 1 /\ e - 1 <= e - 1
      BY <1>3
    <2> QED BY <1>7, <1>9, <2>1 DEF First
  <1>10. CASE view[C[e]].psd = "n"
    <2>1. end \in says
      BY <1>3, <1>5, <1>10
    <2> QED BY <1>3, <1>9, <1>10, <2>1 DEF Outcome, OrganizationalDomain, records
  <1>11. CASE view[C[e]].psd # "n" /\ e > 1
    <2>1. view[C[e]].psd = "y"
      BY <1>4, <1>11
    <2>2. end \in says
      BY <1>3, <1>5, <1>11, <2>1
    <2>3. says # {} /\ First(says) = end /\ end.rec.psd # "n" /\ end.name = C[e] /\ end.step = e - 1
      BY <1>3, <1>9, <1>11, <2>2
    <2>4. (\E g \in records : g.name = C[e - 1]) <=> Publishes(view, C[e - 1])
      BY <1>8, <1>11
    <2> HIDE DEF end
    <2>5. Outcome(view, C) =
              [org |-> C[e - 1],
               from |-> IF \E g \in records : g.name = C[e - 1] THEN C[e - 1] ELSE C[e]]
      BY <2>3 DEF Outcome, OrganizationalDomain, records
    <2> QED BY <1>11, <2>1, <2>4, <2>5
  <1>12. CASE view[C[e]].psd # "n" /\ e = 1
    <2>1. view[C[e]].psd = "y"
      BY <1>4, <1>12
    <2>2. says = {}
      BY <1>3, <1>7, <1>12
    <2>3. \A f \in records : f = end
      <3>1. ASSUME NEW f \in records
            PROVE  f = end
        <4>1. PICK i \in 1 .. e : f = F(i)
          BY <1>2
        <4>2. i = e
          BY <1>12
        <4> QED BY <4>1, <4>2
      <3> QED BY <3>1
    <2>4. LastOf(records) = end
      <3>1. end.step = 0 /\ 0 >= 0
        BY <1>3, <1>12
      <3> QED BY <1>5, <2>3, <3>1 DEF LastOf
    <2>5. end.name = C[1] /\ records # {}
      BY <1>3, <1>5, <1>12
    <2> HIDE DEF end
    <2>6. Outcome(view, C) = [org |-> C[1], from |-> C[1]]
      BY <2>2, <2>4, <2>5 DEF Outcome, OrganizationalDomain, records
    <2> QED BY <1>12, <2>1, <2>6
  <1> QED BY <1>10, <1>11, <1>12

\* Nothing ends the walk, and the last record is the j-th name's.
LEMMA EndlessWalk ==
    ASSUME NEW C, NEW N \in Nat, DOMAIN C = 1 .. N, NEW view,
           \A i \in 1 .. N : ~EndsAt(view, C, i)
    PROVE  /\ (\A i \in 1 .. N : ~Publishes(view, C[i])) =>
                  Outcome(view, C) = [org |-> NoName, from |-> NoName]
           /\ \A j \in 1 .. N :
                 /\ Publishes(view, C[j])
                 /\ \A i \in j + 1 .. N : ~Publishes(view, C[i])
                 => Outcome(view, C) = [org |-> C[j], from |-> C[j]]
  <1> DEFINE F(i) == Found(i - 1, C[i], view[C[i]])
             records == Walk(view, C)
             says == {f \in records : f.rec.psd = "n" \/ (f.rec.psd = "y" /\ f.step > 0)}
  <1>1. Asked(view, C) = 1 .. N
    BY DEF Asked, EndsAt
  <1>2. records = {F(i) : i \in {k \in 1 .. N : Publishes(view, C[k])}}
    BY <1>1 DEF Walk
  <1>3. \A i \in 1 .. N : F(i).step = i - 1 /\ F(i).name = C[i] /\ F(i).rec = view[C[i]]
    BY DEF Found
  <1>4. says = {}
    <2>1. ASSUME NEW f \in records
          PROVE  f.rec.psd = ""
      <3>1. PICK i \in 1 .. N : Publishes(view, C[i]) /\ f = F(i)
        BY <1>2
      <3> QED BY <1>3, <3>1 DEF EndsAt, Ends
    <2> QED BY <2>1
  <1>5. ASSUME \A i \in 1 .. N : ~Publishes(view, C[i])
        PROVE  Outcome(view, C) = [org |-> NoName, from |-> NoName]
    <2>1. records = {}
      BY <1>2, <1>5
    <2> QED BY <1>4, <2>1 DEF Outcome, OrganizationalDomain
  <1>6. ASSUME NEW j \in 1 .. N, Publishes(view, C[j]),
               \A i \in j + 1 .. N : ~Publishes(view, C[i])
        PROVE  Outcome(view, C) = [org |-> C[j], from |-> C[j]]
    <2>1. F(j) \in records
      BY <1>2, <1>6
    <2>2. ASSUME NEW f \in records, f # F(j)
          PROVE  f.step \in Int /\ f.step < j - 1
      <3>1. PICK i \in 1 .. N : Publishes(view, C[i]) /\ f = F(i)
        BY <1>2
      <3>2. i < j
        BY <1>6, <2>2, <3>1
      <3> QED BY <1>3, <3>1, <3>2
    <2> HIDE DEF F, records
    <2>3. LastOf(records) = F(j)
      <3>1. F(j).step = j - 1 /\ \A g \in records : F(j).step >= g.step
        <4>1. F(j).step = j - 1 /\ j \in Int
          BY <1>3
        <4>2. ASSUME NEW g \in records
              PROVE  F(j).step >= g.step
          BY <2>2, <4>1
        <4> QED BY <4>1, <4>2
      <3>2. ASSUME NEW f \in records, \A g \in records : f.step >= g.step
            PROVE  f = F(j)
        <4>1. f.step >= j - 1
          BY <2>1, <3>1, <3>2
        <4> QED BY <2>2, <4>1
      <3> QED BY <2>1, <3>1, <3>2 DEF LastOf
    <2>4. records # {} /\ LastOf(records).name = C[j]
      BY <1>3, <2>1, <2>3
    <2> QED BY <1>4, <2>4 DEF Outcome, OrganizationalDomain, records
  <1> QED BY <1>5, <1>6

\* The first name that ends a walk, if one does, and the last that publishes.
LEMMA FirstEnd ==
    ASSUME NEW C, NEW N \in Nat, NEW view,
           \E i \in 1 .. N : EndsAt(view, C, i)
    PROVE  \E e \in 1 .. N : /\ EndsAt(view, C, e)
                             /\ \A i \in 1 .. e - 1 : ~EndsAt(view, C, i)
  <1> DEFINE T == {i \in 1 .. N : EndsAt(view, C, i)}
  <1>1. T \in SUBSET Nat /\ T # {}
    OBVIOUS
  <1>2. PICK e \in T : \A i \in T : e <= i
    <2> HIDE DEF T
    <2> QED BY <1>1, Least
  <1>3. \A i \in 1 .. e - 1 : ~EndsAt(view, C, i)
    BY <1>2
  <1> QED BY <1>2, <1>3

LEMMA LastPublished ==
    ASSUME NEW C, NEW N \in Nat, NEW view,
           \E i \in 1 .. N : Publishes(view, C[i])
    PROVE  \E j \in 1 .. N : /\ Publishes(view, C[j])
                             /\ \A i \in j + 1 .. N : ~Publishes(view, C[i])
  <1> DEFINE T == {i \in 1 .. N : Publishes(view, C[i])}
  <1>1. T \in SUBSET (0 .. N) /\ T # {}
    OBVIOUS
  <1>2. PICK j \in T : \A i \in T : i <= j
    <2> HIDE DEF T
    <2> QED BY <1>1, Greatest
  <1>3. \A i \in j + 1 .. N : ~Publishes(view, C[i])
    BY <1>2
  <1> QED BY <1>2, <1>3

\* The organization of a name, by what its walk comes to.
LEMMA OrgWalkOutcome ==
    ASSUME NEW d \in Names, NEW view
    PROVE  LET C == Climb(d)
               o == OrgWalk(view, d)
           IN  /\ \A e \in 1 .. Len(C) :
                    /\ EndsAt(view, C, e)
                    /\ \A i \in 1 .. e - 1 : ~EndsAt(view, C, i)
                    => /\ o.published
                       /\ o.org = IF view[C[e]].psd = "n" \/ e = 1 THEN C[e]
                                                                  ELSE C[e - 1]
               /\ \A j \in 1 .. Len(C) :
                    /\ \A i \in 1 .. Len(C) : ~EndsAt(view, C, i)
                    /\ Publishes(view, C[j])
                    /\ \A i \in j + 1 .. Len(C) : ~Publishes(view, C[i])
                    => o.published /\ o.org = C[j]
               /\ (\A i \in 1 .. Len(C) : ~Publishes(view, C[i]))
                    => ~o.published /\ o.org = d
  <1> DEFINE C == Climb(d)
             N == Len(C)
             o == OrgWalk(view, d)
             w == Outcome(view, C)
  <1>1. /\ N \in Nat \ {0} /\ DOMAIN C = 1 .. N
        /\ \A i \in 1 .. N : C[i] \in Names /\ C[i] # NoName
    BY ClimbType, NameAssumption
  <1>2. /\ w.org = NoName => ~o.published /\ o.org = d
        /\ w.org # NoName => o.published /\ o.org = w.org
    BY DEF OrgWalk, Outcome
  <1> HIDE DEF C, o, w
  <1>3. ASSUME NEW e \in 1 .. N, EndsAt(view, C, e),
               \A i \in 1 .. e - 1 : ~EndsAt(view, C, i)
        PROVE  w.org = IF view[C[e]].psd = "n" \/ e = 1 THEN C[e] ELSE C[e - 1]
    <2> HIDE DEF N
    <2>1. CASE view[C[e]].psd = "n"
      BY <1>1, <1>3, <2>1, EndedWalk DEF w
    <2>2. CASE view[C[e]].psd # "n" /\ e = 1
      <3>1. w = [org |-> C[1], from |-> C[1]]
        BY <1>1, <1>3, <2>2, EndedWalk DEF w
      <3> QED BY <2>2, <3>1
    <2>3. CASE view[C[e]].psd # "n" /\ e > 1
      <3>1. w = [org |-> C[e - 1],
                 from |-> IF Publishes(view, C[e - 1]) THEN C[e - 1] ELSE C[e]]
        BY <1>1, <1>3, <2>3, EndedWalk DEF w
      <3> QED BY <2>3, <3>1
    <2> QED BY <2>1, <2>2, <2>3
  <1>4. ASSUME NEW j \in 1 .. N, \A i \in 1 .. N : ~EndsAt(view, C, i),
               Publishes(view, C[j]), \A i \in j + 1 .. N : ~Publishes(view, C[i])
        PROVE  w.org = C[j]
    <2>1. w = [org |-> C[j], from |-> C[j]]
      <3> HIDE DEF N
      <3> QED BY <1>1, <1>4, EndlessWalk DEF w
    <2> QED BY <2>1
  <1>5. ASSUME \A i \in 1 .. N : ~Publishes(view, C[i])
        PROVE  w.org = NoName
    <2>1. \A i \in 1 .. N : ~EndsAt(view, C, i)
      BY <1>5 DEF EndsAt
    <2>2. w = [org |-> NoName, from |-> NoName]
      <3> HIDE DEF N
      <3> QED BY <1>1, <1>5, <2>1, EndlessWalk DEF w
    <2> QED BY <2>2
  <1>6. \A e \in 1 .. N : e = 1 \/ e - 1 \in 1 .. N
    BY <1>1
  <1>7. ASSUME NEW e \in 1 .. N, EndsAt(view, C, e),
               \A i \in 1 .. e - 1 : ~EndsAt(view, C, i)
        PROVE  /\ o.published
               /\ o.org = IF view[C[e]].psd = "n" \/ e = 1 THEN C[e] ELSE C[e - 1]
    BY <1>1, <1>2, <1>3, <1>6, <1>7
  <1>8. ASSUME NEW j \in 1 .. N, \A i \in 1 .. N : ~EndsAt(view, C, i),
               Publishes(view, C[j]), \A i \in j + 1 .. N : ~Publishes(view, C[i])
        PROVE  o.published /\ o.org = C[j]
    BY <1>1, <1>2, <1>4, <1>8
  <1> HIDE DEF N
  <1>9. /\ \A e \in 1 .. N :
             /\ EndsAt(view, C, e)
             /\ \A i \in 1 .. e - 1 : ~EndsAt(view, C, i)
             => /\ o.published
                /\ o.org = IF view[C[e]].psd = "n" \/ e = 1 THEN C[e] ELSE C[e - 1]
        /\ \A j \in 1 .. N :
             /\ \A i \in 1 .. N : ~EndsAt(view, C, i)
             /\ Publishes(view, C[j])
             /\ \A i \in j + 1 .. N : ~Publishes(view, C[i])
             => o.published /\ o.org = C[j]
        /\ (\A i \in 1 .. N : ~Publishes(view, C[i])) => ~o.published /\ o.org = d
    BY <1>2, <1>5, <1>7, <1>8
  <1> QED BY <1>9 DEF N, C, o

-----------------------------------------------------------------------------
(***************************************************************************)
(* Alignment.                                                              *)
(***************************************************************************)

\* An organization is its own.
LEMMA OrgOfOrg ==
    ASSUME NEW d \in Names, NEW view
    PROVE  OrgWalk(view, OrgWalk(view, d).org).org = OrgWalk(view, d).org
  <1> DEFINE C == Climb(d)
             N == Len(C)
             org == OrgWalk(view, d).org
  <1>1. N \in Nat \ {0} /\ \A i \in 1 .. N : C[i] \in Names
    BY ClimbType
  <1> HIDE DEF C, N, org
  <1>2. ASSUME NEW j \in 1 .. N, org = C[j],
               \/ EndsAt(view, C, j) /\ view[C[j]].psd = "n"
               \/ EndsAt(view, C, j) /\ j = 1
               \/ /\ j + 1 \in 1 .. N /\ EndsAt(view, C, j + 1)
                  /\ ~EndsAt(view, C, j) /\ view[C[j + 1]].psd # "n"
               \/ /\ \A i \in 1 .. N : ~EndsAt(view, C, i)
                  /\ Publishes(view, C[j])
                  /\ \A i \in j + 1 .. N : ~Publishes(view, C[i])
        PROVE  OrgWalk(view, org).org = org
    <2> DEFINE D == Climb(C[j])
               M == N - j + 1
    <2>1. /\ Len(D) = M /\ M \in Nat \ {0} /\ C[j] \in Names
          /\ \A k \in 1 .. M : D[k] = C[k + j - 1]
      BY <1>1, ClimbFrom DEF C, N
    <2> HIDE DEF D
    <2>2. \A k \in 1 .. M : EndsAt(view, D, k) <=> EndsAt(view, C, k + j - 1)
      BY <2>1 DEF EndsAt
    <2>3. 1 \in 1 .. M /\ 1 + j - 1 = j /\ D[1] = C[j]
      BY <2>1
    <2>4. CASE EndsAt(view, C, j) /\ (view[C[j]].psd = "n" \/ j = 1)
      <3>1. EndsAt(view, D, 1) /\ \A i \in 1 .. 1 - 1 : ~EndsAt(view, D, i)
        BY <2>2, <2>3, <2>4
      <3> QED BY <1>2, <2>1, <2>3, <3>1, OrgWalkOutcome DEF D
    <2>5. CASE /\ j + 1 \in 1 .. N /\ EndsAt(view, C, j + 1)
               /\ ~EndsAt(view, C, j) /\ view[C[j + 1]].psd # "n"
      <3>1. 2 \in 1 .. M /\ 2 + j - 1 = j + 1
        BY <1>1, <2>1, <2>5
      <3>2. /\ EndsAt(view, D, 2) /\ view[D[2]].psd # "n"
            /\ \A i \in 1 .. 2 - 1 : ~EndsAt(view, D, i)
        BY <2>1, <2>2, <2>3, <2>5, <3>1
      <3>3. OrgWalk(view, C[j]).org = D[2 - 1]
        BY <2>1, <3>1, <3>2, OrgWalkOutcome DEF D
      <3> QED BY <1>2, <2>3, <3>3
    <2>6. CASE /\ \A i \in 1 .. N : ~EndsAt(view, C, i)
               /\ Publishes(view, C[j])
               /\ \A i \in j + 1 .. N : ~Publishes(view, C[i])
      <3>1. \A k \in 1 .. M : k + j - 1 \in 1 .. N /\ (k > 1 => k + j - 1 \in j + 1 .. N)
        BY <1>1
      <3>2. /\ \A k \in 1 .. M : ~EndsAt(view, D, k)
            /\ Publishes(view, D[1]) /\ \A k \in 1 + 1 .. M : ~Publishes(view, D[k])
        BY <2>1, <2>2, <2>3, <2>6, <3>1
      <3> QED BY <1>2, <2>1, <2>3, <3>2, OrgWalkOutcome DEF D
    <2> QED BY <1>2, <2>4, <2>5, <2>6
  <1>3. ASSUME \E i \in 1 .. N : EndsAt(view, C, i)
        PROVE  OrgWalk(view, org).org = org
    <2>1. PICK e \in 1 .. N : /\ EndsAt(view, C, e)
                              /\ \A i \in 1 .. e - 1 : ~EndsAt(view, C, i)
      BY <1>1, <1>3, FirstEnd
    <2>2. org = IF view[C[e]].psd = "n" \/ e = 1 THEN C[e] ELSE C[e - 1]
      BY <2>1, OrgWalkOutcome DEF org, C, N
    <2>3. CASE view[C[e]].psd = "n" \/ e = 1
      BY <1>2, <2>1, <2>2, <2>3
    <2>4. CASE ~(view[C[e]].psd = "n" \/ e = 1)
      <3>1. e - 1 \in 1 .. N /\ (e - 1) + 1 = e /\ e - 1 \in 1 .. e - 1
        BY <1>1, <2>4
      <3>2. /\ org = C[e - 1] /\ ~EndsAt(view, C, e - 1)
            /\ (e - 1) + 1 \in 1 .. N /\ EndsAt(view, C, (e - 1) + 1)
            /\ view[C[(e - 1) + 1]].psd # "n"
        BY <2>1, <2>2, <2>4, <3>1
      <3> QED BY <1>2, <3>1, <3>2
    <2> QED BY <2>3, <2>4
  <1>4. ASSUME \A i \in 1 .. N : ~EndsAt(view, C, i),
               \E i \in 1 .. N : Publishes(view, C[i])
        PROVE  OrgWalk(view, org).org = org
    <2>1. PICK j \in 1 .. N : /\ Publishes(view, C[j])
                              /\ \A i \in j + 1 .. N : ~Publishes(view, C[i])
      BY <1>1, <1>4, LastPublished
    <2>2. org = C[j]
      BY <1>4, <2>1, OrgWalkOutcome DEF org, C, N
    <2> QED BY <1>2, <1>4, <2>1, <2>2
  <1>5. ASSUME \A i \in 1 .. N : ~Publishes(view, C[i])
        PROVE  OrgWalk(view, org).org = org
    <2>1. org = d
      BY <1>5, OrgWalkOutcome DEF org, C, N
    <2> QED BY <2>1 DEF org
  <1>6. (\A i \in 1 .. N : ~Publishes(view, C[i])) \/ (\E i \in 1 .. N : EndsAt(view, C, i))
           \/ /\ \A i \in 1 .. N : ~EndsAt(view, C, i)
              /\ \E i \in 1 .. N : Publishes(view, C[i])
    OBVIOUS
  <1>7. OrgWalk(view, org).org = org
    BY <1>3, <1>4, <1>5, <1>6
  <1> QED BY <1>7 DEF org

\* A name shares the organization of a name above it, if nothing up to there
\* says where public suffixes end.
LEMMA OrgOfAbove ==
    ASSUME NEW d \in Names, NEW n \in 1 .. Len(d), Len(d) <= MaxLabels + 1,
           NEW view, OrgWalk(view, Suffix(d, n)).published,
           Publishes(view, Suffix(d, n)) => view[Suffix(d, n)].psd # "y",
           \A m \in (n + 1) .. Len(d) :
              Publishes(view, Suffix(d, m)) => ~Ends(view[Suffix(d, m)])
    PROVE  OrgWalk(view, d).org = OrgWalk(view, Suffix(d, n)).org
  <1> DEFINE u == Suffix(d, n)
             N == Len(d)
             p == N - n + 1
             C == Climb(d)
             D == Climb(u)
  <1>1. N \in Nat \ {0} /\ n \in Nat /\ p \in 1 .. N /\ Height(d) = N - 1 /\ u \in Names
    BY NameShape DEF Height
  <1>2. Len(C) = N /\ \A k \in 1 .. N : C[k] = Suffix(d, N - k + 1)
    <2>1. /\ Len(C) = Height(d) + 1 /\ C[1] = d
          /\ \A k \in 2 .. Height(d) + 1 : C[k] = Suffix(d, Height(d) - k + 2)
      BY ClimbNames
    <2>2. d = Suffix(d, N - 1 + 1)
      BY <1>1, WholeName
    <2>3. ASSUME NEW k \in 1 .. N
          PROVE  C[k] = Suffix(d, N - k + 1)
      <3>1. CASE k = 1
        BY <2>1, <2>2, <3>1
      <3>2. CASE k # 1
        <4>1. k \in 2 .. Height(d) + 1 /\ Height(d) - k + 2 = N - k + 1
          BY <1>1, <3>2
        <4> QED BY <2>1, <4>1
      <3> QED BY <3>1, <3>2
    <2> QED BY <1>1, <2>1, <2>3
  <1>3. C[p] = u
    <2>1. N - p + 1 = n
      BY <1>1
    <2> QED BY <1>1, <1>2, <2>1
  <1>4. Len(D) = n /\ \A k \in 1 .. n : k + p - 1 \in 1 .. N /\ D[k] = C[k + p - 1]
    <2>1. N - p + 1 = n /\ \A k \in 1 .. n : k + p - 1 \in 1 .. N
      BY <1>1
    <2>2. /\ Len(Climb(C[p])) = Len(C) - p + 1
          /\ \A k \in 1 .. Len(C) - p + 1 : Climb(C[p])[k] = C[k + p - 1]
      <3>1. p \in 1 .. Len(C)
        BY <1>1, <1>2
      <3> HIDE DEF p
      <3> QED BY <3>1, ClimbFrom
    <2>3. Climb(C[p]) = D /\ Len(C) - p + 1 = n
      <3>1. Len(C) = N
        BY <1>2
      <3>2. Climb(C[p]) = Climb(u)
        BY <1>3
      <3> QED BY <2>1, <3>1, <3>2
    <2> HIDE DEF p, N, C, D
    <2> QED BY <2>1, <2>2, <2>3
  <1>5. \A k \in 1 .. n : EndsAt(view, D, k) <=> EndsAt(view, C, k + p - 1)
    BY <1>4 DEF EndsAt
  <1>6. ASSUME NEW i \in 1 .. p - 1
        PROVE  ~EndsAt(view, C, i)
    <2>1. N - i + 1 \in n + 1 .. N /\ i \in 1 .. N
      BY <1>1
    <2>2. C[i] = Suffix(d, N - i + 1)
      BY <1>2, <2>1
    <2> QED BY <2>1, <2>2 DEF EndsAt
  <1> HIDE DEF N, p, C, D, u
  <1>7. CASE \E k \in 1 .. n : EndsAt(view, D, k)
    <2>1. PICK k \in 1 .. n : /\ EndsAt(view, D, k)
                              /\ \A i \in 1 .. k - 1 : ~EndsAt(view, D, i)
      BY <1>1, <1>7, FirstEnd
    <2> DEFINE e == k + p - 1
    <2>2. e \in 1 .. N /\ EndsAt(view, C, e) /\ C[e] = D[k]
      BY <1>4, <1>5, <2>1
    <2>3. ASSUME NEW i \in 1 .. e - 1
          PROVE  ~EndsAt(view, C, i)
      <3>1. CASE i < p
        BY <1>1, <1>6, <3>1
      <3>2. CASE i >= p
        <4>1. i - p + 1 \in 1 .. k - 1 /\ i - p + 1 \in 1 .. n /\ (i - p + 1) + p - 1 = i
          BY <1>1, <3>2
        <4> QED BY <1>5, <2>1, <4>1
      <3> QED BY <1>1, <3>1, <3>2
    <2>4. OrgWalk(view, u).org =
              IF view[D[k]].psd = "n" \/ k = 1 THEN D[k] ELSE D[k - 1]
      BY <1>1, <1>4, <2>1, OrgWalkOutcome DEF D
    <2>5. OrgWalk(view, d).org =
              IF view[C[e]].psd = "n" \/ e = 1 THEN C[e] ELSE C[e - 1]
      <3> HIDE DEF e
      <3> QED BY <1>2, <2>2, <2>3, OrgWalkOutcome DEF C
    <2>6. CASE view[D[k]].psd = "n"
      BY <2>2, <2>4, <2>5, <2>6 DEF u
    <2>7. CASE view[D[k]].psd # "n"
      <3>1. k # 1
        <4> SUFFICES ASSUME k = 1
                     PROVE  FALSE
          OBVIOUS
        <4>1. D[1] = u
          BY <1>1, ClimbNames DEF D
        <4>2. Publishes(view, u) /\ view[u].psd = "y"
          BY <2>1, <2>7, <4>1 DEF EndsAt, Publishes, Ends, Record
        <4> QED BY <4>2 DEF u
      <3>2. k - 1 \in 1 .. n /\ (k - 1) + p - 1 = e - 1 /\ e # 1
        BY <1>1, <3>1
      <3>3. D[k - 1] = C[e - 1]
        BY <1>4, <3>2
      <3> QED BY <2>2, <2>4, <2>5, <2>7, <3>1, <3>2, <3>3 DEF u
    <2> QED BY <2>6, <2>7
  <1>8. CASE \A k \in 1 .. n : ~EndsAt(view, D, k)
    <2>1. \E k \in 1 .. n : Publishes(view, D[k])
      BY <1>1, <1>4, OrgWalkOutcome DEF D, u
    <2>2. PICK k \in 1 .. n : /\ Publishes(view, D[k])
                              /\ \A i \in k + 1 .. n : ~Publishes(view, D[i])
      BY <1>1, <2>1, LastPublished
    <2> DEFINE j == k + p - 1
    <2>3. j \in 1 .. N /\ C[j] = D[k] /\ Publishes(view, C[j])
      BY <1>4, <2>2
    <2>4. ASSUME NEW i \in 1 .. N
          PROVE  ~EndsAt(view, C, i)
      <3>1. CASE i < p
        BY <1>1, <1>6, <3>1
      <3>2. CASE i >= p
        <4>1. i - p + 1 \in 1 .. n /\ (i - p + 1) + p - 1 = i
          BY <1>1, <3>2 DEF p
        <4> QED BY <1>5, <1>8, <4>1
      <3> QED BY <1>1, <3>1, <3>2
    <2>5. ASSUME NEW i \in j + 1 .. N
          PROVE  ~Publishes(view, C[i])
      <3>1. i - p + 1 \in k + 1 .. n /\ i - p + 1 \in 1 .. n /\ (i - p + 1) + p - 1 = i
        BY <1>1 DEF p
      <3> QED BY <1>4, <2>2, <3>1
    <2>6. OrgWalk(view, u).org = D[k]
      BY <1>1, <1>4, <1>8, <2>2, OrgWalkOutcome DEF D
    <2>7. OrgWalk(view, d).org = C[j]
      <3> HIDE DEF j
      <3> QED BY <1>2, <2>3, <2>4, <2>5, OrgWalkOutcome DEF C
    <2> QED BY <2>3, <2>6, <2>7 DEF u
  <1> QED BY <1>7, <1>8

\* Names are grouped by one organization (orgWalk, align.go): an organization
\* is its own, and a subdomain shares that of the name it is below as long as
\* nothing on the way says where public suffixes end.
THEOREM OneOrganizationHolds == Spec => []OneOrganization
  <1>1. ASSUME IInv
        PROVE  OneOrganization
    <2>1. \A d \in Names : orgs[d] # Unknown => orgs[d] = OrgWalk(txt, d)
      BY <1>1 DEF IInv, OneView, Learned
    <2>2. ASSUME NEW d \in Names, orgs[d] # Unknown, orgs[orgs[d].org] # Unknown
          PROVE  orgs[orgs[d].org].org = orgs[d].org
      <3>1. orgs[d].org \in Names
        BY <1>1, <2>2 DEF IInv, TypeOK, OrgAnswer
      <3> QED BY <2>1, <2>2, <3>1, OrgOfOrg
    <2>3. ASSUME NEW d \in Names, orgs[d] # Unknown, NEW n \in 1 .. Len(d),
                 Len(d) <= MaxLabels + 1,
                 orgs[Suffix(d, n)] # Unknown, orgs[Suffix(d, n)].published,
                 txt[Suffix(d, n)] \in Record => txt[Suffix(d, n)].psd # "y",
                 \A m \in (n + 1) .. Len(d) :
                    txt[Suffix(d, m)] \in Record => ~Ends(txt[Suffix(d, m)])
          PROVE  orgs[d].org = orgs[Suffix(d, n)].org
      <3>1. Suffix(d, n) \in Names
        BY NameAssumption
      <3>2. OrgWalk(txt, Suffix(d, n)).published
        BY <2>1, <2>3, <3>1
      <3>3. OrgWalk(txt, d).org = OrgWalk(txt, Suffix(d, n)).org
        BY <2>3, <3>2, OrgOfAbove DEF Publishes
      <3> QED BY <2>1, <2>3, <3>1, <3>3
    <2> QED BY <2>2, <2>3 DEF OneOrganization
  <1> QED BY Invariance, <1>1, PTL

-----------------------------------------------------------------------------
(***************************************************************************)
(* Policy discovery.                                                       *)
(***************************************************************************)

\* Each name a walk asks about is below the next.
LEMMA ClimbBelow ==
    ASSUME NEW d \in Names, NEW e \in 2 .. Len(Climb(d))
    PROVE  /\ Len(Climb(d)[e]) < Len(Climb(d)[e - 1])
           /\ Suffix(Climb(d)[e - 1], Len(Climb(d)[e])) = Climb(d)[e]
  <1> DEFINE C == Climb(d)
             h == Height(d)
             m == h - e + 2
  <1>1. /\ h \in Nat /\ h < Len(d) /\ Len(C) = h + 1 /\ C[1] = d
        /\ \A k \in 2 .. h + 1 : C[k] = Suffix(d, h - k + 2)
        /\ Len(d) \in Nat
    BY ClimbNames, NameShape
  <1> HIDE DEF C, h
  <1>2. e \in 2 .. h + 1 /\ m \in 1 .. h
    BY <1>1 DEF C
  <1>3. C[e] = Suffix(d, m) /\ Len(C[e]) = m
    <2>1. m \in 1 .. Len(d)
      BY <1>1, <1>2
    <2>2. C[e] = Suffix(d, m)
      BY <1>1, <1>2
    <2> HIDE DEF m
    <2> QED BY <2>1, <2>2, SuffixType
  <1>4. CASE e = 2
    BY <1>1, <1>2, <1>3, <1>4 DEF C
  <1>5. CASE e # 2
    <2>1. e - 1 \in 2 .. h + 1 /\ m + 1 \in 1 .. Len(d) /\ h - (e - 1) + 2 = m + 1
          /\ m \in 1 .. m + 1
      BY <1>1, <1>2, <1>5
    <2>2. C[e - 1] = Suffix(d, m + 1)
      BY <1>1, <2>1
    <2> HIDE DEF m
    <2>3. Len(C[e - 1]) = m + 1 /\ Suffix(C[e - 1], m) = Suffix(d, m)
      BY <2>1, <2>2, SuffixType
    <2> QED BY <1>2, <1>3, <2>3 DEF C
  <1> QED BY <1>4, <1>5

\* Where a walk is told of a record, it finds an organization that publishes.
LEMMA PublishedWalk ==
    ASSUME NEW d \in Names, NEW view,
           \E i \in 1 .. Len(Climb(d)) : Publishes(view, Climb(d)[i])
    PROVE  OrgWalk(view, d).published
  <1> DEFINE C == Climb(d)
             N == Len(C)
  <1>1. N \in Nat
    BY ClimbType
  <1> HIDE DEF C, N
  <1>2. CASE \E i \in 1 .. N : EndsAt(view, C, i)
    <2>1. \E e \in 1 .. N : /\ EndsAt(view, C, e)
                            /\ \A i \in 1 .. e - 1 : ~EndsAt(view, C, i)
      BY <1>1, <1>2, FirstEnd
    <2> QED BY <2>1, OrgWalkOutcome DEF C, N
  <1>3. CASE \A i \in 1 .. N : ~EndsAt(view, C, i)
    <2>1. \E j \in 1 .. N : /\ Publishes(view, C[j])
                            /\ \A i \in j + 1 .. N : ~Publishes(view, C[i])
      BY <1>1, LastPublished DEF C, N
    <2> QED BY <1>3, <2>1, OrgWalkOutcome DEF C, N
  <1> QED BY <1>2, <1>3

\* The record that governs a name is its own, its organization's, or that of
\* the public suffix its organization is below.
LEMMA PolicyOfWalk ==
    ASSUME NEW d \in Names, NEW view
    PROVE  LET o == OrgWalk(view, d)
               from == LookupDMARC(view, d).from
           IN  /\ from # NoName <=> o.published
               /\ from # NoName => Publishes(view, from)
               /\ \/ from \in {NoName, d, o.org}
                  \/ /\ view[from].psd = "y" /\ ~Publishes(view, o.org)
                     /\ Len(from) < Len(o.org) /\ Suffix(o.org, Len(from)) = from
  <1> DEFINE C == Climb(d)
             h == Height(d)
             N == h + 1
             T == TreeWalkNames(d)
             o == OrgWalk(view, d)
             from == LookupDMARC(view, d).from
  <1>1. /\ h \in Nat /\ Len(C) = N /\ C[1] = d
        /\ \A k \in 1 .. N : C[k] \in Names /\ C[k] # NoName
    <2>1. h \in Nat /\ Len(C) = N /\ C[1] = d
      BY ClimbNames
    <2>2. \A k \in 1 .. Len(C) : C[k] \in Names
      BY ClimbType
    <2>3. NoName \notin Names
      BY NameShape
    <2> QED BY <2>1, <2>2, <2>3
  <1>2. /\ DOMAIN T = 1 .. h
        /\ \A k \in 1 .. h : k + 1 \in 1 .. N /\ T[k] = C[k + 1]
    BY ClimbNames
  <1>3. \A k \in 1 .. N : Publishes(view, C[k]) => o.published
    BY <1>1, PublishedWalk
  <1> HIDE DEF C, h, T, o, from
  <1>4. CASE Publishes(view, d)
    <2>1. from = d
      BY <1>4 DEF from, LookupDMARC
    <2>2. 1 \in 1 .. N
      BY <1>1
    <2> QED BY <1>1, <1>3, <1>4, <2>1, <2>2 DEF o, from
  <1>5. CASE ~Publishes(view, d)
    <2>1. from = Outcome(view, T).from
      BY <1>5 DEF from, LookupDMARC, Outcome, T
    <2>2. \A k \in 1 .. h : EndsAt(view, T, k) <=> EndsAt(view, C, k + 1)
      BY <1>2 DEF EndsAt
    <2>3. ~EndsAt(view, C, 1)
      BY <1>1, <1>5 DEF EndsAt
    <2>4. CASE \E i \in 1 .. h : EndsAt(view, T, i)
      <3>1. PICK t \in 1 .. h : /\ EndsAt(view, T, t)
                                /\ \A i \in 1 .. t - 1 : ~EndsAt(view, T, i)
        BY <1>1, <2>4, FirstEnd
      <3> DEFINE e == t + 1
      <3>2. e \in 2 .. N /\ EndsAt(view, C, e) /\ e - 1 = t /\ C[e] = T[t]
        BY <1>1, <1>2, <2>2, <3>1
      <3>3. \A i \in 1 .. e - 1 : ~EndsAt(view, C, i)
        <4> SUFFICES ASSUME NEW i \in 1 .. e - 1
                     PROVE  ~EndsAt(view, C, i)
          OBVIOUS
        <4>1. CASE i = 1
          BY <2>3, <4>1
        <4>2. CASE i # 1
          <5>1. i - 1 \in 1 .. t - 1 /\ i - 1 \in 1 .. h /\ (i - 1) + 1 = i
            BY <1>1, <4>2
          <5> QED BY <2>2, <3>1, <5>1
        <4> QED BY <4>1, <4>2
      <3>4. Publishes(view, C[e]) /\ C[e] # NoName /\ view[C[e]].psd \in {"y", "n"}
        <4>1. e \in 1 .. N
          BY <1>1, <3>2
        <4> HIDE DEF e, N
        <4>2. C[e] # NoName
          BY <1>1, <4>1
        <4> QED BY <3>2, <4>2 DEF EndsAt, Publishes, Ends, Record
      <3>5. o.published
        BY <1>3, <3>2, <3>4
      <3> HIDE DEF e
      <3>6. o.org = IF view[C[e]].psd = "n" \/ e = 1 THEN C[e] ELSE C[e - 1]
        <4>1. e \in 1 .. Len(C)
          BY <1>1, <3>2
        <4> QED BY <3>2, <3>3, <4>1, OrgWalkOutcome DEF o, C
      <3>7. CASE view[C[e]].psd = "n"
        <4>1. Outcome(view, T) = [org |-> T[t], from |-> T[t]]
          BY <1>1, <1>2, <3>1, <3>2, <3>7, EndedWalk
        <4>2. from = C[e] /\ o.org = C[e]
          BY <2>1, <3>2, <3>6, <3>7, <4>1
        <4> QED BY <3>4, <3>5, <4>2 DEF o, from
      <3>8. CASE view[C[e]].psd # "n"
        <4>1. o.org = C[e - 1] /\ view[C[e]].psd = "y"
          BY <3>2, <3>4, <3>6, <3>8
        <4>2. Len(C[e]) < Len(C[e - 1]) /\ Suffix(C[e - 1], Len(C[e])) = C[e]
          BY <1>1, <3>2, ClimbBelow DEF C
        <4>3. CASE t = 1
          <5>1. Outcome(view, T) = [org |-> T[1], from |-> T[1]]
            BY <1>1, <1>2, <3>1, <3>2, <3>8, <4>3, EndedWalk
          <5>2. from = C[e] /\ o.org = d
            BY <1>1, <2>1, <3>2, <4>1, <4>3, <5>1
          <5> QED BY <1>5, <3>4, <3>5, <4>1, <4>2, <5>2 DEF o, from
        <4>4. CASE t # 1
          <5>1. Outcome(view, T) =
                    [org |-> T[t - 1],
                     from |-> IF Publishes(view, T[t - 1]) THEN T[t - 1] ELSE T[t]]
            BY <1>1, <1>2, <3>1, <3>2, <3>8, <4>4, EndedWalk
          <5>2. T[t - 1] = C[e - 1] /\ e - 1 \in 1 .. N
            <6>1. t - 1 \in 1 .. h /\ (t - 1) + 1 = e - 1 /\ e - 1 \in 1 .. N
              BY <1>1, <3>2, <4>4
            <6> QED BY <1>2, <6>1
          <5>3. CASE Publishes(view, C[e - 1])
            <6>1. from = C[e - 1] /\ from # NoName
              BY <1>1, <2>1, <5>1, <5>2, <5>3
            <6> QED BY <3>5, <4>1, <5>3, <6>1 DEF o, from
          <5>4. CASE ~Publishes(view, C[e - 1])
            <6>1. from = C[e]
              BY <2>1, <3>2, <5>1, <5>2, <5>4
            <6> QED BY <3>4, <3>5, <4>1, <4>2, <5>4, <6>1 DEF o, from
          <5> QED BY <5>3, <5>4
        <4> QED BY <4>3, <4>4
      <3> QED BY <3>7, <3>8
    <2>5. CASE \A i \in 1 .. h : ~EndsAt(view, T, i)
      <3>1. ASSUME NEW i \in 1 .. N
            PROVE  ~EndsAt(view, C, i)
        <4>1. CASE i = 1
          BY <2>3, <4>1
        <4>2. CASE i # 1
          <5>1. i - 1 \in 1 .. h /\ (i - 1) + 1 = i
            BY <1>1, <4>2
          <5> QED BY <2>2, <2>5, <5>1
        <4> QED BY <4>1, <4>2
      <3>2. CASE \E i \in 1 .. h : Publishes(view, T[i])
        <4>1. PICK j \in 1 .. h : /\ Publishes(view, T[j])
                                  /\ \A i \in j + 1 .. h : ~Publishes(view, T[i])
          BY <1>1, <3>2, LastPublished
        <4>2. from = T[j]
          <5>1. Outcome(view, T) = [org |-> T[j], from |-> T[j]]
            BY <1>1, <1>2, <2>5, <4>1, EndlessWalk
          <5> QED BY <2>1, <5>1
        <4>3. j + 1 \in 1 .. N /\ T[j] = C[j + 1] /\ Publishes(view, C[j + 1])
          BY <1>2, <4>1
        <4>4. ASSUME NEW i \in (j + 1) + 1 .. N
              PROVE  ~Publishes(view, C[i])
          <5>1. i - 1 \in j + 1 .. h /\ i - 1 \in 1 .. h /\ (i - 1) + 1 = i
            BY <1>1
          <5> QED BY <1>2, <4>1, <5>1
        <4>5. o.published /\ o.org = C[j + 1]
          BY <1>1, <3>1, <4>3, <4>4, OrgWalkOutcome DEF o, C
        <4> QED BY <1>1, <4>2, <4>3, <4>5 DEF o, from
      <3>3. CASE \A i \in 1 .. h : ~Publishes(view, T[i])
        <4>1. from = NoName
          <5>1. Outcome(view, T) = [org |-> NoName, from |-> NoName]
            BY <1>1, <1>2, <2>5, <3>3, EndlessWalk
          <5> QED BY <2>1, <5>1
        <4>2. ASSUME NEW i \in 1 .. N
              PROVE  ~Publishes(view, C[i])
          <5>1. CASE i = 1
            BY <1>1, <1>5, <5>1
          <5>2. CASE i # 1
            <6>1. i - 1 \in 1 .. h /\ (i - 1) + 1 = i
              BY <1>1, <5>2
            <6> QED BY <1>2, <3>3, <6>1
          <5> QED BY <5>1, <5>2
        <4>3. ~o.published
          BY <1>1, <4>2, OrgWalkOutcome DEF o, C
        <4> QED BY <4>1, <4>3 DEF o, from
      <3> QED BY <3>2, <3>3
    <2> QED BY <2>4, <2>5
  <1> QED BY <1>4, <1>5

\* Alignment and policy discovery agree (orgWalk, align.go, and LookupDMARC,
\* treewalk.go): a record governs a name exactly when its walk for alignment
\* has found one, and it is the name's own, its organization's, or that of the
\* public suffix its organization is below.
THEOREM PolicyMatchesOrgHolds == Spec => []PolicyMatchesOrg
  <1>1. ASSUME IInv
        PROVE  PolicyMatchesOrg
    <2>1. \A d \in Names : orgs[d] # Unknown => orgs[d] = OrgWalk(txt, d)
      BY <1>1 DEF IInv, OneView, Learned
    <2> QED BY <2>1, PolicyOfWalk DEF PolicyMatchesOrg
  <1> QED BY Invariance, <1>1, PTL

=============================================================================
