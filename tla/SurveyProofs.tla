---------------------------- MODULE SurveyProofs ----------------------------
(***************************************************************************)
(* Proofs about Provider: what Load makes of any table, of any vendors;    *)
(* about Inbound: what Lookup makes of any zone, however its queries are   *)
(* answered; and about Survey, which puts the two together.                *)
(***************************************************************************)
EXTENDS Survey, LeastElement, SequenceTheorems, TLAPS

-----------------------------------------------------------------------------
(***************************************************************************)
(* Names and claims.                                                       *)
(***************************************************************************)

\* Normalize gives a name as long, of labels that it does not change again.
LEMMA NormalizeSettles ==
    ASSUME NEW n \in Seq(Labels)
    PROVE  /\ Normalize(n) \in Seq(Labels)
           /\ Len(Normalize(n)) = Len(n)
           /\ Normalize(Normalize(n)) = Normalize(n)
  <1>1. \A i \in 1 .. Len(n) : n[i] \in Labels /\ Lower[n[i]] \in Labels
    <2>1. \A i \in 1 .. Len(n) : n[i] \in Labels
      OBVIOUS
    <2>2. \A l \in Labels : Lower[l] \in Labels
      BY ProviderAssumption
    <2> QED BY <2>1, <2>2
  <1>2. Normalize(n) \in Seq(Labels) /\ Len(Normalize(n)) = Len(n)
    BY <1>1 DEF Normalize
  <1>3. \A i \in 1 .. Len(n) : Normalize(n)[i] = Lower[n[i]]
    BY DEF Normalize
  <1>4. \A i \in 1 .. Len(n) : Lower[Normalize(n)[i]] = Normalize(n)[i]
    BY <1>1, <1>3, ProviderAssumption
  <1>5. Normalize(Normalize(n)) = [i \in 1 .. Len(n) |-> Normalize(n)[i]]
    BY <1>2, <1>4 DEF Normalize
  <1> QED BY <1>2, <1>3, <1>5 DEF Normalize

\* Everything in a table is an entry, and everything it claims is a claim.
LEMMA TableTypes ==
    ASSUME TypeOK
    PROVE  /\ Len(data) \in Nat
           /\ DOMAIN data = 1 .. Len(data)
           /\ \A i \in 1 .. Len(data) :
                 /\ data[i] \in Provider
                 /\ data[i].id \in VendorIDs
                 /\ data[i].known \in BOOLEAN
                 /\ Len(data[i].claims) \in Nat
                 /\ DOMAIN data[i].claims = 1 .. Len(data[i].claims)
                 /\ \A j \in 1 .. Len(data[i].claims) :
                       /\ data[i].claims[j] \in Claims
                       /\ data[i].claims[j].kind \in Kinds
                       /\ data[i].claims[j].name \in Seq(Labels)
                       /\ data[i].claims[j].on \in VendorIDs \cup {Anybody}
  <1>1. data \in Seq(Provider)
    BY ProviderAssumption DEF TypeOK
  <1>2. \A i \in 1 .. Len(data) : data[i] \in Provider
    BY <1>1
  <1>3. \A v \in Provider : v.id \in VendorIDs /\ v.known \in BOOLEAN /\ v.claims \in Seq(Claims)
    BY DEF Provider
  <1>4. \A s \in Seq(Claims) : /\ Len(s) \in Nat /\ DOMAIN s = 1 .. Len(s)
                               /\ \A j \in 1 .. Len(s) : s[j] \in Claims
    OBVIOUS
  <1>5. \A c \in Claims : /\ c.kind \in Kinds /\ c.name \in Seq(Labels)
                          /\ c.on \in VendorIDs \cup {Anybody}
    BY DEF Claims
  <1> QED BY <1>1, <1>2, <1>3, <1>4, <1>5

-----------------------------------------------------------------------------
(***************************************************************************)
(* The inductive invariant: the maps hold exactly what has been read, and  *)
(* what has been read is clean.                                            *)
(***************************************************************************)

\* Load has been through claim j of entry i.
Read(i, j) == i < entry \/ (i = entry /\ j < claim)

\* A claim that has been read is usable, and is in the map of its kind, to the
\* credit of an entry with the id of the one that made it.
ReadIsEntered ==
    status # "failed" =>
        \A i \in 1 .. Len(data) : \A j \in 1 .. Len(data[i].claims) :
            Read(i, j) =>
                LET c == data[i].claims[j] IN
                /\ Usable(c)
                /\ Key(c) \in DOMAIN matcher[c.kind]
                /\ matcher[c.kind][Key(c)].id = data[i].id

\* What is in a map is to the credit of one of the table's entries that claims
\* it, and has been read.
EnteredIsRead ==
    \A k \in Kinds : \A key \in DOMAIN matcher[k] :
        \E i \in 1 .. Len(data) : \E j \in 1 .. Len(data[i].claims) :
            /\ Read(i, j)
            /\ data[i].claims[j].kind = k
            /\ Key(data[i].claims[j]) = key
            /\ matcher[k][key] = data[i]

\* The entries that have been begun have an id, a name and a category.
ReadIsKnown ==
    status # "failed" =>
        \A i \in 1 .. Len(data) :
            i < entry \/ (i = entry /\ claim > 0) => data[i].known

\* Load returns at the end of the table, or because it is not clean.
Returned ==
    /\ status = "loaded" => entry > Len(data)
    /\ entry > Len(data) => claim = 0
    /\ status = "failed" => ~Clean

IInv == TypeOK /\ ReadIsEntered /\ EnteredIsRead /\ ReadIsKnown /\ Returned

LEMMA InitIInv == Init => IInv
  <1> SUFFICES ASSUME Init PROVE IInv
    OBVIOUS
  <1>0. entry = 1 /\ claim = 0 /\ status = "loading" /\ data \in Tables
    BY DEF Init
  <1>1. data \in Seq(Provider) /\ Len(data) \in Nat
    <2>1. data \in Seq(Provider)
      BY <1>0, ProviderAssumption
    <2> QED BY <2>1
  <1>2. DOMAIN matcher = Kinds /\ \A k \in Kinds : DOMAIN matcher[k] = {}
    BY DEF Init, NoClaims
  <1>3. TypeOK
    <2>1. 1 <= Len(data) => data[1] \in Provider
      BY <1>1
    <2>2. \A v \in Provider : Len(v.claims) \in Nat
      BY DEF Provider
    <2> QED BY <1>0, <1>1, <1>2, <2>1, <2>2 DEF TypeOK, Entry
  <1>4. \A i \in 1 .. Len(data) : \A j \in 1 .. Len(data[i].claims) : ~Read(i, j)
    <2>1. ASSUME NEW i \in 1 .. Len(data), NEW j \in 1 .. Len(data[i].claims)
          PROVE  ~Read(i, j)
      <3>1. Len(data[i].claims) \in Nat
        BY <1>3, TableTypes
      <3> QED BY <1>0, <1>1, <3>1 DEF Read
    <2> QED BY <2>1
  <1>5. \A i \in 1 .. Len(data) : ~(i < entry \/ (i = entry /\ claim > 0))
    BY <1>0, <1>1
  <1>6. ReadIsEntered
    BY <1>4 DEF ReadIsEntered
  <1>7. EnteredIsRead
    BY <1>2 DEF EnteredIsRead
  <1>8. ReadIsKnown
    BY <1>5 DEF ReadIsKnown
  <1>9. Returned
    BY <1>0 DEF Returned
  <1> QED BY <1>3, <1>6, <1>7, <1>8, <1>9 DEF IInv

\* What a table's claims are does not change while it is read.
LEMMA DataStays == [Load]_vars => data' = data
  BY DEF Load, BadEntry, GoodEntry, BadClaim, GoodClaim, NextEntry, Loaded, Fail, vars

LEMMA CleanStays == data' = data => (Clean' <=> Clean)
  BY DEF Clean, ClaimsOf, Usable, Key, Normalize

\* An entry or a claim that Load refuses is one that no clean table has.
LEMMA RefusedIsUnclean ==
    ASSUME TypeOK, EnteredIsRead, BadEntry \/ BadClaim
    PROVE  ~Clean
  <1>1. CASE BadEntry
    BY <1>1, TableTypes DEF BadEntry, Reading, Entry, Clean, TypeOK
  <1>2. CASE BadClaim
    <2>1. /\ entry \in 1 .. Len(data) /\ entry \in DOMAIN data
          /\ claim \in DOMAIN data[entry].claims
          /\ Claim = data[entry].claims[claim] /\ Entry = data[entry]
          /\ Claim.kind \in Kinds
      BY <1>2, TableTypes DEF BadClaim, Reading, Entry, Claim, TypeOK
    <2>2. Claim \in ClaimsOf(entry)
      BY <2>1 DEF ClaimsOf
    <2>3. CASE ~Usable(Claim)
      BY <2>1, <2>2, <2>3 DEF Clean
    <2>4. CASE Conflict(Entry, Claim)
      <3>1. PICK i \in 1 .. Len(data) : \E j \in 1 .. Len(data[i].claims) :
                    /\ data[i].claims[j].kind = Claim.kind
                    /\ Key(data[i].claims[j]) = Key(Claim)
                    /\ matcher[Claim.kind][Key(Claim)] = data[i]
        BY <2>1, <2>4 DEF EnteredIsRead, Conflict
      <3>2. PICK j \in 1 .. Len(data[i].claims) :
                    /\ data[i].claims[j].kind = Claim.kind
                    /\ Key(data[i].claims[j]) = Key(Claim)
                    /\ matcher[Claim.kind][Key(Claim)] = data[i]
        BY <3>1
      <3>3. i \in DOMAIN data /\ data[i].claims[j] \in ClaimsOf(i)
        BY TableTypes DEF ClaimsOf
      <3>4. data[i].id # data[entry].id
        BY <2>1, <2>4, <3>2 DEF Conflict
      <3> QED BY <2>1, <2>2, <3>2, <3>3, <3>4 DEF Clean
    <2> QED BY <1>2, <2>3, <2>4 DEF BadClaim
  <1> QED BY <1>1, <1>2

-----------------------------------------------------------------------------
\* Type correctness.
LEMMA TypeStep == TypeOK /\ [Load]_vars => TypeOK'
  <1> SUFFICES ASSUME TypeOK, [Load]_vars
               PROVE  TypeOK'
    OBVIOUS
  <1>0. /\ data \in Tables /\ entry \in 1 .. Len(data) + 1 /\ claim \in Nat
        /\ entry <= Len(data) => claim <= Len(data[entry].claims) + 1
        /\ Len(data) \in Nat
        /\ entry <= Len(data) => entry \in 1 .. Len(data)
        /\ \A i \in 1 .. Len(data) : Len(data[i].claims) \in Nat
    BY TableTypes DEF TypeOK, Entry
  <1>1. ASSUME Fail
        PROVE  TypeOK'
    BY <1>1, <1>0 DEF Fail, NoClaims, TypeOK, Entry
  <1>2. CASE GoodEntry
    BY <1>2, <1>0 DEF GoodEntry, Reading, TypeOK, Entry
  <1>3. CASE GoodClaim
    <2>1. /\ entry \in 1 .. Len(data) /\ claim \in 1 .. Len(data[entry].claims)
          /\ Entry = data[entry] /\ Claim = data[entry].claims[claim]
      BY <1>3, <1>0 DEF GoodClaim, Reading, Entry, Claim
    <2>2. /\ Entry \in Provider /\ Claim.kind \in Kinds
          /\ Claim.name \in Seq(Labels) /\ Claim.on \in VendorIDs \cup {Anybody}
      BY <2>1, TableTypes
    <2>3. Key(Claim)[1] \in Seq(Labels) /\ Key(Claim)[2] \in VendorIDs \cup {Anybody}
      BY <2>2, NormalizeSettles DEF Key
    <2>4. matcher' = [matcher EXCEPT ![Claim.kind] = With(@, Key(Claim), Entry)]
      BY <1>3 DEF GoodClaim
    <2>5. DOMAIN matcher' = Kinds
      BY <2>4 DEF TypeOK
    <2>6. \A k \in Kinds : \A key \in DOMAIN matcher'[k] :
             /\ key[1] \in Seq(Labels) /\ key[2] \in VendorIDs \cup {Anybody}
             /\ matcher'[k][key] \in Provider
      BY <2>2, <2>3, <2>4 DEF TypeOK, With
    <2>7. UNCHANGED <<data, entry, status>> /\ claim' = claim + 1
      BY <1>3 DEF GoodClaim
    <2>8. claim' \in Nat /\ (entry' <= Len(data') => claim' <= Len(data'[entry'].claims) + 1)
      BY <2>1, <2>7, <1>0
    <2> QED BY <2>5, <2>6, <2>7, <2>8 DEF TypeOK, Entry
  <1>4. CASE NextEntry
    BY <1>4, <1>0 DEF NextEntry, Reading, TypeOK, Entry
  <1>5. CASE Loaded
    BY <1>5 DEF Loaded, TypeOK, Entry
  <1>6. CASE UNCHANGED vars
    BY <1>6 DEF vars, TypeOK, Entry
  <1> QED BY <1>1, <1>2, <1>3, <1>4, <1>5, <1>6 DEF Load, BadEntry, BadClaim

\* What the key of a claim is does not depend on the state.
LEMMA KeyStays == \A c : Key(c)' = Key(c) /\ (Usable(c)' <=> Usable(c))
  BY DEF Key, Usable, Normalize

LEMMA ReadIsEnteredStep ==
    TypeOK /\ ReadIsEntered /\ [Load]_vars => ReadIsEntered'
  <1> SUFFICES ASSUME TypeOK, ReadIsEntered, [Load]_vars
               PROVE  ReadIsEntered'
    OBVIOUS
  <1>0. /\ data' = data /\ Len(data) \in Nat /\ claim \in Nat
        /\ entry \in 1 .. Len(data) + 1
        /\ \A i \in 1 .. Len(data) : Len(data[i].claims) \in Nat
    BY DataStays, TableTypes DEF TypeOK
  <1>1. ASSUME Fail
        PROVE  ReadIsEntered'
    BY <1>1 DEF Fail, ReadIsEntered
  \* Nothing is read that was not, and the maps stay as they are.
  <1>2. ASSUME UNCHANGED matcher, status # "failed",
               \A i \in 1 .. Len(data) : \A j \in 1 .. Len(data[i].claims) : Read(i, j)' => Read(i, j)
        PROVE  ReadIsEntered'
    BY <1>0, <1>2, KeyStays DEF ReadIsEntered
  <1>3. CASE GoodEntry
    BY <1>0, <1>2, <1>3 DEF GoodEntry, Reading, Read
  <1>4. CASE GoodClaim
    <2>1. /\ entry \in 1 .. Len(data) /\ claim \in 1 .. Len(data[entry].claims)
          /\ Entry = data[entry] /\ Claim = data[entry].claims[claim]
          /\ matcher' = [matcher EXCEPT ![Claim.kind] = With(@, Key(Claim), Entry)]
          /\ Usable(Claim) /\ ~Conflict(Entry, Claim)
          /\ entry' = entry /\ claim' = claim + 1 /\ status # "failed"
      BY <1>0, <1>4 DEF GoodClaim, Reading, Entry, Claim
    <2>2. ASSUME NEW i \in 1 .. Len(data), NEW j \in 1 .. Len(data[i].claims), Read(i, j)'
          PROVE  LET c == data[i].claims[j] IN
                 /\ Usable(c)
                 /\ Key(c) \in DOMAIN matcher'[c.kind]
                 /\ matcher'[c.kind][Key(c)].id = data[i].id
      <3> DEFINE c == data[i].claims[j]
      <3>1. c.kind \in Kinds /\ Claim.kind \in Kinds /\ Kinds = DOMAIN matcher
        BY <2>1, TableTypes DEF TypeOK
      <3>2. CASE i = entry /\ j = claim
        BY <2>1, <3>1, <3>2 DEF With
      <3>3. CASE ~(i = entry /\ j = claim)
        <4>1. Read(i, j)
          BY <1>0, <2>1, <2>2, <3>3 DEF Read
        <4>2. /\ Usable(c)
              /\ Key(c) \in DOMAIN matcher[c.kind]
              /\ matcher[c.kind][Key(c)].id = data[i].id
          BY <2>1, <4>1 DEF ReadIsEntered
        <4>3. CASE c.kind = Claim.kind /\ Key(c) = Key(Claim)
          <5>1. Entry.id = data[i].id
            BY <2>1, <4>2, <4>3 DEF Conflict
          <5> QED BY <2>1, <3>1, <4>2, <4>3, <5>1 DEF With
        <4>4. CASE ~(c.kind = Claim.kind /\ Key(c) = Key(Claim))
          BY <2>1, <3>1, <4>2, <4>4 DEF With
        <4> QED BY <4>3, <4>4
      <3> QED BY <3>2, <3>3
    <2> QED BY <1>0, <2>2, KeyStays DEF ReadIsEntered
  <1>5. CASE NextEntry
    BY <1>0, <1>2, <1>5 DEF NextEntry, Reading, Entry, Read
  <1>6. CASE Loaded
    BY <1>0, <1>2, <1>6 DEF Loaded, Read
  <1>7. CASE UNCHANGED vars
    BY <1>7, KeyStays DEF vars, ReadIsEntered, Read
  <1> QED BY <1>1, <1>3, <1>4, <1>5, <1>6, <1>7 DEF Load, BadEntry, BadClaim

LEMMA EnteredIsReadStep ==
    TypeOK /\ EnteredIsRead /\ [Load]_vars => EnteredIsRead'
  <1> SUFFICES ASSUME TypeOK, EnteredIsRead, [Load]_vars
               PROVE  EnteredIsRead'
    OBVIOUS
  <1>0. /\ data' = data /\ Len(data) \in Nat /\ claim \in Nat
        /\ entry \in 1 .. Len(data) + 1
        /\ \A i \in 1 .. Len(data) : Len(data[i].claims) \in Nat
    BY DataStays, TableTypes DEF TypeOK
  <1>1. ASSUME Fail
        PROVE  EnteredIsRead'
    BY <1>1 DEF Fail, NoClaims, EnteredIsRead
  \* Nothing that was read is not, and the maps stay as they are.
  <1>2. ASSUME UNCHANGED matcher,
               \A i \in 1 .. Len(data) : \A j \in 1 .. Len(data[i].claims) : Read(i, j) => Read(i, j)'
        PROVE  EnteredIsRead'
    <2>1. ASSUME NEW k \in Kinds, NEW key \in DOMAIN matcher'[k]
          PROVE  \E i \in 1 .. Len(data) : \E j \in 1 .. Len(data[i].claims) :
                     /\ Read(i, j)'
                     /\ data[i].claims[j].kind = k
                     /\ Key(data[i].claims[j]) = key
                     /\ matcher'[k][key] = data[i]
      BY <1>2 DEF EnteredIsRead
    <2> QED BY <1>0, <2>1, KeyStays DEF EnteredIsRead
  <1>3. CASE GoodEntry
    BY <1>0, <1>2, <1>3 DEF GoodEntry, Read
  <1>4. CASE GoodClaim
    <2>1. /\ entry \in 1 .. Len(data) /\ claim \in 1 .. Len(data[entry].claims)
          /\ Entry = data[entry] /\ Claim = data[entry].claims[claim]
          /\ matcher' = [matcher EXCEPT ![Claim.kind] = With(@, Key(Claim), Entry)]
          /\ entry' = entry /\ claim' = claim + 1
      BY <1>0, <1>4 DEF GoodClaim, Reading, Entry, Claim
    <2>2. Claim.kind \in Kinds /\ Kinds = DOMAIN matcher
      BY <2>1, TableTypes DEF TypeOK
    <2>3. \A i \in 1 .. Len(data) : \A j \in 1 .. Len(data[i].claims) :
             i = entry /\ j = claim => Read(i, j)'
      BY <1>0, <2>1 DEF Read
    <2>4. \A i \in 1 .. Len(data) : \A j \in 1 .. Len(data[i].claims) : Read(i, j) => Read(i, j)'
      BY <1>0, <2>1 DEF Read
    <2>5. ASSUME NEW k \in Kinds, NEW key \in DOMAIN matcher'[k]
          PROVE  \E i \in 1 .. Len(data) : \E j \in 1 .. Len(data[i].claims) :
                     /\ Read(i, j)'
                     /\ data[i].claims[j].kind = k
                     /\ Key(data[i].claims[j]) = key
                     /\ matcher'[k][key] = data[i]
      <3>1. CASE k = Claim.kind /\ key = Key(Claim)
        <4>1. matcher'[k][key] = data[entry]
          BY <2>1, <2>2, <3>1 DEF With
        <4> QED BY <2>1, <2>3, <3>1, <4>1
      <3>2. CASE ~(k = Claim.kind /\ key = Key(Claim))
        <4>1. key \in DOMAIN matcher[k] /\ matcher'[k][key] = matcher[k][key]
          BY <2>1, <2>2, <2>5, <3>2 DEF With
        <4> QED BY <2>4, <4>1 DEF EnteredIsRead
      <3> QED BY <3>1, <3>2
    <2> QED BY <1>0, <2>5, KeyStays DEF EnteredIsRead
  <1>5. CASE NextEntry
    BY <1>0, <1>2, <1>5 DEF NextEntry, Read
  <1>6. CASE Loaded
    BY <1>0, <1>2, <1>6 DEF Loaded, Read
  <1>7. CASE UNCHANGED vars
    BY <1>7, KeyStays DEF vars, EnteredIsRead, Read
  <1> QED BY <1>1, <1>3, <1>4, <1>5, <1>6, <1>7 DEF Load, BadEntry, BadClaim

LEMMA ReturnedStep ==
    /\ TypeOK /\ EnteredIsRead /\ ReadIsKnown /\ Returned /\ [Load]_vars
    => ReadIsKnown' /\ Returned'
  <1> SUFFICES ASSUME TypeOK, EnteredIsRead, ReadIsKnown, Returned, [Load]_vars
               PROVE  ReadIsKnown' /\ Returned'
    OBVIOUS
  <1>0. /\ data' = data /\ Len(data) \in Nat /\ claim \in Nat
        /\ entry \in 1 .. Len(data) + 1
        /\ \A i \in 1 .. Len(data) : Len(data[i].claims) \in Nat
        /\ Clean' <=> Clean
    BY DataStays, CleanStays, TableTypes DEF TypeOK
  <1>1. ASSUME BadEntry \/ BadClaim
        PROVE  ReadIsKnown' /\ Returned'
    <2>1. ~Clean
      BY <1>1, RefusedIsUnclean
    <2>2. Fail /\ entry <= Len(data)
      BY <1>1 DEF BadEntry, BadClaim, Reading
    <2> QED BY <1>0, <2>1, <2>2 DEF Fail, ReadIsKnown, Returned
  <1>2. CASE GoodEntry
    BY <1>0, <1>2 DEF GoodEntry, Reading, Entry, ReadIsKnown, Returned
  <1>3. CASE GoodClaim
    BY <1>0, <1>3 DEF GoodClaim, Reading, Entry, ReadIsKnown, Returned
  <1>4. CASE NextEntry
    BY <1>0, <1>4 DEF NextEntry, Reading, Entry, ReadIsKnown, Returned
  <1>5. CASE Loaded
    BY <1>0, <1>5 DEF Loaded, ReadIsKnown, Returned
  <1>6. CASE UNCHANGED vars
    BY <1>0, <1>6 DEF vars, ReadIsKnown, Returned
  <1> QED BY <1>1, <1>2, <1>3, <1>4, <1>5, <1>6 DEF Load

LEMMA Invariance == Spec => []IInv
  <1>1. IInv /\ [Load]_vars => IInv'
    BY TypeStep, ReadIsEnteredStep, EnteredIsReadStep, ReturnedStep DEF IInv
  <1> QED BY <1>1, InitIInv, PTL DEF Spec

-----------------------------------------------------------------------------
\* The types of Provider's variables hold whatever the tables are.
THEOREM TypeCorrect == Spec => []TypeOK
  BY Invariance, PTL DEF IInv

\* A table is loaded exactly if it is clean: whichever entry comes first, no
\* vendor silently takes the place of another (Load, provider.go).
THEOREM LoadedExactlyIfClean == Spec => []LoadedIfClean
  <1>1. IInv => LoadedIfClean
    <2> SUFFICES ASSUME IInv PROVE LoadedIfClean
      OBVIOUS
    <2>0. TypeOK /\ ReadIsEntered /\ ReadIsKnown /\ Returned /\ DOMAIN data = 1 .. Len(data)
      BY TableTypes DEF IInv
    <2>1. ASSUME status = "loaded"
          PROVE  Clean
      <3>1. \A i \in 1 .. Len(data) : i < entry
        BY <2>0, <2>1, TableTypes DEF Returned, TypeOK
      <3>2. \A i \in DOMAIN data : data[i].known
        BY <2>0, <2>1, <3>1 DEF ReadIsKnown
      <3>3. \A i \in DOMAIN data : \A c \in ClaimsOf(i) :
               Usable(c) /\ matcher[c.kind][Key(c)].id = data[i].id
        <4> SUFFICES ASSUME NEW i \in 1 .. Len(data), NEW j \in DOMAIN data[i].claims
                     PROVE  LET c == data[i].claims[j]
                            IN Usable(c) /\ matcher[c.kind][Key(c)].id = data[i].id
          BY <2>0 DEF ClaimsOf
        <4>1. j \in 1 .. Len(data[i].claims)
          BY <2>0, TableTypes
        <4> QED BY <2>0, <2>1, <3>1, <4>1 DEF ReadIsEntered, Read
      <3> QED BY <3>2, <3>3 DEF Clean
    <2> QED BY <2>0, <2>1 DEF Returned, LoadedIfClean
  <1> QED BY <1>1, Invariance, PTL

\* Once a table is loaded, the Match functions lead every claim in it back to
\* the vendor that made it; to the entry Get finds, if ids are unique.
THEOREM ClaimsAnswer == Spec => []EveryClaimAnswers
  <1>1. IInv => EveryClaimAnswers
    <2> SUFFICES ASSUME IInv, status = "loaded",
                        NEW i \in DOMAIN data, NEW c \in ClaimsOf(i)
                 PROVE  /\ Match(c) # Nobody
                        /\ Match(c).id = data[i].id
                        /\ (\A j, k \in DOMAIN data : data[j].id = data[k].id => j = k)
                              => Match(c) = Get(data[i].id)
      BY DEF EveryClaimAnswers
    <2>0. TypeOK /\ ReadIsEntered /\ EnteredIsRead /\ Returned
      BY DEF IInv
    <2>1. i \in 1 .. Len(data) /\ DOMAIN data = 1 .. Len(data) /\ i < entry
      BY <2>0, TableTypes DEF Returned, TypeOK
    <2>2. PICK j \in 1 .. Len(data[i].claims) : c = data[i].claims[j]
      BY <2>0, <2>1, TableTypes DEF ClaimsOf
    <2>3. /\ c.kind \in Kinds /\ c.name \in Seq(Labels) /\ c \in Claims
          /\ data[i].id \in VendorIDs
      BY <2>0, <2>1, <2>2, TableTypes
    <2>4. /\ Usable(c) /\ Key(c) \in DOMAIN matcher[c.kind]
          /\ matcher[c.kind][Key(c)].id = data[i].id
      BY <2>0, <2>1, <2>2 DEF ReadIsEntered, Read
    <2>5. data[i].id # Nobody.id
      <3>1. "" \notin VendorIDs
        BY ProviderAssumption
      <3>2. Nobody.id = ""
        BY DEF Nobody
      <3> QED BY <2>3, <3>1, <3>2
    <2>6. Match(c) = matcher[c.kind][Key(c)]
      <3>1. CASE c.kind \in SuffixKinds
        <4> DEFINE n == Normalize(c.name)
        <4>1. n \in Seq(Labels) /\ Len(n) \in Nat /\ Len(n) >= 2
          BY <2>3, <2>4, <3>1, NormalizeSettles DEF Usable
        <4>2. Suffix(n, 1) = n
          BY <4>1 DEF Suffix
        <4>3. Key(c) = <<n, Anybody>>
          BY <2>3, <3>1 DEF Key, Claims, SuffixKinds
        <4>4. 1 \in Hits(c.kind, n)
          BY <2>4, <4>1, <4>2, <4>3, SMTT(30) DEF Hits
        <4>5. \A x \in Hits(c.kind, n) : x \in 1 .. Len(n)
          BY DEF Hits
        <4>6. (CHOOSE x \in Hits(c.kind, n) : \A y \in Hits(c.kind, n) : x <= y) = 1
          BY <4>1, <4>4, <4>5
        <4>7. Lookup(c.kind, c.name) = matcher[c.kind][<<Suffix(n, 1), Anybody>>]
          BY <4>4, <4>6 DEF Lookup
        <4> QED BY <3>1, <4>2, <4>3, <4>7 DEF Match
      <3>2. CASE c.kind = "mailfrom"
        <4>1. At("mailfrom", Key(c)) = matcher[c.kind][Key(c)]
          BY <2>4, <3>2 DEF At
        <4>2. At("mailfrom", Key(c)) # Nobody
          BY <2>4, <2>5, <4>1
        <4> QED BY <3>2, <4>1, <4>2 DEF Match, MatchMailFrom, Key, SuffixKinds
      <3>3. CASE c.kind \notin SuffixKinds /\ c.kind # "mailfrom"
        BY <2>3, <2>4, <3>3 DEF Match, Exactly, At, Key, Claims
      <3> QED BY <3>1, <3>2, <3>3
    <2>7. Match(c) # Nobody /\ Match(c).id = data[i].id
      BY <2>4, <2>6, <2>5
    <2>8. ASSUME \A k, l \in DOMAIN data : data[k].id = data[l].id => k = l
          PROVE  Match(c) = Get(data[i].id)
      <3>1. PICK m \in 1 .. Len(data) : matcher[c.kind][Key(c)] = data[m]
        BY <2>0, <2>3, <2>4 DEF EnteredIsRead
      <3>2. m = i
        BY <2>1, <2>4, <2>8, <3>1
      <3>3. {k \in DOMAIN data : data[k].id = data[i].id} = {i}
        BY <2>1, <2>8
      <3>4. Get(data[i].id) = data[i]
        BY <2>1, <3>3 DEF Get
      <3> QED BY <2>6, <3>1, <3>2, <3>4
    <2> QED BY <2>7, <2>8
  <1> QED BY <1>1, Invariance, PTL

-----------------------------------------------------------------------------
(***************************************************************************)
(* Inbound: sequences of what is in a set, and their sorting.              *)
(***************************************************************************)

\* s lists the elements of S, each of them once.
Lists(s, S) ==
    /\ s \in Seq(S)
    /\ S = {s[i] : i \in 1 .. Len(s)}
    /\ \A i, j \in 1 .. Len(s) : i # j => s[i] # s[j]

\* A resolver's answer, in whatever order, is all there is.
LEMMA AnswerLists ==
    ASSUME NEW S, IsFiniteSet(S), NEW s \in SetToSeqs(S)
    PROVE  Lists(s, S) /\ Len(s) = Cardinality(S) /\ Len(s) \in Nat
  <1> DEFINE n == Cardinality(S)
  <1>1. n \in Nat
    BY FS_CardinalityType
  <1>2. s \in [1 .. n -> S] /\ \A i, j \in 1 .. n : i # j => s[i] # s[j]
    BY DEF SetToSeqs
  <1>3. S = {s[i] : i \in 1 .. n}
    <2>1. \A x \in S : \E i \in 1 .. n : x = s[i]
      BY <1>1, <1>2, ListsAll
    <2> QED BY <1>2, <2>1
  <1>4. Len(s) = n /\ s \in Seq(S)
    BY <1>1, <1>2
  <1> QED BY <1>1, <1>2, <1>3, <1>4 DEF Lists

\* To arrange a sequence is to number its elements anew.
LEMMA Renumbering ==
    ASSUME NEW n \in Nat, NEW p \in [1 .. n -> 1 .. n], IsInjective(p)
    PROVE  /\ \A i, j \in 1 .. n : i # j => p[i] # p[j]
           /\ \A k \in 1 .. n : \E i \in 1 .. n : k = p[i]
  <1>1. \A i, j \in 1 .. n : i # j => p[i] # p[j]
    BY DEF IsInjective
  <1>2. PICK S : S = 1 .. n
    OBVIOUS
  <1>3. IsFiniteSet(S) /\ n = Cardinality(S)
    BY <1>2, FS_Interval
  <1>4. p \in [1 .. n -> S]
    BY <1>2
  <1>5. \A k \in S : \E i \in 1 .. n : k = p[i]
    BY <1>1, <1>3, <1>4, ListsAll, SMTT(60)
  <1> QED BY <1>1, <1>2, <1>5

\* Sorting addresses puts them in order and loses none.
LEMMA SortedAddresses ==
    ASSUME NEW S \in SUBSET Nat, NEW s, Lists(s, S)
    PROVE  /\ Lists(Sorted(s), S)
           /\ \A i, j \in 1 .. Len(Sorted(s)) : i < j => Sorted(s)[i] < Sorted(s)[j]
  <1>0. PICK n \in Nat : n = Len(s)
    BY DEF Lists
  <1>1. n \in Nat /\ DOMAIN s = 1 .. n /\ \A i \in 1 .. n : s[i] \in S /\ s[i] \in Nat
    <2>1. s \in Seq(S)
      BY DEF Lists
    <2>2. n \in Nat /\ DOMAIN s = 1 .. n
      BY <1>0, <2>1
    <2>3. \A i \in 1 .. n : s[i] \in S
      BY <1>0, <2>1
    <2> QED BY <2>2, <2>3
  <1> DEFINE R == {x \in (1 .. n) \X (1 .. n) : s[x[1]] <= s[x[2]]}
  <1>2. \A i, j \in 1 .. n : <<i, j>> \in R <=> s[i] <= s[j]
    OBVIOUS
  <1> HIDE DEF R
  <1>3. \A i, j \in 1 .. n : <<i, j>> \in R \/ <<j, i>> \in R
    <2> SUFFICES ASSUME NEW i \in 1 .. n, NEW j \in 1 .. n
                 PROVE  <<i, j>> \in R \/ <<j, i>> \in R
      OBVIOUS
    <2>1. s[i] <= s[j] \/ s[j] <= s[i]
      BY <1>1
    <2> QED BY <1>2, <2>1
  <1>4. \A i, j, k \in 1 .. n : <<i, j>> \in R /\ <<j, k>> \in R => <<i, k>> \in R
    BY <1>1, <1>2
  <1>5. PICK p \in [1 .. n -> 1 .. n] :
           \A i, j \in 1 .. n : i < j => p[i] # p[j] /\ <<p[i], p[j]>> \in R
    BY <1>1, <1>3, <1>4, Sortable
  <1> DEFINE InOrder(t) == \A i, j \in DOMAIN t : i < j => t[i] <= t[j]
             u == [i \in DOMAIN s |-> s[p[i]]]
  <1>6. u \in Arranged(s)
    <2>1. \A i, j \in 1 .. n : i # j => p[i] # p[j]
      <3>1. \A i, j \in 1 .. n : i # j => i < j \/ j < i
        OBVIOUS
      <3> QED BY <1>5, <3>1
    <2>2. p \in [DOMAIN s -> DOMAIN s] /\ IsInjective(p)
      BY <1>1, <2>1 DEF IsInjective
    <2> QED BY <2>2 DEF Arranged
  <1>7. InOrder(u)
    <2> SUFFICES ASSUME NEW i \in 1 .. n, NEW j \in 1 .. n, i < j
                 PROVE  s[p[i]] <= s[p[j]]
      BY <1>1
    <2>1. p[i] \in 1 .. n /\ p[j] \in 1 .. n /\ <<p[i], p[j]>> \in R
      BY <1>5
    <2> QED BY <1>2, <2>1
  <1>8. Sorted(s) \in Arranged(s) /\ InOrder(Sorted(s))
    <2> HIDE DEF u
    <2> QED BY <1>6, <1>7 DEF Sorted
  <1>9. PICK q \in [1 .. n -> 1 .. n] :
           IsInjective(q) /\ Sorted(s) = [i \in 1 .. n |-> s[q[i]]]
    BY <1>1, <1>8 DEF Arranged
  <1> HIDE DEF InOrder, u
  <1>9a. /\ \A i, j \in 1 .. n : i # j => q[i] # q[j]
         /\ \A k \in 1 .. n : \E i \in 1 .. n : k = q[i]
    BY <1>9, Renumbering
  <1>10. /\ Sorted(s) \in Seq(S) /\ Len(Sorted(s)) = n
         /\ \A i \in 1 .. n : Sorted(s)[i] = s[q[i]] /\ q[i] \in 1 .. n
    <2>1. \A i \in 1 .. n : q[i] \in 1 .. n /\ s[q[i]] \in S
      BY <1>1
    <2> QED BY <1>9, <2>1
  <1>11. ASSUME NEW i \in 1 .. n, NEW j \in 1 .. n, i # j
         PROVE  Sorted(s)[i] # Sorted(s)[j]
    <2>1. q[i] # q[j] /\ q[i] \in 1 .. n /\ q[j] \in 1 .. n
      BY <1>9a, <1>10, <1>11
    <2>2. s[q[i]] # s[q[j]]
      BY <1>0, <2>1 DEF Lists
    <2>3. Sorted(s)[i] = s[q[i]] /\ Sorted(s)[j] = s[q[j]]
      BY <1>10
    <2> QED BY <2>2, <2>3
  <1>12. S = {Sorted(s)[i] : i \in 1 .. n}
    <2>1. ASSUME NEW x \in S
          PROVE  \E i \in 1 .. n : x = Sorted(s)[i]
      <3>1. PICK k \in 1 .. n : x = s[k]
        BY <1>0 DEF Lists
      <3>2. PICK i \in 1 .. n : k = q[i]
        BY <1>9a
      <3> QED BY <1>10, <3>1, <3>2
    <2>2. \A i \in 1 .. n : Sorted(s)[i] \in S
      BY <1>1, <1>10
    <2> QED BY <2>1, <2>2
  <1>13. Lists(Sorted(s), S)
    BY <1>10, <1>11, <1>12 DEF Lists
  <1>14. ASSUME NEW i \in 1 .. n, NEW j \in 1 .. n, i < j
         PROVE  Sorted(s)[i] < Sorted(s)[j]
    <2>1. Sorted(s)[i] <= Sorted(s)[j]
      <3>1. DOMAIN Sorted(s) = 1 .. n
        BY <1>9
      <3> QED BY <1>8, <1>14, <3>1 DEF InOrder
    <2>2. Sorted(s)[i] # Sorted(s)[j]
      BY <1>11, <1>14
    <2>3. Sorted(s)[i] \in Nat /\ Sorted(s)[j] \in Nat
      BY <1>1, <1>10
    <2>4. \A a, b \in Nat : a <= b /\ a # b => a < b
      OBVIOUS
    <2> QED BY <2>1, <2>2, <2>3, <2>4
  <1> QED BY <1>10, <1>13, <1>14

\* A host, as Lookup reports it.
Host == [Host : Names \cup {Root}, Pref : Nat, IPs : Seq(Nat), Implicit : BOOLEAN]

\* Preference and then name order any two hosts that differ in one or other.
LEMMA BeforeOrders ==
    /\ \A h, k \in Host : ~Before(h, k) \/ ~Before(k, h)
    /\ \A h, k, l \in Host : ~Before(k, h) /\ ~Before(l, k) => ~Before(l, h)
    /\ \A h, k \in Host :
          ~Before(k, h) /\ (h.Host # k.Host \/ h.Pref # k.Pref) => Before(h, k)
  <1>1. \A h \in Host : h.Pref \in Nat /\ Rank[h.Host] \in Nat
    BY InboundAssumption DEF Host
  <1>2. ASSUME NEW h \in Host, NEW k \in Host, h.Host # k.Host
        PROVE  Rank[h.Host] # Rank[k.Host]
    <2>1. h.Host \in DOMAIN Rank /\ k.Host \in DOMAIN Rank
      BY InboundAssumption DEF Host
    <2> QED BY <1>2, <2>1, InboundAssumption DEF IsInjective
  <1>3. ASSUME NEW h \in Host, NEW k \in Host
        PROVE  ~Before(h, k) \/ ~Before(k, h)
    BY <1>1 DEF Before
  <1>4. ASSUME NEW h \in Host, NEW k \in Host, NEW l \in Host,
               ~Before(k, h), ~Before(l, k)
        PROVE  ~Before(l, h)
    BY <1>1, <1>4 DEF Before
  <1>5. ASSUME NEW h \in Host, NEW k \in Host,
               ~Before(k, h), h.Host # k.Host \/ h.Pref # k.Pref
        PROVE  Before(h, k)
    BY <1>1, <1>2, <1>5 DEF Before
  <1> QED BY <1>3, <1>4, <1>5

\* Sorting hosts that differ in name or preference puts them in order; none is
\* lost, and of each only the order of the addresses changes.
LEMMA SortedHosts ==
    ASSUME NEW hs \in Seq(Host),
           \A i \in 1 .. Len(hs) : \E S \in SUBSET Nat : Lists(hs[i].IPs, S),
           \A i, j \in 1 .. Len(hs) :
              i # j => hs[i].Host # hs[j].Host \/ hs[i].Pref # hs[j].Pref
    PROVE  /\ SortHosts(hs) \in Seq(Host)
           /\ Len(SortHosts(hs)) = Len(hs)
           /\ \A i, j \in 1 .. Len(hs) : i < j => Before(SortHosts(hs)[i], SortHosts(hs)[j])
           /\ \A i \in 1 .. Len(hs) : \E k \in 1 .. Len(hs) :
                 SortHosts(hs)[i] = [hs[k] EXCEPT !.IPs = Sorted(hs[k].IPs)]
           /\ \A k \in 1 .. Len(hs) : \E i \in 1 .. Len(hs) :
                 SortHosts(hs)[i] = [hs[k] EXCEPT !.IPs = Sorted(hs[k].IPs)]
  <1>0. PICK n \in Nat : n = Len(hs)
    OBVIOUS
  <1>1. PICK was : was = AddressesSorted(hs)
    OBVIOUS
  <1>2. /\ DOMAIN was = 1 .. n
        /\ \A i \in 1 .. n : was[i] = [hs[i] EXCEPT !.IPs = Sorted(hs[i].IPs)]
    BY <1>0, <1>1 DEF AddressesSorted
  <1>3. \A i \in 1 .. n : /\ was[i] \in Host
                          /\ was[i].Host = hs[i].Host /\ was[i].Pref = hs[i].Pref
    <2> SUFFICES ASSUME NEW i \in 1 .. n
                 PROVE  /\ was[i] \in Host
                        /\ was[i].Host = hs[i].Host /\ was[i].Pref = hs[i].Pref
      OBVIOUS
    <2>1. hs[i] \in Host /\ i \in 1 .. Len(hs)
      BY <1>0
    <2>2. PICK S \in SUBSET Nat : Lists(hs[i].IPs, S)
      BY <2>1
    <2>3. Sorted(hs[i].IPs) \in Seq(S)
      <3>1. PICK ips : ips = hs[i].IPs
        OBVIOUS
      <3>2. Lists(ips, S)
        BY <2>2, <3>1
      <3>3. Lists(Sorted(ips), S)
        BY <3>2, SortedAddresses
      <3> QED BY <3>1, <3>3 DEF Lists
    <2>4. Sorted(hs[i].IPs) \in Seq(Nat)
      <3>1. ASSUME NEW t \in Seq(S)
            PROVE  t \in Seq(Nat)
        <4>1. PICK m \in Nat : t \in [1 .. m -> S]
          BY SeqDef
        <4>2. t \in [1 .. m -> Nat]
          BY <4>1
        <4> QED BY <4>2, SeqDef
      <3> QED BY <2>3, <3>1
    <2> QED BY <1>2, <2>1, <2>4 DEF Host
  <1> DEFINE R == {x \in (1 .. n) \X (1 .. n) : ~Before(was[x[2]], was[x[1]])}
  <1>4. \A i, j \in 1 .. n : <<i, j>> \in R <=> ~Before(was[j], was[i])
    OBVIOUS
  <1> HIDE DEF R
  <1>5. \A i, j \in 1 .. n : <<i, j>> \in R \/ <<j, i>> \in R
    BY <1>3, <1>4, BeforeOrders
  <1>6. \A i, j, k \in 1 .. n : <<i, j>> \in R /\ <<j, k>> \in R => <<i, k>> \in R
    <2> SUFFICES ASSUME NEW i \in 1 .. n, NEW j \in 1 .. n, NEW k \in 1 .. n,
                        <<i, j>> \in R, <<j, k>> \in R
                 PROVE  <<i, k>> \in R
      OBVIOUS
    <2>1. was[i] \in Host /\ was[j] \in Host /\ was[k] \in Host
      BY <1>3
    <2>2. ~Before(was[j], was[i]) /\ ~Before(was[k], was[j])
      BY <1>4
    <2>3. ~Before(was[k], was[i])
      BY <2>1, <2>2, BeforeOrders
    <2> QED BY <1>4, <2>3
  <1>7. PICK p \in [1 .. n -> 1 .. n] :
           \A i, j \in 1 .. n : i < j => p[i] # p[j] /\ <<p[i], p[j]>> \in R
    BY <1>5, <1>6, Sortable
  <1> DEFINE InOrder(t) == \A i, j \in DOMAIN t : i < j => ~Before(t[j], t[i])
             u == [i \in DOMAIN was |-> was[p[i]]]
  <1>8. u \in Arranged(was)
    <2>1. \A i, j \in 1 .. n : i # j => p[i] # p[j]
      <3>1. \A i, j \in 1 .. n : i # j => i < j \/ j < i
        OBVIOUS
      <3> QED BY <1>7, <3>1
    <2>2. p \in [DOMAIN was -> DOMAIN was] /\ IsInjective(p)
      BY <1>2, <2>1 DEF IsInjective
    <2> QED BY <2>2 DEF Arranged
  <1>9. InOrder(u)
    <2> SUFFICES ASSUME NEW i \in 1 .. n, NEW j \in 1 .. n, i < j
                 PROVE  ~Before(was[p[j]], was[p[i]])
      BY <1>2
    <2>1. p[i] \in 1 .. n /\ p[j] \in 1 .. n /\ <<p[i], p[j]>> \in R
      BY <1>7
    <2> QED BY <1>4, <2>1
  <1>10. PICK t \in Arranged(was) : t = SortHosts(hs) /\ InOrder(t)
    <2>1. SortHosts(hs) = CHOOSE t \in Arranged(was) : InOrder(t)
      BY <1>1 DEF SortHosts
    <2> HIDE DEF u, InOrder
    <2> QED BY <1>8, <1>9, <2>1
  <1>11. PICK q \in [1 .. n -> 1 .. n] : IsInjective(q) /\ t = [i \in 1 .. n |-> was[q[i]]]
    BY <1>2 DEF Arranged
  <1>12. /\ \A i, j \in 1 .. n : i # j => q[i] # q[j]
         /\ \A k \in 1 .. n : \E i \in 1 .. n : k = q[i]
    BY <1>11, Renumbering
  <1>13. \A i \in 1 .. n : q[i] \in 1 .. n /\ t[i] = was[q[i]] /\ t[i] \in Host
    BY <1>3, <1>11
  <1>14. t \in Seq(Host) /\ Len(t) = n /\ DOMAIN t = 1 .. n
    BY <1>11, <1>13
  <1>15. ASSUME NEW i \in 1 .. n, NEW j \in 1 .. n, i < j
         PROVE  Before(t[i], t[j])
    <2>1. ~Before(t[j], t[i])
      BY <1>10, <1>14, <1>15
    <2>2. q[i] # q[j] /\ q[i] \in 1 .. n /\ q[j] \in 1 .. n
      BY <1>12, <1>15
    <2>3. hs[q[i]].Host # hs[q[j]].Host \/ hs[q[i]].Pref # hs[q[j]].Pref
      BY <1>0, <2>2
    <2>4. t[i].Host # t[j].Host \/ t[i].Pref # t[j].Pref
      <3>1. t[i].Host = hs[q[i]].Host /\ t[i].Pref = hs[q[i]].Pref
        BY <1>3, <1>13, <2>2
      <3>2. t[j].Host = hs[q[j]].Host /\ t[j].Pref = hs[q[j]].Pref
        BY <1>3, <1>13, <2>2
      <3> QED BY <2>3, <3>1, <3>2
    <2> QED BY <1>13, <2>1, <2>4, BeforeOrders
  <1>16. \A i \in 1 .. n : \E k \in 1 .. n :
            t[i] = [hs[k] EXCEPT !.IPs = Sorted(hs[k].IPs)]
    BY <1>2, <1>13
  <1>17. \A k \in 1 .. n : \E i \in 1 .. n :
            t[i] = [hs[k] EXCEPT !.IPs = Sorted(hs[k].IPs)]
    <2> SUFFICES ASSUME NEW k \in 1 .. n
                 PROVE  \E i \in 1 .. n : t[i] = [hs[k] EXCEPT !.IPs = Sorted(hs[k].IPs)]
      OBVIOUS
    <2>1. PICK i \in 1 .. n : k = q[i]
      BY <1>12
    <2>2. t[i] = was[k]
      BY <1>13, <2>1
    <2>3. was[k] = [hs[k] EXCEPT !.IPs = Sorted(hs[k].IPs)]
      BY <1>2
    <2> QED BY <2>2, <2>3
  <1> QED BY <1>0, <1>10, <1>14, <1>15, <1>16, <1>17, ZenonT(40)

-----------------------------------------------------------------------------
(***************************************************************************)
(* The inductive invariant of a lookup: at each turn of the loop, what has *)
(* been said is so of the targets that have been looked at, as far as      *)
(* LookupHost reports their addresses.                                     *)
(***************************************************************************)

\* The hosts are those that the records name, as far as the loop has come.
Followed ==
    /\ hosts \in Seq(Host) /\ Len(hosts) <= Len(mxs)
    /\ \A i \in 1 .. Len(hosts) : hosts[i].Host = mxs[i].host /\ hosts[i].Pref = mxs[i].pref

\* What a host's addresses may be.
Tells(h) ==
    \/ h.Host \notin Literals /\ Lists(h.IPs, Reported(h.Host))
    \/ (h.Host \in Literals \/ \E q \in lost : q[1] = h.Host) /\ h.IPs = <<>>

\* The properties with what LookupHost reports for what the zone holds: the
\* code has only that to go by.
NoA(n) == zone.a[n] = {}
Unreported(n) == \/ Reported(n) = {}
                 \/ NoA(n) /\ <<n, "AAAA">> \in lost

TroubleReported ==
    step = "done" =>
        /\ flags.Incomplete <=> \E q \in lost : q[2] # "AAAA"
        /\ flags.Missing => zone.mx = {} /\ Unreported(Domain)
        /\ flags.Null => Targets = {Root}
        /\ \A n \in ToSet(flags.Unresolvable) : n \in Targets /\ Unreported(n)

CompleteReported ==
    step = "done" /\ lost = {} =>
        /\ flags.Null <=> Targets = {Root} /\ Cardinality(zone.mx) = 1
        /\ flags.Missing <=> zone.mx = {} /\ Reported(Domain) = {}
        /\ flags.Implicit <=> zone.mx = {} /\ Reported(Domain) # {}
        /\ ~flags.Null =>
              /\ ToSet(flags.IPLiteral) = Targets \cap Literals
              /\ ToSet(flags.Unresolvable) =
                    {n \in Targets \ Literals : Reported(n) = {}}
        /\ flags.SingleHost <=> Len(hosts) = 1
        /\ hosts = <<>> <=> (flags.Null \/ flags.Missing)

\* What the flags may be by then.
Flagged ==
    /\ flags = [NoFlags EXCEPT !.Incomplete = flags.Incomplete,
                               !.IPLiteral = flags.IPLiteral,
                               !.Unresolvable = flags.Unresolvable]
    /\ flags.IPLiteral \in Seq(Names \cup {Root})
    /\ flags.Unresolvable \in Seq(Names \cup {Root})
    /\ flags.Incomplete <=> \E q \in lost : q[2] # "AAAA"
    /\ \A n \in ToSet(flags.Unresolvable) : n \in Targets /\ Unreported(n)
    /\ ToSet(flags.IPLiteral) = ToSet(Hosts) \cap Literals
    /\ lost = {} => ToSet(flags.Unresolvable) =
                        {n \in ToSet(Hosts) \ Literals : Reported(n) = {}}

LoopInv ==
    step = "hosts" =>
        /\ mxs \in SetToSeqs(zone.mx) /\ mxs # <<>> /\ ~IsNull(mxs)
        /\ Followed
        /\ \A i \in 1 .. Len(hosts) : Tells(hosts[i])
        /\ Flagged

\* Before the loop nothing has been said.
Silent == hosts = <<>> /\ flags = NoFlags /\ lost = {}

LookupInv ==
    /\ zone \in Zones /\ resolver \in Resolvers
    /\ step \in {"mx", "implicit", "hosts", "done"}
    /\ step = "mx" => mxs = <<>> /\ Silent
    /\ step = "implicit" => zone.mx = {} /\ mxs = <<>> /\ Silent
    /\ LoopInv
    /\ hosts \in Seq(Host)
    /\ TroubleReported /\ CompleteReported /\ Canonical

\* A survey looks a domain up with the whole table, and names the hosts that
\* it ends with.
NamedInv ==
    /\ step # "mx" => status = "loaded"
    /\ named # <<>> =>
          step = "done" /\ named = [i \in DOMAIN Hosts |-> Lookup("mx", Hosts[i])]

\* What a zone holds.
LEMMA ZoneTypes ==
    ASSUME zone \in Zones
    PROVE  /\ IsFiniteSet(zone.mx)
           /\ \A m \in zone.mx : /\ m.host \in Names \cup {Root} /\ m.pref \in Nat
                                 /\ m = [host |-> m.host, pref |-> m.pref]
           /\ \A n \in Names \cup {Root} : Reported(n) \in SUBSET Nat
           /\ \A n \in Names : /\ IsFiniteSet(zone.a[n]) /\ IsFiniteSet(zone.aaaa[n])
                               /\ zone.a[n] \in SUBSET Nat /\ zone.aaaa[n] \in SUBSET Nat
  <1>1. /\ zone.mx \subseteq [host : Names \cup {Root}, pref : Nat]
        /\ IsFiniteSet(zone.mx)
        /\ \A n \in Names : IsFiniteSet(zone.a[n]) /\ IsFiniteSet(zone.aaaa[n])
        /\ zone.a \in [Names -> SUBSET Nat]
        /\ zone.aaaa \in [Names -> SUBSET Nat]
    BY InboundAssumption DEF Address
  <1>2. \A m \in [host : Names \cup {Root}, pref : Nat] :
           /\ m.host \in Names \cup {Root} /\ m.pref \in Nat
           /\ m = [host |-> m.host, pref |-> m.pref]
    OBVIOUS
  <1>3. \A n \in Names : zone.a[n] \in SUBSET Nat /\ zone.aaaa[n] \in SUBSET Nat
    BY <1>1
  <1>4. \A n \in Names \cup {Root} : Reported(n) \in SUBSET Nat
    BY <1>3 DEF Reported
  <1> QED BY <1>1, <1>2, <1>3, <1>4

\* What LookupHost may answer, whichever resolver it is: everything there is
\* to report, in some order, or nothing; and then there is nothing, or the
\* query that was not answered is known.
LEMMA LookupHostTells ==
    ASSUME zone \in Zones, resolver \in Resolvers, NEW n \in Names \cup {Root},
           NEW res \in LookupHost(zone, resolver, n)
    PROVE  \/ /\ res.kind = "found" /\ res.lost = {}
              /\ Lists(res.ips, Reported(n)) /\ Reported(n) # {}
           \/ /\ res.kind = "not found" /\ res.ips = <<>>
              /\ \/ res.lost = {} /\ Reported(n) = {}
                 \/ res.lost = {<<n, "AAAA">>} /\ NoA(n)
           \/ res.kind = "error" /\ res.ips = <<>> /\ res.lost = {<<n, "A">>}
  <1> USE DEF Unanswered, NotFound
  <1>0. resolver \in {"publicres", "cache"}
    BY InboundAssumption
  <1>1. CASE n = Root
    <2>1. res = NotFound({})
      BY <1>1 DEF LookupHost
    <2>2. Reported(n) = {}
      BY <1>1 DEF Reported
    <2> QED BY <2>1, <2>2
  <1>2. CASE n # Root
    <2>1. n \in Names
      BY <1>2
    <2>2. ASSUME NEW as, IsFiniteSet(as), as # {}, as = Reported(n), res \in Found(as)
          PROVE  /\ res.kind = "found" /\ res.lost = {}
                 /\ Lists(res.ips, Reported(n)) /\ Reported(n) # {}
      <3>1. PICK s \in SetToSeqs(as) : res = [kind |-> "found", ips |-> s, lost |-> {}]
        BY <2>2 DEF Found
      <3>2. Lists(s, as)
        BY <2>2, AnswerLists
      <3> QED BY <2>2, <3>1, <3>2
    <2>3. CASE resolver = "publicres"
      <3>1. res \in ByPublicRes(zone, n)
        BY <1>2, <2>3 DEF LookupHost
      <3>2. CASE res = Unanswered({<<n, "A">>})
        BY <3>2
      <3>3. CASE zone.a[n] # {} /\ res \in Found(zone.a[n])
        <4>1. Reported(n) = zone.a[n]
          BY <1>2, <3>3 DEF Reported
        <4> QED BY <2>1, <2>2, <3>3, <4>1, ZoneTypes
      <3>4. CASE zone.a[n] = {} /\ res = NotFound({<<n, "AAAA">>})
        BY <3>4 DEF NoA
      <3>5. CASE zone.a[n] = {} /\ res \in Answers(zone.aaaa[n])
        <4>1. Reported(n) = zone.aaaa[n]
          BY <1>2, <2>3, <3>5 DEF Reported
        <4>2. CASE zone.aaaa[n] = {}
          <5>1. res = NotFound({}) /\ Reported(n) = {}
            BY <3>5, <4>1, <4>2 DEF Answers
          <5> QED BY <5>1
        <4>3. CASE zone.aaaa[n] # {}
          BY <2>1, <2>2, <3>5, <4>1, <4>3, ZoneTypes DEF Answers
        <4> QED BY <4>2, <4>3
      <3> QED BY <3>1, <3>2, <3>3, <3>4, <3>5 DEF ByPublicRes
    <2>4. CASE resolver = "cache"
      <3>1. res \in ByCache(zone, n)
        BY <1>2, <2>4 DEF LookupHost
      <3>2. Reported(n) = zone.a[n]
        BY <1>2, <2>4 DEF Reported
      <3>3. CASE res = Unanswered({<<n, "A">>})
        BY <3>3
      <3>4. CASE res \in Answers(zone.a[n])
        <4>1. CASE zone.a[n] = {}
          <5>1. res = NotFound({}) /\ Reported(n) = {}
            BY <3>2, <3>4, <4>1 DEF Answers
          <5> QED BY <5>1
        <4>2. CASE zone.a[n] # {}
          BY <2>1, <2>2, <3>2, <3>4, <4>2, ZoneTypes DEF Answers
        <4> QED BY <4>1, <4>2
      <3> QED BY <3>1, <3>3, <3>4 DEF ByCache
    <2> QED BY <1>0, <2>3, <2>4
  <1> QED BY <1>1, <1>2

\* The zone and the resolver stay as they are, and with them what is said of
\* them.
LEMMA ZoneStays ==
    ASSUME UNCHANGED <<zone, resolver>>
    PROVE  /\ \A n : Reported(n)' = Reported(n)
           /\ Targets' = Targets
           /\ \A n : NoA(n)' <=> NoA(n)
           /\ \A n : Unreported(n)' <=>
                    \/ Reported(n) = {}
                    \/ NoA(n) /\ <<n, "AAAA">> \in lost'
  <1>1. \A n : Reported(n)' = Reported(n)
    BY DEF Reported
  <1>2. \A n : NoA(n)' <=> NoA(n)
    BY DEF NoA
  <1>3. Targets' = Targets
    BY DEF Targets
  <1> QED BY <1>1, <1>2, <1>3 DEF Unreported

\* A list of numbers is a sequence of numbers.
LEMMA ListType ==
    ASSUME NEW S \in SUBSET Nat, NEW s, Lists(s, S)
    PROVE  s \in Seq(Nat)
  <1>1. PICK m \in Nat : s \in [1 .. m -> S]
    BY SeqDef DEF Lists
  <1>2. s \in [1 .. m -> Nat]
    BY <1>1
  <1> QED BY <1>2, SeqDef

LEMMA AppendSet ==
    ASSUME NEW S, NEW s \in Seq(S), NEW x \in S
    PROVE  Append(s, x) \in Seq(S) /\ ToSet(Append(s, x)) = ToSet(s) \cup {x}
  <1>1. /\ Append(s, x) \in Seq(S) /\ Len(Append(s, x)) = Len(s) + 1
        /\ Append(s, x)[Len(s) + 1] = x
        /\ \A i \in 1 .. Len(s) : Append(s, x)[i] = s[i]
        /\ DOMAIN s = 1 .. Len(s) /\ DOMAIN Append(s, x) = 1 .. Len(s) + 1
        /\ Len(s) \in Nat
    OBVIOUS
  <1>2. 1 .. Len(s) + 1 = (1 .. Len(s)) \cup {Len(s) + 1}
    BY <1>1
  <1>3. ToSet(s) = {s[i] : i \in 1 .. Len(s)}
    BY <1>1 DEF ToSet
  <1>4. ToSet(Append(s, x)) = {Append(s, x)[i] : i \in 1 .. Len(s) + 1}
    BY <1>1 DEF ToSet
  <1> QED BY <1>1, <1>2, <1>3, <1>4

\* The record that the loop is at is one of the zone's.
LEMMA TargetIs ==
    ASSUME LookupInv, Looping
    PROVE  /\ Len(hosts) \in Nat /\ Len(mxs) \in Nat /\ Len(hosts) + 1 \in 1 .. Len(mxs)
           /\ Target \in zone.mx /\ Target.host \in Targets
           /\ Target.host \in Names \cup {Root} /\ Target.pref \in Nat
  <1>1. zone \in Zones /\ mxs \in SetToSeqs(zone.mx) /\ hosts \in Seq(Host)
    BY DEF LookupInv, LoopInv, Looping
  <1>2. Lists(mxs, zone.mx) /\ Len(mxs) \in Nat
    BY <1>1, AnswerLists, ZoneTypes
  <1>3. Len(hosts) \in Nat
    BY <1>1
  <1>4. Len(hosts) + 1 \in 1 .. Len(mxs)
    BY <1>2, <1>3 DEF Looping
  <1>5. Target \in zone.mx
    BY <1>2, <1>4 DEF Lists, Target
  <1> QED BY <1>1, <1>2, <1>3, <1>4, <1>5, ZoneTypes DEF Targets

\* A turn of the loop adds the host that it is at.
LEMMA AddHostStep ==
    ASSUME LookupInv, Looping, NEW ips \in Seq(Nat), AddHost(ips), mxs' = mxs
    PROVE  /\ Followed' /\ Len(hosts') = Len(hosts) + 1
           /\ \A i \in 1 .. Len(hosts) : hosts'[i] = hosts[i]
           /\ hosts'[Len(hosts) + 1].Host = Target.host
           /\ hosts'[Len(hosts) + 1].IPs = ips
           /\ \A i \in 1 .. Len(hosts') : i \in 1 .. Len(hosts) \/ i = Len(hosts) + 1
           /\ ToSet(Hosts)' = ToSet(Hosts) \cup {Target.host}
  <1> DEFINE new == [Host |-> Target.host, Pref |-> Target.pref, IPs |-> ips, Implicit |-> FALSE]
             n == Len(hosts) + 1
  <1>1. /\ n \in 1 .. Len(mxs) /\ Len(hosts) \in Nat /\ Len(mxs) \in Nat
        /\ Target.host \in Names \cup {Root} /\ Target.pref \in Nat
        /\ Target = mxs[n]
    BY TargetIs DEF Target
  <1>2. new \in Host /\ new.Host = mxs[n].host /\ new.Pref = mxs[n].pref /\ new.IPs = ips
        /\ new.Host = Target.host
    BY <1>1 DEF Host
  <1>3. hosts' = Append(hosts, new) /\ hosts \in Seq(Host) /\ Followed
    BY DEF AddHost, LookupInv, LoopInv, Looping
  <1> HIDE DEF new
  <1>4. /\ hosts' \in Seq(Host) /\ Len(hosts') = n /\ hosts'[n] = new
        /\ \A i \in 1 .. Len(hosts) : hosts'[i] = hosts[i]
        /\ DOMAIN hosts = 1 .. Len(hosts) /\ DOMAIN hosts' = 1 .. n
    BY <1>1, <1>2, <1>3
  <1>5. \A i \in 1 .. Len(hosts') : i \in 1 .. Len(hosts) \/ i = n
    BY <1>1, <1>4
  <1>6. Followed'
    <2>1. Len(hosts') <= Len(mxs)
      BY <1>1, <1>4
    <2>2. \A i \in 1 .. Len(hosts') :
             hosts'[i].Host = mxs[i].host /\ hosts'[i].Pref = mxs[i].pref
      BY <1>2, <1>3, <1>4, <1>5 DEF Followed
    <2> QED BY <1>4, <2>1, <2>2 DEF Followed
  <1>7. ToSet(Hosts)' = ToSet(Hosts) \cup {Target.host}
    <2>1. ToSet(Hosts) = {hosts[i].Host : i \in 1 .. Len(hosts)}
      BY <1>4 DEF ToSet, Hosts
    <2>2. ToSet(Hosts)' = {hosts'[i].Host : i \in 1 .. n}
      BY <1>4 DEF ToSet, Hosts
    <2>3. 1 .. n = (1 .. Len(hosts)) \cup {n}
      BY <1>1
    <2> QED BY <1>2, <1>4, <2>1, <2>2, <2>3
  <1> QED BY <1>2, <1>4, <1>5, <1>6, <1>7

-----------------------------------------------------------------------------
(***************************************************************************)
(* Each step of Lookup.                                                    *)
(***************************************************************************)

LEMMA MXUnansweredStep == LookupInv /\ MXUnanswered => LookupInv'
  <1> SUFFICES ASSUME LookupInv, MXUnanswered
               PROVE  LookupInv'
    OBVIOUS
  <1>1. /\ step' = "done" /\ hosts' = <<>> /\ mxs' = <<>>
        /\ flags' = [NoFlags EXCEPT !.Incomplete = TRUE]
        /\ lost' = {<<Domain, "MX">>} /\ UNCHANGED <<zone, resolver>>
    BY DEF LookupInv, MXUnanswered, Done, Silent
  <1>2. /\ flags'.Incomplete /\ ~flags'.Missing /\ ~flags'.Null
        /\ flags'.Unresolvable = <<>>
    BY <1>1 DEF NoFlags
  <1>3. TroubleReported'
    <2>1. \E q \in lost' : q[2] # "AAAA"
      BY <1>1
    <2>2. ToSet(<<>>) = {}
      BY DEF ToSet
    <2> QED BY <1>2, <2>1, <2>2 DEF TroubleReported
  <1>4. CompleteReported' /\ Canonical'
    BY <1>1 DEF CompleteReported, Canonical
  <1>5. hosts' \in Seq(Host)
    BY <1>1
  <1> QED BY <1>1, <1>3, <1>4, <1>5 DEF LookupInv, LoopInv

LEMMA MXNullStep == LookupInv /\ MXNull => LookupInv'
  <1> SUFFICES ASSUME LookupInv, MXNull
               PROVE  LookupInv'
    OBVIOUS
  <1>1. /\ step' = "done" /\ hosts' = <<>> /\ lost' = {}
        /\ flags' = [NoFlags EXCEPT !.Null = TRUE]
        /\ UNCHANGED <<zone, resolver>> /\ zone \in Zones
    BY DEF LookupInv, MXNull, Done, Silent
  <1>2. /\ ~flags'.Incomplete /\ ~flags'.Missing /\ flags'.Null
        /\ ~flags'.Implicit /\ ~flags'.SingleHost /\ flags'.Unresolvable = <<>>
    BY <1>1 DEF NoFlags
  <1>3. PICK ms \in SetToSeqs(zone.mx) : Len(ms) = 1 /\ ms[1].host = Root
    BY DEF MXNull, IsNull
  <1>4. Lists(ms, zone.mx) /\ Cardinality(zone.mx) = 1
    BY <1>1, <1>3, AnswerLists, ZoneTypes
  <1>5. zone.mx = {ms[1]}
    BY <1>3, <1>4 DEF Lists
  <1>6. Targets = {Root} /\ Targets' = Targets
    BY <1>1, <1>3, <1>5 DEF Targets
  <1>7. TroubleReported'
    <2>1. ToSet(<<>>) = {}
      BY DEF ToSet
    <2> QED BY <1>1, <1>2, <1>6, <2>1 DEF TroubleReported
  <1>8. CompleteReported'
    <2>1. Len(hosts') # 1 /\ zone'.mx # {}
      BY <1>1, <1>5
    <2> QED BY <1>1, <1>2, <1>4, <1>6, <2>1 DEF CompleteReported
  <1>9. Canonical'
    BY <1>2 DEF Canonical
  <1>10. hosts' \in Seq(Host)
    BY <1>1
  <1> QED BY <1>1, <1>7, <1>8, <1>9, <1>10 DEF LookupInv, LoopInv

LEMMA MXAnsweredStep == LookupInv /\ MXAnswered => LookupInv'
  <1> SUFFICES ASSUME LookupInv, MXAnswered
               PROVE  LookupInv'
    OBVIOUS
  <1>1. PICK ms \in SetToSeqs(zone.mx) :
           /\ ~IsNull(ms) /\ mxs' = ms
           /\ step' = IF ms = <<>> THEN "implicit" ELSE "hosts"
    BY DEF MXAnswered
  <1>2. /\ hosts = <<>> /\ flags = NoFlags /\ lost = {}
        /\ UNCHANGED <<zone, resolver, hosts, flags, lost>> /\ zone \in Zones
    BY DEF LookupInv, MXAnswered, Silent
  <1>3. Lists(ms, zone.mx) /\ Len(ms) \in Nat
    BY <1>1, <1>2, AnswerLists, ZoneTypes
  <1>4. ms = <<>> => zone.mx = {}
    BY <1>3 DEF Lists
  <1>5. LoopInv'
    <2>1. ToSet(<<>>) = {} /\ ToSet(Hosts)' = {}
      BY <1>2 DEF ToSet, Hosts
    <2>2. Followed'
      BY <1>1, <1>2, <1>3 DEF Followed
    <2>3. Flagged'
      <3>1. /\ flags' = NoFlags /\ lost' = {}
            /\ ~flags'.Incomplete /\ flags'.IPLiteral = <<>> /\ flags'.Unresolvable = <<>>
        BY <1>2 DEF NoFlags
      <3>2. /\ flags' = [NoFlags EXCEPT !.Incomplete = flags'.Incomplete,
                                        !.IPLiteral = flags'.IPLiteral,
                                        !.Unresolvable = flags'.Unresolvable]
        BY <1>2 DEF NoFlags
      <3>3. <<>> \in Seq(Names \cup {Root})
        OBVIOUS
      <3> QED BY <2>1, <3>1, <3>2, <3>3 DEF Flagged
    <2>4. \A i \in 1 .. Len(hosts') : Tells(hosts[i])'
      BY <1>2
    <2>5. ms # <<>> => mxs' \in SetToSeqs(zone'.mx) /\ mxs' # <<>> /\ ~IsNull(mxs)'
      BY <1>1, <1>2 DEF IsNull
    <2> QED BY <1>1, <2>2, <2>3, <2>4, <2>5 DEF LoopInv
  <1>6. step' \in {"implicit", "hosts"} /\ (step' = "implicit" => ms = <<>>)
    BY <1>1
  <1>7. (TroubleReported /\ CompleteReported /\ Canonical)'
    BY <1>6 DEF TroubleReported, CompleteReported, Canonical
  <1> QED BY <1>1, <1>2, <1>4, <1>5, <1>6, <1>7 DEF LookupInv, Silent

LEMMA ImplicitMXStep == LookupInv /\ ImplicitMX => LookupInv'
  <1> SUFFICES ASSUME LookupInv, ImplicitMX
               PROVE  LookupInv'
    OBVIOUS
  <1>0. Domain \in Names
    BY InboundAssumption
  <1>1. /\ hosts = <<>> /\ flags = NoFlags /\ lost = {} /\ zone.mx = {} /\ mxs = <<>>
        /\ UNCHANGED <<zone, resolver, mxs>> /\ zone \in Zones /\ resolver \in Resolvers
    BY DEF LookupInv, ImplicitMX, Silent
  <1>2. PICK res \in LookupHost(zone, resolver, Domain) :
           /\ lost' = lost \cup res.lost
           /\ \/ /\ res.kind = "error"
                 /\ Done(<<>>, [flags EXCEPT !.Incomplete = TRUE])
              \/ /\ res.kind = "not found"
                 /\ Done(<<>>, [flags EXCEPT !.Missing = TRUE])
              \/ /\ res.kind = "found"
                 /\ Done(<<[Host |-> Domain, Pref |-> 0,
                            IPs |-> Sorted(res.ips), Implicit |-> TRUE]>>,
                         [flags EXCEPT !.Implicit = TRUE, !.SingleHost = TRUE])
    BY DEF ImplicitMX
  <1>3. Targets = {} /\ Targets' = {} /\ zone'.mx = {} /\ Reported(Domain)' = Reported(Domain)
    BY <1>1, ZoneStays DEF Targets
  <1>4. lost' = res.lost /\ ToSet(<<>>) = {} /\ Cardinality({}) = 0
    <2>1. ToSet(<<>>) = {}
      BY DEF ToSet
    <2> QED BY <1>1, <1>2, <2>1, FS_EmptySet
  <1>5. step' = "done" /\ Canonical'
    <2>1. step' = "done"
      BY <1>2 DEF Done
    <2>2. Canonical'
      BY <1>1 DEF Canonical
    <2> QED BY <2>1, <2>2
  <1>6. CASE res.kind = "error"
    <2>1. /\ lost' = {<<Domain, "A">>} /\ hosts' = <<>>
          /\ flags' = [NoFlags EXCEPT !.Incomplete = TRUE]
      BY <1>0, <1>1, <1>2, <1>4, <1>6, LookupHostTells DEF Done
    <2>2. /\ flags'.Incomplete /\ ~flags'.Missing /\ ~flags'.Null
          /\ flags'.Unresolvable = <<>>
      BY <2>1 DEF NoFlags
    <2>3. \E q \in lost' : q[2] # "AAAA"
      BY <2>1
    <2>4. TroubleReported'
      BY <1>4, <2>2, <2>3 DEF TroubleReported
    <2>5. CompleteReported'
      BY <2>1 DEF CompleteReported
    <2>6. hosts' \in Seq(Host)
      BY <2>1
    <2> QED BY <1>1, <1>5, <2>4, <2>5, <2>6 DEF LookupInv, LoopInv
  <1>7. CASE res.kind = "not found"
    <2>1. /\ hosts' = <<>> /\ flags' = [NoFlags EXCEPT !.Missing = TRUE]
          /\ \/ lost' = {} /\ Reported(Domain) = {}
             \/ lost' = {<<Domain, "AAAA">>} /\ NoA(Domain)
      BY <1>0, <1>1, <1>2, <1>4, <1>7, LookupHostTells DEF Done
    <2>2. /\ ~flags'.Incomplete /\ flags'.Missing /\ ~flags'.Null
          /\ ~flags'.Implicit /\ ~flags'.SingleHost
          /\ flags'.Unresolvable = <<>> /\ flags'.IPLiteral = <<>>
      BY <2>1 DEF NoFlags
    <2>3. ~\E q \in lost' : q[2] # "AAAA"
      BY <2>1
    <2>4. Unreported(Domain)'
      BY <1>1, <2>1, ZoneStays
    <2>5. TroubleReported'
      BY <1>3, <1>4, <2>2, <2>3, <2>4 DEF TroubleReported
    <2>6. CompleteReported'
      <3> SUFFICES ASSUME lost' = {}
                   PROVE  CompleteReported'
        BY DEF CompleteReported
      <3>1. Reported(Domain)' = {}
        BY <1>3, <2>1
      <3>2. Len(hosts') # 1
        BY <2>1
      <3>3. {n \in Targets' \ Literals : Reported(n)' = {}} = {}
        BY <1>3
      <3> QED BY <1>3, <1>4, <2>1, <2>2, <3>1, <3>2, <3>3 DEF CompleteReported
    <2>7. hosts' \in Seq(Host)
      BY <2>1
    <2> QED BY <1>1, <1>5, <2>5, <2>6, <2>7 DEF LookupInv, LoopInv
  <1>8. CASE res.kind = "found"
    <2> DEFINE h == [Host |-> Domain, Pref |-> 0, IPs |-> Sorted(res.ips), Implicit |-> TRUE]
    <2>1. /\ hosts' = <<h>> /\ lost' = {}
          /\ flags' = [NoFlags EXCEPT !.Implicit = TRUE, !.SingleHost = TRUE]
          /\ Lists(res.ips, Reported(Domain)) /\ Reported(Domain) # {}
      BY <1>0, <1>1, <1>2, <1>4, <1>8, LookupHostTells DEF Done
    <2>2. /\ ~flags'.Incomplete /\ ~flags'.Missing /\ ~flags'.Null
          /\ flags'.Implicit /\ flags'.SingleHost
          /\ flags'.Unresolvable = <<>> /\ flags'.IPLiteral = <<>>
      BY <2>1 DEF NoFlags
    <2>3. TroubleReported'
      BY <1>4, <2>1, <2>2 DEF TroubleReported
    <2>4. CompleteReported'
      <3>1. Len(hosts') = 1 /\ hosts' # <<>>
        BY <2>1
      <3>2. {n \in Targets' \ Literals : Reported(n)' = {}} = {}
        BY <1>3
      <3>3. Reported(Domain)' # {}
        BY <1>3, <2>1
      <3> QED BY <1>3, <1>4, <2>2, <3>1, <3>2, <3>3 DEF CompleteReported
    <2>5. h \in Host
      <3>1. Reported(Domain) \in SUBSET Nat
        BY <1>0, <1>1, ZoneTypes
      <3>2. PICK ips : ips = res.ips
        OBVIOUS
      <3>3. Lists(Sorted(ips), Reported(Domain))
        BY <2>1, <3>1, <3>2, SortedAddresses
      <3>4. Sorted(ips) \in Seq(Nat)
        BY <3>1, <3>3, ListType
      <3> QED BY <1>0, <3>2, <3>4 DEF Host
    <2>6. hosts' \in Seq(Host)
      BY <2>1, <2>5
    <2> QED BY <1>1, <1>5, <2>3, <2>4, <2>6 DEF LookupInv, LoopInv
  <1> QED BY <1>2, <1>6, <1>7, <1>8

LEMMA LiteralStep == LookupInv /\ Literal => LookupInv'
  <1> SUFFICES ASSUME LookupInv, Literal
               PROVE  LookupInv'
    OBVIOUS
  <1>1. /\ Looping /\ Target.host \in Literals /\ AddHost(<<>>) /\ <<>> \in Seq(Nat)
        /\ flags' = [flags EXCEPT !.IPLiteral = Append(@, Target.host)]
        /\ UNCHANGED <<zone, resolver, step, mxs, lost>> /\ step = "hosts"
    BY DEF Literal, Looping
  <1>2. /\ zone \in Zones /\ resolver \in Resolvers /\ Flagged
        /\ mxs \in SetToSeqs(zone.mx) /\ mxs # <<>> /\ ~IsNull(mxs)
        /\ \A i \in 1 .. Len(hosts) : Tells(hosts[i])
    BY <1>1 DEF LookupInv, LoopInv
  <1>3. /\ Followed' /\ Len(hosts') = Len(hosts) + 1
        /\ \A i \in 1 .. Len(hosts) : hosts'[i] = hosts[i]
        /\ hosts'[Len(hosts) + 1].Host = Target.host
        /\ hosts'[Len(hosts) + 1].IPs = <<>>
        /\ \A i \in 1 .. Len(hosts') : i \in 1 .. Len(hosts) \/ i = Len(hosts) + 1
        /\ ToSet(Hosts)' = ToSet(Hosts) \cup {Target.host}
    BY <1>1, AddHostStep
  <1>4. Target.host \in Names \cup {Root}
    BY <1>1, TargetIs
  <1>5. \A i \in 1 .. Len(hosts') : Tells(hosts[i])'
    BY <1>1, <1>2, <1>3, ZoneStays DEF Tells
  <1>6. Flagged'
    <2>1. /\ flags'.Incomplete = flags.Incomplete /\ flags'.Unresolvable = flags.Unresolvable
          /\ flags'.IPLiteral = Append(flags.IPLiteral, Target.host)
          /\ flags' = [NoFlags EXCEPT !.Incomplete = flags'.Incomplete,
                                      !.IPLiteral = flags'.IPLiteral,
                                      !.Unresolvable = flags'.Unresolvable]
      BY <1>1, <1>2 DEF Flagged, NoFlags
    <2>2. /\ flags'.IPLiteral \in Seq(Names \cup {Root})
          /\ ToSet(flags'.IPLiteral) = ToSet(flags.IPLiteral) \cup {Target.host}
      BY <1>2, <1>4, <2>1, AppendSet DEF Flagged
    <2>3. ToSet(flags'.IPLiteral) = ToSet(Hosts)' \cap Literals
      BY <1>1, <1>2, <1>3, <2>2 DEF Flagged
    <2>4. \A n \in ToSet(flags'.Unresolvable) : n \in Targets' /\ Unreported(n)'
      BY <1>1, <1>2, <2>1, ZoneStays DEF Flagged, Unreported
    <2>5. lost' = {} => ToSet(flags'.Unresolvable) =
                           {n \in ToSet(Hosts)' \ Literals : Reported(n)' = {}}
      BY <1>1, <1>2, <1>3, <2>1, ZoneStays DEF Flagged
    <2> QED BY <1>1, <1>2, <2>1, <2>2, <2>3, <2>4, <2>5 DEF Flagged
  <1>7. (TroubleReported /\ CompleteReported /\ Canonical)'
    BY <1>1 DEF TroubleReported, CompleteReported, Canonical
  <1>8. LoopInv' /\ hosts' \in Seq(Host)
    BY <1>1, <1>2, <1>3, <1>5, <1>6 DEF LoopInv, Followed, IsNull
  <1> QED BY <1>1, <1>2, <1>7, <1>8 DEF LookupInv

LEMMA ResolveStep == LookupInv /\ Resolve => LookupInv'
  <1> SUFFICES ASSUME LookupInv, Resolve
               PROVE  LookupInv'
    OBVIOUS
  <1>1. /\ Looping /\ Target.host \notin Literals
        /\ UNCHANGED <<zone, resolver, step, mxs>> /\ step = "hosts"
    BY DEF Resolve, Looping
  <1>2. /\ zone \in Zones /\ resolver \in Resolvers /\ Flagged
        /\ mxs \in SetToSeqs(zone.mx) /\ mxs # <<>> /\ ~IsNull(mxs)
        /\ \A i \in 1 .. Len(hosts) : Tells(hosts[i])
    BY <1>1 DEF LookupInv, LoopInv
  <1>3. PICK n \in Names \cup {Root} :
           n = Target.host /\ n \in Targets /\ Reported(n) \in SUBSET Nat
    BY <1>1, <1>2, TargetIs, ZoneTypes
  <1>4. PICK res \in LookupHost(zone, resolver, n) :
           /\ lost' = lost \cup res.lost
           /\ \/ res.kind = "error" /\ flags' = [flags EXCEPT !.Incomplete = TRUE]
              \/ /\ res.kind = "not found"
                 /\ flags' = [flags EXCEPT !.Unresolvable = Append(@, n)]
              \/ res.kind = "found" /\ flags' = flags
           /\ AddHost(res.ips)
    BY <1>3 DEF Resolve
  <1>5. \/ /\ res.kind = "found" /\ res.lost = {}
           /\ Lists(res.ips, Reported(n)) /\ Reported(n) # {}
        \/ /\ res.kind = "not found" /\ res.ips = <<>>
           /\ \/ res.lost = {} /\ Reported(n) = {}
              \/ res.lost = {<<n, "AAAA">>} /\ NoA(n)
        \/ res.kind = "error" /\ res.ips = <<>> /\ res.lost = {<<n, "A">>}
    BY <1>2, <1>4, LookupHostTells
  <1>6. res.ips \in Seq(Nat)
    <2>1. CASE res.ips = <<>>
      BY <2>1
    <2>2. CASE Lists(res.ips, Reported(n))
      <3>1. PICK ips : ips = res.ips
        OBVIOUS
      <3> QED BY <1>3, <2>2, <3>1, ListType
    <2> QED BY <1>5, <2>1, <2>2
  <1>7. /\ Followed' /\ Len(hosts') = Len(hosts) + 1
        /\ \A i \in 1 .. Len(hosts) : hosts'[i] = hosts[i]
        /\ hosts'[Len(hosts) + 1].Host = n
        /\ hosts'[Len(hosts) + 1].IPs = res.ips
        /\ \A i \in 1 .. Len(hosts') : i \in 1 .. Len(hosts) \/ i = Len(hosts) + 1
        /\ ToSet(Hosts)' = ToSet(Hosts) \cup {n}
    BY <1>1, <1>3, <1>4, <1>6, AddHostStep
  <1>8. /\ lost \subseteq lost' /\ Targets' = Targets
        /\ \A m : Reported(m)' = Reported(m) /\ (NoA(m)' <=> NoA(m))
    BY <1>1, <1>4, ZoneStays
  <1>9. \A i \in 1 .. Len(hosts') : Tells(hosts[i])'
    <2>1. \A i \in 1 .. Len(hosts) : Tells(hosts[i])'
      BY <1>2, <1>7, <1>8 DEF Tells
    <2>2. PICK k \in Nat : k = Len(hosts) + 1
      BY <1>7, <1>1, TargetIs
    <2>3. Tells(hosts[k])'
      <3>1. hosts'[k].Host = n /\ hosts'[k].IPs = res.ips
        BY <1>7, <2>2
      <3>2. \/ n \notin Literals /\ Lists(res.ips, Reported(n))
            \/ (\E q \in lost' : q[1] = n) /\ res.ips = <<>>
        <4>1. Lists(<<>>, {})
          BY DEF Lists
        <4>2. <<n, "AAAA">>[1] = n /\ <<n, "A">>[1] = n
          OBVIOUS
        <4> QED BY <1>1, <1>3, <1>4, <1>5, <4>1, <4>2
      <3> QED BY <1>8, <3>1, <3>2 DEF Tells
    <2> QED BY <1>7, <2>1, <2>2, <2>3
  <1>10. Flagged'
    <2>1. /\ flags' = [NoFlags EXCEPT !.Incomplete = flags'.Incomplete,
                                      !.IPLiteral = flags'.IPLiteral,
                                      !.Unresolvable = flags'.Unresolvable]
          /\ flags'.IPLiteral = flags.IPLiteral
          /\ res.kind = "error" => flags'.Incomplete = TRUE
          /\ res.kind # "error" => flags'.Incomplete = flags.Incomplete
          /\ res.kind = "not found" => flags'.Unresolvable = Append(flags.Unresolvable, n)
          /\ res.kind # "not found" => flags'.Unresolvable = flags.Unresolvable
      <3>0. flags = [NoFlags EXCEPT !.Incomplete = flags.Incomplete,
                                   !.IPLiteral = flags.IPLiteral,
                                   !.Unresolvable = flags.Unresolvable]
        BY <1>2 DEF Flagged
      <3>1. CASE res.kind = "error"
        <4>1. flags' = [flags EXCEPT !.Incomplete = TRUE]
          BY <1>4, <3>1
        <4> QED BY <3>0, <3>1, <4>1 DEF NoFlags
      <3>2. CASE res.kind = "not found"
        <4>1. flags' = [flags EXCEPT !.Unresolvable = Append(@, n)]
          BY <1>4, <3>2
        <4> QED BY <3>0, <3>2, <4>1 DEF NoFlags
      <3>3. CASE res.kind = "found"
        BY <1>4, <3>0, <3>3 DEF NoFlags
      <3> QED BY <1>4, <3>1, <3>2, <3>3
    <2>2. flags.IPLiteral \in Seq(Names \cup {Root}) /\ flags.Unresolvable \in Seq(Names \cup {Root})
      BY <1>2 DEF Flagged
    <2>3. /\ flags'.Unresolvable \in Seq(Names \cup {Root})
          /\ ToSet(flags'.Unresolvable) =
                ToSet(flags.Unresolvable) \cup IF res.kind = "not found" THEN {n} ELSE {}
      <3>1. CASE res.kind = "not found"
        <4>1. flags'.Unresolvable = Append(flags.Unresolvable, n)
          BY <2>1, <3>1
        <4>2. /\ Append(flags.Unresolvable, n) \in Seq(Names \cup {Root})
              /\ ToSet(Append(flags.Unresolvable, n)) = ToSet(flags.Unresolvable) \cup {n}
          BY <2>2, AppendSet
        <4> QED BY <3>1, <4>1, <4>2
      <3>2. CASE res.kind # "not found"
        BY <2>1, <2>2, <3>2
      <3> QED BY <3>1, <3>2
    <2>4. flags'.Incomplete <=> \E q \in lost' : q[2] # "AAAA"
      <3>1. flags.Incomplete <=> \E q \in lost : q[2] # "AAAA"
        BY <1>2 DEF Flagged
      <3>2. CASE res.kind = "error"
        <4>1. <<n, "A">> \in lost'
          BY <1>4, <1>5, <3>2
        <4>2. \E q \in lost' : q[2] # "AAAA"
          BY <4>1
        <4>3. flags'.Incomplete = TRUE
          BY <2>1, <3>2
        <4> QED BY <4>2, <4>3
      <3>3. CASE res.kind # "error"
        <4>1. \A q \in res.lost : q[2] = "AAAA"
          <5>1. res.lost = {} \/ res.lost = {<<n, "AAAA">>}
            BY <1>5, <3>3
          <5> QED BY <5>1
        <4>2. (\E q \in lost' : q[2] # "AAAA") <=> \E q \in lost : q[2] # "AAAA"
          BY <1>4, <4>1
        <4>3. flags'.Incomplete = flags.Incomplete
          BY <2>1, <3>3
        <4> QED BY <3>1, <4>2, <4>3
      <3> QED BY <3>2, <3>3
    <2>5. \A m \in ToSet(flags'.Unresolvable) : m \in Targets' /\ Unreported(m)'
      <3>1. \A m \in ToSet(flags.Unresolvable) : m \in Targets' /\ Unreported(m)'
        BY <1>2, <1>8 DEF Flagged, Unreported
      <3>2. res.kind = "not found" => n \in Targets' /\ Unreported(n)'
        <4> SUFFICES ASSUME res.kind = "not found"
                     PROVE  n \in Targets' /\ Unreported(n)'
          OBVIOUS
        <4>1. n \in Targets'
          BY <1>3, <1>8
        <4>2. CASE Reported(n) = {}
          BY <1>8, <4>1, <4>2 DEF Unreported
        <4>3. CASE res.lost = {<<n, "AAAA">>} /\ NoA(n)
          <5>1. <<n, "AAAA">> \in lost'
            BY <1>4, <4>3
          <5>2. NoA(n)'
            BY <1>8, <4>3
          <5> QED BY <4>1, <5>1, <5>2 DEF Unreported
        <4> QED BY <1>5, <4>2, <4>3
      <3> QED BY <2>3, <3>1, <3>2
    <2>6. ToSet(flags'.IPLiteral) = ToSet(Hosts)' \cap Literals
      BY <1>1, <1>2, <1>3, <1>7, <2>1, ZenonT(40) DEF Flagged
    <2>7. lost' = {} => ToSet(flags'.Unresolvable) =
                           {m \in ToSet(Hosts)' \ Literals : Reported(m)' = {}}
      <3> SUFFICES ASSUME lost' = {}
                   PROVE  ToSet(flags'.Unresolvable) =
                             {m \in ToSet(Hosts)' \ Literals : Reported(m)' = {}}
        OBVIOUS
      <3>1. lost = {} /\ res.lost = {}
        BY <1>4
      <3>2. ToSet(flags.Unresolvable) = {m \in ToSet(Hosts) \ Literals : Reported(m) = {}}
        BY <1>2, <3>1 DEF Flagged
      <3>3. res.kind = "not found" <=> Reported(n) = {}
        BY <1>5, <3>1
      <3> QED BY <1>1, <1>3, <1>7, <1>8, <2>3, <3>2, <3>3
    <2> QED BY <2>1, <2>2, <2>3, <2>4, <2>5, <2>6, <2>7 DEF Flagged
  <1>11. (TroubleReported /\ CompleteReported /\ Canonical)'
    BY <1>1 DEF TroubleReported, CompleteReported, Canonical
  <1>12. LoopInv' /\ hosts' \in Seq(Host)
    BY <1>1, <1>2, <1>7, <1>9, <1>10 DEF LoopInv, Followed, IsNull
  <1> QED BY <1>1, <1>2, <1>11, <1>12 DEF LookupInv

LEMMA FinishStep == LookupInv /\ Finish => LookupInv'
  <1> SUFFICES ASSUME LookupInv, Finish
               PROVE  LookupInv'
    OBVIOUS
  <1>1. /\ step = "hosts" /\ step' = "done" /\ Len(hosts) = Len(mxs)
        /\ hosts' = SortHosts(hosts)
        /\ flags' = [flags EXCEPT !.SingleHost = Len(hosts) = 1]
        /\ UNCHANGED <<zone, resolver, mxs, lost>>
    BY DEF Finish, Done
  <1>2. /\ zone \in Zones /\ resolver \in Resolvers /\ Flagged /\ Followed
        /\ mxs \in SetToSeqs(zone.mx) /\ mxs # <<>> /\ ~IsNull(mxs)
        /\ \A i \in 1 .. Len(hosts) : Tells(hosts[i])
    BY <1>1 DEF LookupInv, LoopInv
  <1>3. PICK n \in Nat : n = Len(hosts) /\ n = Len(mxs)
    BY <1>1, <1>2 DEF Followed
  <1>4. /\ hosts \in Seq(Host) /\ DOMAIN hosts = 1 .. n
        /\ \A i \in 1 .. n : /\ hosts[i] \in Host
                            /\ hosts[i].Host = mxs[i].host /\ hosts[i].Pref = mxs[i].pref
    <2>1. hosts \in Seq(Host)
      BY <1>2 DEF Followed
    <2>2. DOMAIN hosts = 1 .. Len(hosts) /\ \A i \in 1 .. Len(hosts) : hosts[i] \in Host
      BY <2>1
    <2>3. DOMAIN hosts = 1 .. n /\ \A i \in 1 .. n : hosts[i] \in Host
      BY <1>3, <2>2
    <2> QED BY <1>2, <1>3, <2>1, <2>3 DEF Followed
  <1>5. Lists(mxs, zone.mx) /\ Cardinality(zone.mx) = n
    BY <1>2, <1>3, AnswerLists, ZoneTypes
  <1>6. \A i \in 1 .. n : mxs[i] \in zone.mx /\ hosts[i].Host \in Names \cup {Root}
    <2>1. \A i \in 1 .. n : mxs[i] \in zone.mx
      BY <1>3, <1>5 DEF Lists
    <2>2. \A g \in Host : g.Host \in Names \cup {Root}
      BY DEF Host
    <2> QED BY <1>4, <2>1, <2>2
  <1>7. n # 0
    <2>1. mxs \in Seq(zone.mx)
      BY <1>5 DEF Lists
    <2> QED BY <1>2, <1>3, <2>1
  \* The hosts differ, and each has a list of addresses, so they can be sorted.
  <1>8. \A i, j \in 1 .. n : i # j => hosts[i].Host # hosts[j].Host \/ hosts[i].Pref # hosts[j].Pref
    <2> SUFFICES ASSUME NEW i \in 1 .. n, NEW j \in 1 .. n, i # j,
                        mxs[i].host = mxs[j].host, mxs[i].pref = mxs[j].pref
                 PROVE  FALSE
      BY <1>4
    <2>1. mxs[i] # mxs[j]
      BY <1>3, <1>5 DEF Lists
    <2>2. /\ mxs[i] = [host |-> mxs[i].host, pref |-> mxs[i].pref]
          /\ mxs[j] = [host |-> mxs[j].host, pref |-> mxs[j].pref]
      BY <1>2, <1>6, ZoneTypes
    <2> QED BY <2>1, <2>2
  <1>9. \A i \in 1 .. n : \E S \in SUBSET Nat : Lists(hosts[i].IPs, S)
    <2> SUFFICES ASSUME NEW i \in 1 .. n
                 PROVE  \E S \in SUBSET Nat : Lists(hosts[i].IPs, S)
      OBVIOUS
    <2>1. CASE Lists(hosts[i].IPs, Reported(hosts[i].Host))
      BY <1>2, <1>6, <2>1, ZoneTypes
    <2>2. CASE hosts[i].IPs = <<>>
      <3>1. Lists(<<>>, {})
        BY DEF Lists
      <3> QED BY <2>2, <3>1
    <2> QED BY <1>2, <1>3, <2>1, <2>2 DEF Tells
  <1>10. /\ hosts' \in Seq(Host) /\ Len(hosts') = n /\ DOMAIN hosts' = 1 .. n
         /\ \A i, j \in 1 .. n : i < j => Before(hosts'[i], hosts'[j])
         /\ \A i \in 1 .. n : \E k \in 1 .. n :
               hosts'[i] = [hosts[k] EXCEPT !.IPs = Sorted(hosts[k].IPs)]
         /\ \A k \in 1 .. n : \E i \in 1 .. n :
               hosts'[i] = [hosts[k] EXCEPT !.IPs = Sorted(hosts[k].IPs)]
    <2>1. PICK hs \in Seq(Host) : hs = hosts
      BY <1>4
    <2>2. /\ SortHosts(hs) \in Seq(Host) /\ Len(SortHosts(hs)) = Len(hs)
          /\ \A i, j \in 1 .. Len(hs) : i < j => Before(SortHosts(hs)[i], SortHosts(hs)[j])
          /\ \A i \in 1 .. Len(hs) : \E k \in 1 .. Len(hs) :
                SortHosts(hs)[i] = [hs[k] EXCEPT !.IPs = Sorted(hs[k].IPs)]
          /\ \A k \in 1 .. Len(hs) : \E i \in 1 .. Len(hs) :
                SortHosts(hs)[i] = [hs[k] EXCEPT !.IPs = Sorted(hs[k].IPs)]
      <3>1. \A i \in 1 .. Len(hs) : \E S \in SUBSET Nat : Lists(hs[i].IPs, S)
        BY <1>3, <1>9, <2>1
      <3>2. \A i, j \in 1 .. Len(hs) :
               i # j => hs[i].Host # hs[j].Host \/ hs[i].Pref # hs[j].Pref
        BY <1>3, <1>8, <2>1, ZenonT(40)
      <3> QED BY <3>1, <3>2, SortedHosts
    <2>3. hosts' = SortHosts(hs) /\ Len(hs) = n
      BY <1>1, <1>3, <2>1
    <2>4. hosts' \in Seq(Host) /\ Len(hosts') = n
      BY <2>2, <2>3
    <2>5. DOMAIN hosts' = 1 .. n
      BY <2>4
    <2>6. \A i, j \in 1 .. n : i < j => Before(hosts'[i], hosts'[j])
      BY <2>2, <2>3
    <2>7. \A i \in 1 .. n : \E k \in 1 .. n :
             hosts'[i] = [hs[k] EXCEPT !.IPs = Sorted(hs[k].IPs)]
      BY <2>2, <2>3
    <2>8. \A k \in 1 .. n : \E i \in 1 .. n :
             hosts'[i] = [hs[k] EXCEPT !.IPs = Sorted(hs[k].IPs)]
      BY <2>2, <2>3
    <2> QED BY <2>1, <2>4, <2>5, <2>6, <2>7, <2>8, SMTT(30)
  <1>11. ToSet(Hosts) = Targets /\ Targets' = Targets
    <2>1. ToSet(Hosts) = {hosts[i].Host : i \in 1 .. n}
      BY <1>4 DEF ToSet, Hosts
    <2>2. zone.mx = {mxs[i] : i \in 1 .. n}
      BY <1>3, <1>5 DEF Lists
    <2>3. Targets = {mxs[i].host : i \in 1 .. n}
      BY <2>2 DEF Targets
    <2>4. {hosts[i].Host : i \in 1 .. n} = {mxs[i].host : i \in 1 .. n}
      BY <1>4
    <2>5. Targets' = Targets
      BY <1>1 DEF Targets
    <2> QED BY <2>1, <2>3, <2>4, <2>5
  <1>12. /\ ~flags'.Missing /\ ~flags'.Null /\ ~flags'.Implicit
         /\ flags'.Incomplete = flags.Incomplete
         /\ flags'.SingleHost = (Len(hosts) = 1)
         /\ flags'.Unresolvable = flags.Unresolvable /\ flags'.IPLiteral = flags.IPLiteral
    <2>1. flags = [NoFlags EXCEPT !.Incomplete = flags.Incomplete,
                                 !.IPLiteral = flags.IPLiteral,
                                 !.Unresolvable = flags.Unresolvable]
      BY <1>2 DEF Flagged
    <2> QED BY <1>1, <2>1 DEF NoFlags
  <1>13. TroubleReported'
    <2>1. flags'.Incomplete <=> \E q \in lost' : q[2] # "AAAA"
      BY <1>1, <1>2, <1>12 DEF Flagged
    <2>2. \A m \in ToSet(flags'.Unresolvable) : m \in Targets' /\ Unreported(m)'
      BY <1>1, <1>2, <1>12, ZoneStays DEF Flagged, Unreported
    <2> QED BY <1>12, <2>1, <2>2 DEF TroubleReported
  <1>14. CompleteReported'
    <2> SUFFICES ASSUME lost' = {}
                 PROVE  CompleteReported'
      BY DEF CompleteReported
    <2>1. zone'.mx # {} /\ hosts' # <<>>
      <3>1. 1 \in 1 .. n
        BY <1>7
      <3>2. zone.mx # {}
        BY <1>6, <3>1
      <3>3. Len(hosts') # 0
        BY <1>7, <1>10
      <3>4. hosts' # <<>>
        BY <3>3
      <3> QED BY <1>1, <3>2, <3>4
    <2>2. ~(Targets' = {Root} /\ Cardinality(zone'.mx) = 1)
      <3> SUFFICES ASSUME Targets = {Root}, n = 1
                   PROVE  FALSE
        BY <1>1, <1>5, <1>11
      <3>1. mxs[1] \in zone.mx
        BY <1>6
      <3>2. mxs[1].host = Root
        BY <3>1 DEF Targets
      <3> QED BY <1>2, <1>3, <3>2 DEF IsNull
    <2>3. /\ ToSet(flags'.IPLiteral) = Targets' \cap Literals
          /\ ToSet(flags'.Unresolvable) = {m \in Targets' \ Literals : Reported(m)' = {}}
      BY <1>1, <1>2, <1>11, <1>12, ZoneStays DEF Flagged
    <2>4. flags'.SingleHost <=> Len(hosts') = 1
      BY <1>3, <1>10, <1>12
    <2> QED BY <1>12, <2>1, <2>2, <2>3, <2>4 DEF CompleteReported
  <1>15. Canonical'
    <2>1. {[host |-> h.Host, pref |-> h.Pref] : h \in ToSet(hosts')} = zone.mx
      <3>1. \A k \in 1 .. n : [host |-> hosts[k].Host, pref |-> hosts[k].Pref] = mxs[k]
        BY <1>2, <1>4, <1>6, ZoneTypes
      <3>2. \A k \in 1 .. n : \A h : h = [hosts[k] EXCEPT !.IPs = Sorted(hosts[k].IPs)] =>
               h.Host = hosts[k].Host /\ h.Pref = hosts[k].Pref
        BY <1>4 DEF Host
      <3>3. ASSUME NEW m \in zone.mx
            PROVE  \E h \in ToSet(hosts') : m = [host |-> h.Host, pref |-> h.Pref]
        <4>1. PICK k \in 1 .. n : m = mxs[k]
          BY <1>3, <1>5 DEF Lists
        <4>2. PICK i \in 1 .. n : hosts'[i] = [hosts[k] EXCEPT !.IPs = Sorted(hosts[k].IPs)]
          BY <1>10
        <4>3. hosts'[i] \in ToSet(hosts')
          BY <1>10 DEF ToSet
        <4>4. hosts'[i].Host = hosts[k].Host /\ hosts'[i].Pref = hosts[k].Pref
          BY <3>2, <4>2
        <4> QED BY <3>1, <4>1, <4>3, <4>4
      <3>4. ASSUME NEW h \in ToSet(hosts')
            PROVE  [host |-> h.Host, pref |-> h.Pref] \in zone.mx
        <4>1. PICK i \in 1 .. n : h = hosts'[i]
          BY <1>10 DEF ToSet
        <4>2. PICK k \in 1 .. n : h = [hosts[k] EXCEPT !.IPs = Sorted(hosts[k].IPs)]
          BY <1>10, <4>1
        <4>3. h.Host = hosts[k].Host /\ h.Pref = hosts[k].Pref
          BY <3>2, <4>2
        <4> QED BY <1>6, <3>1, <4>3
      <3> QED BY <3>3, <3>4
    <2>2. ASSUME NEW h \in ToSet(hosts')
          PROVE  \/ /\ h.Host \notin Literals
                    /\ ToSet(h.IPs) = Reported(h.Host)
                    /\ \A i, j \in DOMAIN h.IPs : i < j => h.IPs[i] < h.IPs[j]
                 \/ /\ h.Host \in Literals \/ \E q \in lost : q[1] = h.Host
                    /\ h.IPs = <<>>
      <3>1. PICK i \in 1 .. n : h = hosts'[i]
        BY <1>10 DEF ToSet
      <3>2. PICK k \in 1 .. n : h = [hosts[k] EXCEPT !.IPs = Sorted(hosts[k].IPs)]
        BY <1>10, <3>1
      <3>3. h.Host = hosts[k].Host /\ h.IPs = Sorted(hosts[k].IPs)
        BY <1>4, <3>2 DEF Host
      <3>4. PICK ips : ips = hosts[k].IPs
        OBVIOUS
      <3>5. Tells(hosts[k]) /\ Reported(h.Host) \in SUBSET Nat
        BY <1>2, <1>3, <1>6, <3>3, ZoneTypes
      <3>6. CASE h.Host \notin Literals /\ Lists(ips, Reported(h.Host))
        <4>1. /\ Lists(Sorted(ips), Reported(h.Host))
              /\ \A a, b \in 1 .. Len(Sorted(ips)) : a < b => Sorted(ips)[a] < Sorted(ips)[b]
          BY <3>5, <3>6, SortedAddresses
        <4>2. DOMAIN Sorted(ips) = 1 .. Len(Sorted(ips))
          BY <4>1 DEF Lists
        <4>3. ToSet(Sorted(ips)) = Reported(h.Host)
          BY <4>1, <4>2 DEF ToSet, Lists
        <4> QED BY <3>3, <3>4, <3>6, <4>1, <4>2, <4>3
      <3>7. CASE (h.Host \in Literals \/ \E q \in lost : q[1] = h.Host) /\ ips = <<>>
        <4>1. Lists(<<>>, {}) /\ {} \in SUBSET Nat
          BY DEF Lists
        <4>2. Lists(Sorted(<<>>), {})
          BY <4>1, SortedAddresses
        <4>3. Sorted(<<>>) = <<>>
          BY <4>2 DEF Lists
        <4> QED BY <3>3, <3>4, <3>7, <4>3
      <3> QED BY <3>3, <3>4, <3>5, <3>6, <3>7 DEF Tells
    <2>3. \A i, j \in DOMAIN hosts' : i < j => Before(hosts[i], hosts[j])'
      BY <1>10 DEF Before
    <2> QED BY <1>1, <2>1, <2>2, <2>3, ZoneStays DEF Canonical
  <1> QED BY <1>1, <1>2, <1>10, <1>13, <1>14, <1>15 DEF LookupInv, LoopInv

\* What changes nothing of a lookup changes nothing of what is said of it.
LEMMA LookupStays == LookupInv /\ UNCHANGED lookup => LookupInv'
  <1> SUFFICES ASSUME LookupInv, UNCHANGED lookup
               PROVE  LookupInv'
    OBVIOUS
  <1>1. UNCHANGED <<zone, resolver, step, mxs, hosts, flags, lost>>
    BY DEF lookup
  <1>2. LoopInv'
    BY <1>1, ZenonT(40) DEF LookupInv, LoopInv, Followed, Flagged, Tells, IsNull, Hosts, Targets,
                Unreported, Reported, NoA
  <1>3. (TroubleReported /\ CompleteReported)'
    BY <1>1 DEF LookupInv, TroubleReported, CompleteReported, Targets, Unreported, Reported,
                   NoA
  <1>4. Canonical'
    BY <1>1 DEF LookupInv, Canonical, Before, Reported
  <1> QED BY <1>1, <1>2, <1>3, <1>4 DEF LookupInv, Silent

LEMMA LookupInvStep == LookupInv /\ [MXLookup]_lookup => LookupInv'
  BY MXUnansweredStep, MXNullStep, MXAnsweredStep, ImplicitMXStep, LiteralStep,
     ResolveStep, FinishStep, LookupStays DEF MXLookup

LEMMA LookupInvInit == InitLookup => LookupInv
  <1> SUFFICES ASSUME InitLookup
               PROVE  LookupInv
    OBVIOUS
  <1>1. hosts \in Seq(Host)
    BY DEF InitLookup
  <1> QED BY <1>1 DEF InitLookup, LookupInv, LoopInv, Silent, TroubleReported,
                      CompleteReported, Canonical

-----------------------------------------------------------------------------
(***************************************************************************)
(* Survey.                                                                 *)
(***************************************************************************)

\* A lookup that is done stays as it is.
LEMMA DoneIsDone == step = "done" /\ MXLookup => FALSE
  BY DEF MXLookup, MXUnanswered, MXNull, MXAnswered, ImplicitMX, Literal, Resolve,
         Finish, Looping

\* A table that has been loaded stays as it is.
LEMMA LoadedIsLoaded == status = "loaded" /\ Load => FALSE
  BY DEF Load, BadEntry, GoodEntry, BadClaim, GoodClaim, NextEntry, Loaded, Reading

\* Nor does what a host is matched with change.
LEMMA NamesStay ==
    ASSUME hosts' = hosts, matcher' = matcher
    PROVE  [i \in DOMAIN Hosts |-> Lookup("mx", Hosts[i])]' =
              [i \in DOMAIN Hosts |-> Lookup("mx", Hosts[i])]
  <1>1. Hosts' = Hosts
    BY DEF Hosts
  <1>2. ASSUME NEW n
        PROVE  Lookup("mx", n)' = Lookup("mx", n)
    BY DEF Lookup, Hits, Suffix, Normalize
  <1> QED BY <1>1, <1>2

LEMMA NamedStep == NamedInv /\ [NextSurvey]_<<vars, lookup, named>> => NamedInv'
  <1> SUFFICES ASSUME NamedInv, [NextSurvey]_<<vars, lookup, named>>
               PROVE  NamedInv'
    OBVIOUS
  <1>1. CASE Starting
    <2>1. step = "mx" /\ UNCHANGED <<lookup, named>>
      BY <1>1, LoadedIsLoaded DEF Starting, NamedInv
    <2>2. named = <<>> /\ step' = "mx" /\ named' = <<>>
      BY <2>1 DEF NamedInv, lookup
    <2> QED BY <2>2 DEF NamedInv
  <1>2. CASE LookingUp
    <2>1. status' = "loaded" /\ named' = named /\ step # "done"
      BY <1>2, DoneIsDone DEF LookingUp, vars
    <2>2. named' = <<>>
      BY <2>1 DEF NamedInv
    <2> QED BY <2>1, <2>2 DEF NamedInv
  <1>3. CASE Naming
    <2>1. /\ step = "done" /\ status = "loaded"
          /\ named' = [i \in DOMAIN Hosts |-> Lookup("mx", Hosts[i])]
          /\ UNCHANGED <<step, status, hosts, matcher>>
      BY <1>3 DEF Naming, NamedInv, lookup, vars
    <2> QED BY <2>1, NamesStay DEF NamedInv
  <1>4. CASE UNCHANGED <<vars, lookup, named>>
    <2>1. UNCHANGED <<step, status, hosts, matcher, named>>
      BY <1>4 DEF lookup, vars
    <2> QED BY <2>1, NamesStay DEF NamedInv
  <1> QED BY <1>1, <1>2, <1>3, <1>4 DEF NextSurvey

LEMMA SurveyInvariance == SpecSurvey => [](IInv /\ LookupInv /\ NamedInv)
  <1>1. InitSurvey => IInv /\ LookupInv /\ NamedInv
    <2>1. InitSurvey => NamedInv
      BY DEF InitSurvey, InitLookup, NamedInv
    <2> QED BY <2>1, InitIInv, LookupInvInit DEF InitSurvey
  <1>2. IInv /\ LookupInv /\ NamedInv /\ [NextSurvey]_<<vars, lookup, named>>
           => IInv' /\ LookupInv' /\ NamedInv'
    <2>1. [NextSurvey]_<<vars, lookup, named>> => [Load]_vars /\ [MXLookup]_lookup
      BY DEF NextSurvey, Starting, LookingUp, Naming
    <2>2. IInv /\ [Load]_vars => IInv'
      BY TypeStep, ReadIsEnteredStep, EnteredIsReadStep, ReturnedStep DEF IInv
    <2> QED BY <2>1, <2>2, LookupInvStep, NamedStep
  <1> QED BY <1>1, <1>2, PTL DEF SpecSurvey

-----------------------------------------------------------------------------
\* What is reported, and what the zone holds: a name of which nothing is
\* reported has no address, or is one of the exceptions; and publicres reports
\* an address of every name that has one.
LEMMA ReportedIsTrue ==
    ASSUME LookupInv
    PROVE  /\ \A n : Unreported(n) => Absent(n)
           /\ resolver = "publicres" =>
                 \A n : Reported(n) = {} <=> Addresses(n) = {}
  <1>1. resolver \in {"publicres", "cache"}
    BY InboundAssumption DEF LookupInv
  <1> QED
    BY <1>1 DEF Unreported, NoA, Absent, Reported, Addresses

\* Our own network trouble is never reported as the domain's, however its
\* records are arranged and whatever is answered (Lookup, mx.go).
THEOREM OwnTroubleHolds == SpecSurvey => []OwnTroubleIsOwn
  <1>1. LookupInv => OwnTroubleIsOwn
    <2> SUFFICES ASSUME LookupInv
                 PROVE  OwnTroubleIsOwn
      OBVIOUS
    <2>1. TroubleReported
      BY DEF LookupInv
    <2> QED BY <2>1, ReportedIsTrue DEF TroubleReported, OwnTroubleIsOwn
  <1> QED BY <1>1, SurveyInvariance, PTL

\* Through publicres, a result that is complete says exactly what the zone
\* holds, IPv6 addresses included (Lookup, mx.go).
THEOREM CompleteResultsAreExact == SpecSurvey => []CompleteIsExact
  <1>1. LookupInv => CompleteIsExact
    <2> SUFFICES ASSUME LookupInv, step = "done", lost = {}, resolver = "publicres"
                 PROVE  CompleteIsExact
      BY DEF CompleteIsExact
    <2>1. CompleteReported
      BY DEF LookupInv
    <2>2. \A n : Reported(n) = {} <=> Addresses(n) = {}
      BY ReportedIsTrue
    <2>3. {n \in Targets \ Literals : Reported(n) = {}} =
             {n \in Targets \ Literals : Addresses(n) = {}}
      BY <2>2
    <2> QED BY <2>1, <2>2, <2>3 DEF CompleteReported, CompleteIsExact
  <1> QED BY <1>1, SurveyInvariance, PTL

\* However the answers are ordered, the hosts come out in one order, and all of
\* them, and so do the addresses of each (sortHosts, mx.go).
THEOREM ResultsAreCanonical == SpecSurvey => []Canonical
  BY SurveyInvariance, PTL DEF LookupInv

\* The walk of lookup, over the labels of a name from the left, ends at the
\* longest claim there is to the name.
LEMMA LookupIsLongest ==
    ASSUME IInv, status = "loaded", NEW name \in Seq(Labels)
    PROVE  IF ClaimsTo(name) = {} THEN Lookup("mx", name) = Nobody
           ELSE \E c \in ClaimsTo(name) :
                   /\ Lookup("mx", name).id = c[2]
                   /\ \A d \in ClaimsTo(name) : Len(d[1]) <= Len(c[1])
  <1>0. /\ TypeOK /\ ReadIsEntered /\ EnteredIsRead /\ Returned
        /\ DOMAIN data = 1 .. Len(data) /\ "mx" \in Kinds /\ "mx" \in SuffixKinds
    BY TableTypes DEF IInv, Kinds, SuffixKinds
  <1>1. PICK n \in Seq(Labels) : n = Normalize(name) /\ Len(n) \in Nat
    BY NormalizeSettles
  \* What the walk finds, somebody claims.
  <1>2. ASSUME NEW i \in Hits("mx", n)
        PROVE  <<Suffix(n, i), matcher["mx"][<<Suffix(n, i), Anybody>>].id>> \in ClaimsTo(name)
    <2> DEFINE key == <<Suffix(n, i), Anybody>>
    <2>1. i \in 1 .. Len(n) /\ key \in DOMAIN matcher["mx"]
      BY DEF Hits
    <2>2. PICK e \in 1 .. Len(data) : \E j \in 1 .. Len(data[e].claims) :
             /\ data[e].claims[j].kind = "mx"
             /\ Key(data[e].claims[j]) = key
             /\ matcher["mx"][key] = data[e]
      BY <1>0, <2>1 DEF EnteredIsRead
    <2>3. PICK j \in 1 .. Len(data[e].claims) :
             /\ data[e].claims[j].kind = "mx"
             /\ Key(data[e].claims[j]) = key
             /\ matcher["mx"][key] = data[e]
      BY <2>2
    <2> DEFINE c == data[e].claims[j]
               r == [claim |-> c, id |-> data[e].id]
    <2>4. c \in ClaimsOf(e) /\ e \in DOMAIN data
      BY <1>0, TableTypes DEF ClaimsOf
    <2>5. Normalize(c.name) = Suffix(n, i)
      BY <2>3 DEF Key
    <2>6. IsSuffixOf(Normalize(c.name), Normalize(name))
      BY <1>1, <2>1, <2>5 DEF IsSuffixOf
    <2>7. r \in UNION {{[claim |-> d, id |-> data[f].id] : d \in ClaimsOf(f)} : f \in DOMAIN data}
      BY <2>4
    <2>8. r.claim = c /\ r.id = data[e].id /\ r.claim.kind = "mx"
      BY <2>3
    <2>9. <<Normalize(r.claim.name), r.id>> \in ClaimsTo(name)
      <3> HIDE DEF c, r
      <3> QED BY <2>6, <2>7, <2>8 DEF ClaimsTo
    <2> QED BY <2>3, <2>5, <2>8, <2>9
  \* What somebody claims, the walk would come to.
  <1>3. ASSUME NEW c \in ClaimsTo(name)
        PROVE  \E i \in Hits("mx", n) : c[1] = Suffix(n, i)
    <2>1. PICK r \in UNION {{[claim |-> d, id |-> data[f].id] : d \in ClaimsOf(f)} : f \in DOMAIN data} :
             /\ r.claim.kind = "mx"
             /\ IsSuffixOf(Normalize(r.claim.name), Normalize(name))
             /\ c = <<Normalize(r.claim.name), r.id>>
      BY DEF ClaimsTo
    <2>2. PICK e \in 1 .. Len(data) : \E d \in ClaimsOf(e) : r = [claim |-> d, id |-> data[e].id]
      BY <1>0
    <2>3. PICK d \in ClaimsOf(e) : r = [claim |-> d, id |-> data[e].id]
      BY <2>2
    <2>4. PICK j \in 1 .. Len(data[e].claims) : d = data[e].claims[j]
      BY <1>0, TableTypes DEF ClaimsOf
    <2>5. d \in Claims /\ d.kind = "mx" /\ r.claim = d
      BY <1>0, <2>1, <2>3, <2>4, TableTypes
    <2>6. Key(d) = <<Normalize(d.name), Anybody>>
      BY <2>5 DEF Key, Claims
    <2>7. PICK i \in 1 .. Len(n) : Normalize(d.name) = Suffix(n, i)
      BY <1>1, <2>1, <2>5 DEF IsSuffixOf
    <2>8. Key(d) \in DOMAIN matcher["mx"]
      <3>1. e < entry
        BY <1>0 DEF Returned, TypeOK
      <3> QED BY <1>0, <2>4, <2>5, <3>1 DEF ReadIsEntered, Read
    <2>9. i \in Hits("mx", n)
      BY <2>6, <2>7, <2>8 DEF Hits
    <2> QED BY <2>1, <2>5, <2>7, <2>9
  <1>4. CASE Hits("mx", n) = {}
    <2>1. ClaimsTo(name) = {}
      BY <1>3, <1>4
    <2> QED BY <1>1, <1>4, <2>1 DEF Lookup
  <1>5. CASE Hits("mx", n) # {}
    <2> DEFINE first == CHOOSE i \in Hits("mx", n) : \A j \in Hits("mx", n) : i <= j
    <2>1. Hits("mx", n) \in SUBSET Nat
      BY <1>1 DEF Hits
    <2>2. first \in Hits("mx", n) /\ \A j \in Hits("mx", n) : first <= j
      <3>1. \E i \in Hits("mx", n) : \A j \in Hits("mx", n) : i <= j
        BY <1>5, <2>1, Least
      <3> QED BY <3>1
    <2>3. Lookup("mx", name) = matcher["mx"][<<Suffix(n, first), Anybody>>]
      BY <1>1, <1>5 DEF Lookup
    <2> HIDE DEF first
    <2>4. PICK c \in ClaimsTo(name) :
             c = <<Suffix(n, first), matcher["mx"][<<Suffix(n, first), Anybody>>].id>>
      BY <1>2, <2>2
    <2>5. \A i \in 1 .. Len(n) : Len(Suffix(n, i)) = Len(n) - i + 1
      BY <1>1 DEF Suffix
    <2>6. \A i \in Hits("mx", n) : i \in 1 .. Len(n)
      BY DEF Hits
    <2>7. ASSUME NEW d \in ClaimsTo(name)
          PROVE  Len(d[1]) <= Len(c[1])
      <3>1. PICK i \in Hits("mx", n) : d[1] = Suffix(n, i)
        BY <1>3
      <3>2. first <= i /\ i \in 1 .. Len(n) /\ first \in 1 .. Len(n)
        BY <2>2, <2>6
      <3>3. Len(d[1]) = Len(n) - i + 1 /\ Len(c[1]) = Len(n) - first + 1
        BY <2>4, <2>5, <3>1, <3>2
      <3> QED BY <1>1, <3>2, <3>3
    <2>8. Lookup("mx", name).id = c[2]
      BY <2>3, <2>4
    <2> QED BY <2>4, <2>7, <2>8
  <1> QED BY <1>4, <1>5

\* Each host of a domain is given to the vendor with the longest claim to it,
\* whatever the order of the table and of the answers.
THEOREM HostsAreAttributed == SpecSurvey => []Attributed
  <1>1. IInv /\ LookupInv /\ NamedInv => Attributed
    <2> SUFFICES ASSUME IInv, LookupInv, NamedInv, named # <<>>
                 PROVE  Attributed
      BY DEF Attributed
    <2>1. /\ status = "loaded" /\ hosts \in Seq(Host)
          /\ named = [i \in DOMAIN Hosts |-> Lookup("mx", Hosts[i])]
      BY DEF NamedInv, LookupInv
    <2>2. /\ DOMAIN hosts = 1 .. Len(hosts) /\ Len(hosts) \in Nat
          /\ \A i \in 1 .. Len(hosts) : hosts[i] \in Host
      BY <2>1
    <2>3. DOMAIN named = 1 .. Len(hosts) /\ Len(named) = Len(hosts)
      BY <2>1, <2>2 DEF Hosts
    <2>4. ASSUME NEW i \in DOMAIN named
          PROVE  LET claims == ClaimsTo(hosts[i].Host)
                 IN IF claims = {} THEN named[i] = Nobody
                    ELSE \E c \in claims :
                            /\ named[i].id = c[2]
                            /\ \A d \in claims : Len(d[1]) <= Len(c[1])
      <3>1. i \in 1 .. Len(hosts) /\ named[i] = Lookup("mx", hosts[i].Host)
        BY <2>1, <2>2, <2>3 DEF Hosts
      <3>2. hosts[i].Host \in Seq(Labels)
        <4>1. hosts[i].Host \in Names \cup {Root}
          BY <2>2, <3>1 DEF Host
        <4>2. Root \in Seq(Labels)
          BY DEF Root
        <4> QED BY <4>1, <4>2, SurveyAssumption
      <3> QED BY <2>1, <3>1, <3>2, LookupIsLongest
    <2> QED BY <2>3, <2>4 DEF Attributed
  <1> QED BY <1>1, SurveyInvariance, PTL

=============================================================================
