------------------------------ MODULE Provider ------------------------------
(***************************************************************************)
(* provider: vendors identified by the names a domain points at.  Load     *)
(* reads a table of vendors into one map for each kind of trace, entry by  *)
(* entry and claim by claim, and gives up at the first that is no good;    *)
(* the Match functions look a name up in the map of its kind.  A name is   *)
(* the sequence of its labels, and a label may be spelt in several ways    *)
(* that Normalize makes one.                                               *)
(***************************************************************************)
EXTENDS Integers, Sequences, Functions

CONSTANTS Labels,       \* labels, in any spelling
          Lower,        \* the spelling Normalize gives each of them
          VendorIDs,    \* ids of vendors
          Tables        \* tables Load may be given: sequences of entries

SuffixKinds == {"mx", "spf", "dkim", "cname"}
LabelKinds  == {"selector", "key", "mailfrom"}
Kinds       == SuffixKinds \cup LabelKinds

Anybody == "anybody"    \* the "on" of a MAIL FROM rule that names nobody

\* What an entry claims: its suffixes, selectors, key hashes and MAIL FROM
\* labels, in the order Load goes through them.
Claims ==
    {c \in [kind : Kinds, name : Seq(Labels), on : VendorIDs \cup {Anybody}] :
        c.kind # "mailfrom" => c.on = Anybody}

\* One entry.  known: it has an id, a name and one of the categories.
Provider == [id : VendorIDs, known : BOOLEAN, claims : Seq(Claims)]

\* What a Match function returns when it finds nothing.
Nobody == [id |-> "", known |-> FALSE, claims |-> <<>>]

ASSUME ProviderAssumption ==
    /\ "" \notin VendorIDs
    /\ Lower \in [Labels -> Labels]
    /\ \A l \in Labels : Lower[Lower[l]] = Lower[l]
    /\ Tables \subseteq Seq(Provider)

VARIABLES data,         \* the table being loaded
          entry,        \* the entry Load is at, and
          claim,        \* its claim, 0 before the first
          matcher,      \* m: for each kind, who has claimed what
          status        \* whether Load is at it, or how it returned

vars == <<data, entry, claim, matcher, status>>

NoClaims == [k \in Kinds |-> <<>>]

Init ==
    /\ data \in Tables
    /\ entry = 1 /\ claim = 0
    /\ matcher = NoClaims
    /\ status = "loading"

Normalize(n) == [i \in 1 .. Len(n) |-> Lower[n[i]]]

\* A suffix has a dot in it; a selector, a key hash or a label has none.
Usable(c) == IF c.kind \in SuffixKinds THEN Len(c.name) >= 2
                                       ELSE Len(c.name) = 1

\* Mistaken: names are entered as they are spelt.
KeyAsSpelt(c) == <<c.name, c.on>>

\* What a claim is entered under.
Key(c) == <<Normalize(c.name), c.on>>

\* Mistaken: the last to claim a name has it.
LastWins(v, c) == FALSE

\* Another vendor has claimed it before.
Conflict(v, c) == /\ Key(c) \in DOMAIN matcher[c.kind]
                  /\ matcher[c.kind][Key(c)].id # v.id

Entry == data[entry]
Claim == Entry.claims[claim]

\* Load returns an error and no matcher.
Fail ==
    /\ status' = "failed"
    /\ matcher' = NoClaims
    /\ UNCHANGED <<data, entry, claim>>

Reading == status = "loading" /\ entry <= Len(data)

BadEntry == Reading /\ claim = 0 /\ ~Entry.known /\ Fail

GoodEntry ==
    /\ Reading /\ claim = 0 /\ Entry.known
    /\ claim' = 1
    /\ UNCHANGED <<data, entry, matcher, status>>

BadClaim ==
    /\ Reading /\ claim \in 1 .. Len(Entry.claims)
    /\ ~Usable(Claim) \/ Conflict(Entry, Claim)
    /\ Fail

With(f, k, v) == [x \in DOMAIN f \cup {k} |-> IF x = k THEN v ELSE f[x]]

GoodClaim ==
    /\ Reading /\ claim \in 1 .. Len(Entry.claims)
    /\ Usable(Claim) /\ ~Conflict(Entry, Claim)
    /\ matcher' = [matcher EXCEPT ![Claim.kind] = With(@, Key(Claim), Entry)]
    /\ claim' = claim + 1
    /\ UNCHANGED <<data, entry, status>>

\* Mistaken: the last claim of an entry is not looked at.
NextEntryEarly ==
    /\ Reading /\ claim > 0 /\ claim >= Len(Entry.claims)
    /\ entry' = entry + 1 /\ claim' = 0
    /\ UNCHANGED <<data, matcher, status>>

NextEntry ==
    /\ Reading /\ claim > Len(Entry.claims)
    /\ entry' = entry + 1 /\ claim' = 0
    /\ UNCHANGED <<data, matcher, status>>

Loaded ==
    /\ status = "loading" /\ entry > Len(data)
    /\ status' = "loaded"
    /\ UNCHANGED <<data, entry, claim, matcher>>

Load == BadEntry \/ GoodEntry \/ BadClaim \/ GoodClaim \/ NextEntry \/ Loaded

Spec == Init /\ [][Load]_vars

-----------------------------------------------------------------------------
(***************************************************************************)
(* The Match functions.                                                    *)
(***************************************************************************)

Suffix(n, i) == SubSeq(n, i, Len(n))

Hits(kind, n) ==
    {i \in 1 .. Len(n) : <<Suffix(n, i), Anybody>> \in DOMAIN matcher[kind]}

\* lookup: the walk drops a label at a time from the left, and ends at the
\* first suffix it finds.
Lookup(kind, name) ==
    LET n == Normalize(name) IN
    IF Hits(kind, n) = {} THEN Nobody
    ELSE LET first == CHOOSE i \in Hits(kind, n) :
                          \A j \in Hits(kind, n) : i <= j
         IN matcher[kind][<<Suffix(n, first), Anybody>>]

At(kind, key) == IF key \in DOMAIN matcher[kind] THEN matcher[kind][key]
                                                 ELSE Nobody

\* MatchDKIMSelector and MatchDKIMKey.
Exactly(kind, name) == At(kind, <<Normalize(name), Anybody>>)

\* A rule for whoever is underneath comes before a rule for anybody.
MatchMailFrom(label, underlying) ==
    LET exact == At("mailfrom", <<Normalize(label), underlying>>)
    IN IF exact # Nobody THEN exact ELSE Exactly("mailfrom", label)

Match(c) ==
    IF c.kind \in SuffixKinds THEN Lookup(c.kind, c.name)
    ELSE IF c.kind = "mailfrom" THEN MatchMailFrom(c.name, c.on)
    ELSE Exactly(c.kind, c.name)

\* Get: the first entry with the id.
Get(id) ==
    LET with == {i \in 1 .. Len(data) : data[i].id = id}
    IN IF with = {} THEN Nobody
       ELSE data[CHOOSE i \in with : \A j \in with : i <= j]

-----------------------------------------------------------------------------
\* The types of the variables.
TypeOK ==
    /\ data \in Tables
    /\ entry \in 1 .. Len(data) + 1
    /\ claim \in Nat
    /\ entry <= Len(data) => claim <= Len(Entry.claims) + 1
    /\ DOMAIN matcher = Kinds
    /\ \A k \in Kinds : \A key \in DOMAIN matcher[k] :
          /\ key[1] \in Seq(Labels) /\ key[2] \in VendorIDs \cup {Anybody}
          /\ matcher[k][key] \in Provider
    /\ status \in {"loading", "loaded", "failed"}

\* What entry i claims.
ClaimsOf(i) == {data[i].claims[j] : j \in DOMAIN data[i].claims}

\* No two vendors claim one name, and everything is usable.
Clean ==
    /\ \A i \in DOMAIN data : data[i].known /\ \A c \in ClaimsOf(i) : Usable(c)
    /\ \A i, j \in DOMAIN data : \A c \in ClaimsOf(i), d \in ClaimsOf(j) :
          c.kind = d.kind /\ Key(c) = Key(d) => data[i].id = data[j].id

\* "Two vendors claiming one suffix means whichever loaded last wins,
\* silently": whatever the order of the entries, a table is loaded exactly if
\* no two vendors claim one name, however they spell it, and none is unusable.
LoadedIfClean ==
    /\ status = "loaded" => Clean
    /\ status = "failed" => ~Clean

\* Every claim of a table that was loaded leads back to its vendor, over the
\* rules of the others and the longer and the shorter names; and, unless the
\* table has two entries with one id, to the very entry Get finds for the id.
EveryClaimAnswers ==
    status = "loaded" =>
        \A i \in DOMAIN data : \A c \in ClaimsOf(i) :
            /\ Match(c) # Nobody
            /\ Match(c).id = data[i].id
            /\ (\A j, k \in DOMAIN data : data[j].id = data[k].id => j = k)
                  => Match(c) = Get(data[i].id)

=============================================================================
