-------------------------------- MODULE Survey ------------------------------
(***************************************************************************)
(* A program that uses the two packages one after the other: the table of  *)
(* providers is loaded when the program starts, and must be, or the        *)
(* program panics; a domain's inbound hosts are looked up, and each is     *)
(* given to MatchMX.                                                       *)
(***************************************************************************)
EXTENDS Provider, Inbound

\* The hosts are names that the table may speak of.
ASSUME SurveyAssumption == Names \subseteq Seq(Labels)

VARIABLE named          \* the providers of the hosts, in their order

InitSurvey == Init /\ InitLookup /\ named = <<>>

\* mustLoad, before the program begins.
Starting == Load /\ UNCHANGED <<lookup, named>>

LookingUp == status = "loaded" /\ MXLookup /\ UNCHANGED <<vars, named>>

\* Mistaken: the hosts are named in the order of the answer.
NamingUnsorted ==
    /\ step = "done" /\ named = <<>>
    /\ named' = [i \in DOMAIN mxs |-> Lookup("mx", mxs[i].host)]
    /\ UNCHANGED <<lookup, vars>>

Naming ==
    /\ step = "done" /\ named = <<>>
    /\ named' = [i \in DOMAIN Hosts |-> Lookup("mx", Hosts[i])]
    /\ UNCHANGED <<lookup, vars>>

NextSurvey == Starting \/ LookingUp \/ Naming

SpecSurvey == InitSurvey /\ [][NextSurvey]_<<vars, lookup, named>>

-----------------------------------------------------------------------------
\* s is a number of whole labels at the end of n.
IsSuffixOf(s, n) == \E i \in 1 .. Len(n) : s = Suffix(n, i)

\* What the vendors claim of a host: by a rule for MX targets under a suffix
\* of its name.
ClaimsTo(n) ==
    {<<Normalize(r.claim.name), r.id>> :
        r \in {r \in UNION {{[claim |-> c, id |-> data[e].id] :
                                c \in ClaimsOf(e)} : e \in DOMAIN data} :
                /\ r.claim.kind = "mx"
                /\ IsSuffixOf(Normalize(r.claim.name), Normalize(n))}}

\* Each host is given to the vendor with the longest claim to it, in the
\* order of the hosts: two surveys of a domain that has not changed name the
\* same vendors, whatever the order of the resolver's answers and of the
\* table's entries.
Attributed ==
    named # <<>> =>
        /\ Len(named) = Len(hosts)
        /\ \A i \in DOMAIN named :
              LET claims == ClaimsTo(hosts[i].Host)
              IN IF claims = {} THEN named[i] = Nobody
                 ELSE \E c \in claims :
                         /\ named[i].id = c[2]
                         /\ \A d \in claims : Len(d[1]) <= Len(c[1])

=============================================================================
