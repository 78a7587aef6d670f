------------------------------- MODULE Inbound ------------------------------
(***************************************************************************)
(* mx.Lookup: the inbound mail routing of a domain, from its MX records    *)
(* and the addresses of their targets, each of which is looked up by       *)
(* itself, may not be answered, and is answered in no particular order.    *)
(* The resolver is publicres, or the cache in front of it.                 *)
(***************************************************************************)
EXTENDS Integers, FiniteSets, Sequences, SequencesExt, TLC

CONSTANTS Names,        \* hosts and the domain: sequences of labels
          Domain,       \* the domain that is looked up
          Literals,     \* the names that are address literals
          Rank,         \* the place of each name in the order of strings
          Zones,        \* the zones there may be
          Resolvers     \* a subset of {"publicres", "cache"}

Root == <<>>            \* "."

Address == Nat          \* in the order of their texts

\* mx: the MX records, as [host, pref]; a, aaaa: the addresses of each name.
ASSUME InboundAssumption ==
    /\ Domain \in Names /\ Domain \notin Literals /\ Root \notin Literals
    /\ Rank \in [Names \cup {Root} -> Nat] /\ IsInjective(Rank)
    /\ Resolvers \subseteq {"publicres", "cache"}
    /\ \A z \in Zones : /\ z.mx \subseteq [host : Names \cup {Root}, pref : Nat]
                        /\ IsFiniteSet(z.mx)
                        /\ z.a \in [Names -> SUBSET Address]
                        /\ z.aaaa \in [Names -> SUBSET Address]
                        /\ \A n \in Names : /\ IsFiniteSet(z.a[n])
                                            /\ IsFiniteSet(z.aaaa[n])

VARIABLES zone, resolver,
          step,         \* where in Lookup
          mxs,          \* what LookupMX returned
          hosts,        \* the hosts that have been looked at
          flags,
          lost          \* the queries that were not answered (not in the code)

lookup == <<zone, resolver, step, mxs, hosts, flags, lost>>

NoFlags == [Missing |-> FALSE, Null |-> FALSE, Implicit |-> FALSE,
            SingleHost |-> FALSE, IPLiteral |-> <<>>, Unresolvable |-> <<>>,
            Incomplete |-> FALSE]

InitLookup ==
    /\ zone \in Zones /\ resolver \in Resolvers
    /\ step = "mx"
    /\ mxs = <<>> /\ hosts = <<>>
    /\ flags = NoFlags
    /\ lost = {}

-----------------------------------------------------------------------------
(***************************************************************************)
(* LookupHost, as the two resolvers implement it: the results it may have, *)
(* with the queries that were not answered.                                *)
(***************************************************************************)

Unanswered(queries)  == [kind |-> "error", ips |-> <<>>, lost |-> queries]
NotFound(queries)    == [kind |-> "not found", ips |-> <<>>, lost |-> queries]
Found(as)            == {[kind |-> "found", ips |-> s, lost |-> {}] :
                            s \in SetToSeqs(as)}

\* An answer with addresses in any order, or one without.
Answers(as) == IF as = {} THEN {NotFound({})} ELSE Found(as)

\* publicres asks for A; if there is none, it asks for AAAA, and takes an
\* error then for no address.
ByPublicRes(z, n) ==
    {Unanswered({<<n, "A">>})} \cup
    (IF z.a[n] # {} THEN Found(z.a[n])
                    ELSE {NotFound({<<n, "AAAA">>})} \cup Answers(z.aaaa[n]))

\* The cache asks for A only.
ByCache(z, n) == {Unanswered({<<n, "A">>})} \cup Answers(z.a[n])

\* Mistaken: a failure is no such host.
LookupHostLenient(z, r, n) ==
    {NotFound({<<n, "A">>})} \cup Answers(z.a[n])

\* The empty name is not asked for.
LookupHost(z, r, n) ==
    IF n = Root THEN {NotFound({})}
    ELSE IF r = "publicres" THEN ByPublicRes(z, n) ELSE ByCache(z, n)

-----------------------------------------------------------------------------

\* The hosts by preference and then name ...
Before(h, k) == \/ h.Pref < k.Pref
                \/ h.Pref = k.Pref /\ Rank[h.Host] < Rank[k.Host]

\* What sorting a sequence may make of it.
Arranged(s) ==
    {[i \in DOMAIN s |-> s[p[i]]] :
        p \in {p \in [DOMAIN s -> DOMAIN s] : IsInjective(p)}}

Sorted(ips) ==
    CHOOSE t \in Arranged(ips) : \A i, j \in DOMAIN t : i < j => t[i] <= t[j]

AddressesSorted(hs) ==
    [i \in DOMAIN hs |-> [hs[i] EXCEPT !.IPs = Sorted(hs[i].IPs)]]

\* Mistaken: the order of equal preferences is the resolver's.
SortByPref(hs) ==
    LET was == AddressesSorted(hs)
    IN CHOOSE t \in Arranged(was) : \A i, j \in DOMAIN t : i < j =>
          \/ t[i].Pref < t[j].Pref
          \/ /\ t[i].Pref = t[j].Pref
             /\ \E a, b \in DOMAIN was : a < b /\ t[i] = was[a] /\ t[j] = was[b]

\* ... and the addresses of each in order.
SortHosts(hs) ==
    CHOOSE t \in Arranged(AddressesSorted(hs)) :
        \A i, j \in DOMAIN t : i < j => ~Before(t[j], t[i])

Done(hs, f) ==
    /\ step' = "done"
    /\ hosts' = hs
    /\ flags' = f

MXUnanswered ==
    /\ step = "mx"
    /\ Done(<<>>, [flags EXCEPT !.Incomplete = TRUE])
    /\ lost' = {<<Domain, "MX">>}
    /\ UNCHANGED <<zone, resolver, mxs>>

\* Mistaken: whichever target comes first.
IsNullFirst(ms) == Len(ms) >= 1 /\ ms[1].host = Root

\* A single target "." says that the domain accepts no mail.
IsNull(ms) == Len(ms) = 1 /\ ms[1].host = Root

MXNull ==
    /\ step = "mx"
    /\ \E ms \in SetToSeqs(zone.mx) :
          IsNull(ms) /\ mxs' = ms
    /\ Done(<<>>, [flags EXCEPT !.Null = TRUE])
    /\ UNCHANGED <<zone, resolver, lost>>

\* No such name, no such records, or some, in the resolver's order.
MXAnswered ==
    /\ step = "mx"
    /\ \E ms \in SetToSeqs(zone.mx) :
          /\ ~IsNull(ms)
          /\ mxs' = ms
          /\ step' = IF ms = <<>> THEN "implicit" ELSE "hosts"
    /\ UNCHANGED <<zone, resolver, hosts, flags, lost>>

\* Without MX records the domain itself is the host.
ImplicitMX ==
    /\ step = "implicit"
    /\ \E res \in LookupHost(zone, resolver, Domain) :
          /\ lost' = lost \cup res.lost
          /\ \/ /\ res.kind = "error"
                /\ Done(<<>>, [flags EXCEPT !.Incomplete = TRUE])
             \/ /\ res.kind = "not found"
                /\ Done(<<>>, [flags EXCEPT !.Missing = TRUE])
             \/ /\ res.kind = "found"
                /\ Done(<<[Host |-> Domain, Pref |-> 0,
                           IPs |-> Sorted(res.ips), Implicit |-> TRUE]>>,
                        [flags EXCEPT !.Implicit = TRUE, !.SingleHost = TRUE])
    /\ UNCHANGED <<zone, resolver, mxs>>

\* The target the loop is at.
Target == mxs[Len(hosts) + 1]

AddHost(ips) ==
    hosts' = Append(hosts, [Host |-> Target.host, Pref |-> Target.pref,
                            IPs |-> ips, Implicit |-> FALSE])

Looping == step = "hosts" /\ Len(hosts) < Len(mxs)

Literal ==
    /\ Looping /\ Target.host \in Literals
    /\ flags' = [flags EXCEPT !.IPLiteral = Append(@, Target.host)]
    /\ AddHost(<<>>)
    /\ UNCHANGED <<zone, resolver, step, mxs, lost>>

Resolve ==
    /\ Looping /\ Target.host \notin Literals
    /\ \E res \in LookupHost(zone, resolver, Target.host) :
          /\ lost' = lost \cup res.lost
          /\ \/ /\ res.kind = "error"
                /\ flags' = [flags EXCEPT !.Incomplete = TRUE]
             \/ /\ res.kind = "not found"
                /\ flags' = [flags EXCEPT !.Unresolvable =
                                Append(@, Target.host)]
             \/ /\ res.kind = "found"
                /\ flags' = flags
          /\ AddHost(res.ips)
    /\ UNCHANGED <<zone, resolver, step, mxs>>

Finish ==
    /\ step = "hosts" /\ Len(hosts) = Len(mxs)
    /\ Done(SortHosts(hosts), [flags EXCEPT !.SingleHost = Len(hosts) = 1])
    /\ UNCHANGED <<zone, resolver, mxs, lost>>

MXLookup == \/ MXUnanswered \/ MXNull \/ MXAnswered \/ ImplicitMX
            \/ Literal \/ Resolve \/ Finish

\* Hosts: just the names.
Hosts == [i \in DOMAIN hosts |-> hosts[i].Host]

-----------------------------------------------------------------------------
\* The addresses a name has.
Addresses(n) == IF n = Root THEN {} ELSE zone.a[n] \cup zone.aaaa[n]

\* Those of them that LookupHost reports: the IPv6 addresses only when there
\* are no others, and through the cache not even then.
Reported(n) ==
    IF n = Root THEN {}
    ELSE IF zone.a[n] # {} \/ resolver = "cache" THEN zone.a[n]
    ELSE zone.aaaa[n]

Targets == {m.host : m \in zone.mx}

\* Whether a name may be reported to have no address: it has none; or it has
\* IPv6 addresses only, and the question for them went unanswered, or was not
\* asked because the resolver is the cache.  (The last two are errors of the
\* code: see IncompleteWhenUnanswered and MissingMeansNeither.)
Absent(n) ==
    \/ Addresses(n) = {}
    \/ zone.a[n] = {} /\ (resolver = "cache" \/ <<n, "AAAA">> \in lost)

\* Our own network trouble is never reported as the domain's: a query that is
\* not answered makes the result incomplete, and nothing else does; whatever
\* has been said of the domain by then is so.  The exceptions are about IPv6
\* addresses: publicres keeps to itself that it could not look them up, and the
\* cache does not look them up.
OwnTroubleIsOwn ==
    step = "done" =>
        /\ flags.Incomplete <=> \E q \in lost : q[2] # "AAAA"
        /\ flags.Missing => zone.mx = {} /\ Absent(Domain)
        /\ flags.Null => Targets = {Root}
        /\ \A n \in ToSet(flags.Unresolvable) : n \in Targets /\ Absent(n)

\* Through publicres, which asks for addresses of both kinds, a result that is
\* complete is the whole truth: each flag says exactly what holds of the zone.
\* (Through the cache it is not: see MissingMeansNeither.)
CompleteIsExact ==
    step = "done" /\ lost = {} /\ resolver = "publicres" =>
        /\ flags.Null <=> Targets = {Root} /\ Cardinality(zone.mx) = 1
        /\ flags.Missing <=> zone.mx = {} /\ Addresses(Domain) = {}
        /\ flags.Implicit <=> zone.mx = {} /\ Addresses(Domain) # {}
        /\ ~flags.Null =>
              /\ ToSet(flags.IPLiteral) = Targets \cap Literals
              /\ ToSet(flags.Unresolvable) =
                    {n \in Targets \ Literals : Addresses(n) = {}}
        /\ flags.SingleHost <=> Len(hosts) = 1
        /\ hosts = <<>> <=> (flags.Null \/ flags.Missing)

\* "A description that comes out differently each time is not a description":
\* whatever the order of the answers, the hosts are all the targets, by
\* preference and then name, and the addresses under each, in order, are all
\* that LookupHost reports.  (A host whose lookup failed has none.)
Canonical ==
    step = "done" /\ mxs # <<>> /\ ~flags.Null =>
        /\ {[host |-> h.Host, pref |-> h.Pref] : h \in ToSet(hosts)} = zone.mx
        /\ \A i, j \in DOMAIN hosts : i < j => Before(hosts[i], hosts[j])
        /\ \A h \in ToSet(hosts) :
              \/ /\ h.Host \notin Literals
                 /\ ToSet(h.IPs) = Reported(h.Host)
                 /\ \A i, j \in DOMAIN h.IPs : i < j => h.IPs[i] < h.IPs[j]
              \/ /\ h.Host \in Literals \/ \E q \in lost : q[1] = h.Host
                 /\ h.IPs = <<>>


\* "Missing: the domain publishes neither MX nor address records, so there is
\* nowhere for mail to go."
MissingMeansNeither ==
    step = "done" /\ flags.Missing /\ ~flags.Incomplete =>
        zone.mx = {} /\ Addresses(Domain) = {}

=============================================================================
