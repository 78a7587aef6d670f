------------------------------- MODULE MCSurvey -----------------------------
(***************************************************************************)
(* An instance of Survey for TLC.  Two hosts and an address literal may be *)
(* the domain's MX targets; eight entries, some in conflict and some no    *)
(* good, make up the tables of at most two.                                *)
(***************************************************************************)
EXTENDS Survey

D  == <<"org">>
H1 == <<"mx", "acme", "net">>
H2 == <<"NotAcme", "net">>
IP == <<"192.0.2.5">>

MCNames == {D, H1, H2, IP}
MCLiterals == {IP}
MCRank == D :> 5 @@ H1 :> 4 @@ H2 :> 3 @@ IP :> 2 @@ Root :> 1

NoAddress == [n \in MCNames |-> {}]
HostAt(n, as) == [NoAddress EXCEPT ![n] = as]

\* No MX records: the domain's own addresses, of either kind, count.
Bare == {[mx |-> {}, a |-> HostAt(D, as), aaaa |-> HostAt(D, bs)] :
            as \in {{}, {1, 2}}, bs \in {{}, {3}}}

MX(n, p) == [host |-> n, pref |-> p]

Routed ==
    {[mx |-> ms, a |-> [HostAt(H1, as) EXCEPT ![H2] = {2}],
      aaaa |-> [HostAt(H1, bs) EXCEPT ![IP] = {1}]] :
        ms \in {{MX(Root, 0)}, {MX(H1, 5)}, {MX(Root, 5), MX(H1, 5)},
                {MX(H1, 5), MX(H2, 5)}, {MX(H1, 5), MX(H2, 9)},
                {MX(H1, 5), MX(H1, 9), MX(IP, 7)}},
        as \in {{}, {1, 2}}, bs \in {{}, {3}}}

MCZones == Bare \cup Routed

C(kind, name) == [kind |-> kind, name |-> name, on |-> Anybody]
MailFrom(on) == [kind |-> "mailfrom", name |-> <<"acme">>, on |-> on]
E(id, known, claims) == [id |-> id, known |-> known, claims |-> claims]

Entries == {
    E("A", TRUE, <<C("mx", <<"acme", "net">>)>>),
    E("B", TRUE, <<C("mx", <<"ACME", "net">>)>>),
    E("B", TRUE, <<C("selector", <<"acme">>), C("mx", H1)>>),
    E("A", TRUE, <<MailFrom("B"), MailFrom(Anybody)>>),
    E("B", TRUE, <<C("spf", <<"acme", "net">>), MailFrom(Anybody)>>),
    E("A", TRUE, <<C("mx", <<"acme", "net">>), C("mx", <<"net">>)>>),
    E("B", FALSE, <<>>),
    E("A", TRUE, <<C("mx", <<"acme", "net">>), C("key", <<"acme">>)>>)}

MCTables == {<<>>} \cup {<<e>> : e \in Entries}
                   \cup {<<e, f>> : e, f \in Entries}

NoTables == {<<>>}

MCLabels == {"mx", "acme", "ACME", "net", "NotAcme", "notacme", "org",
             "192.0.2.5"}
MCLower == [l \in MCLabels |-> IF l = "ACME" THEN "acme"
                               ELSE IF l = "NotAcme" THEN "notacme" ELSE l]

=============================================================================
