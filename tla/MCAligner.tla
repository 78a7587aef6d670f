------------------------------ MODULE MCAligner -----------------------------
(***************************************************************************)
(* Instances of Aligner for TLC.                                           *)
(***************************************************************************)
EXTENDS Aligner

com == <<"com">>
b == <<"b">> \o com
a == <<"a">> \o b
d == <<"d">> \o a

\* d is so deep that a walk of two labels skips its parent.
Tree == {com, b, a, d}

Senders == {b, a, d}

Says(psd) == [psd |-> psd, sp |-> FALSE]

\* Registries, organizations and their subdomains: with and without records,
\* malformed ones, and ones that say what they are.
SmallViews ==
    {v \in [Tree -> {NoRecord, Malformed, Says(""), Says("y"), Says("n"), [psd |-> "", sp |-> TRUE]}] :
        /\ v[com] \in {NoRecord, Says("y")}
        /\ v[b] \in {NoRecord, Malformed, Says("n"), Says("y"), [psd |-> "", sp |-> TRUE]}
        /\ v[a] \in {NoRecord, Says(""), Says("y")}
        /\ v[d] = NoRecord}

=============================================================================
