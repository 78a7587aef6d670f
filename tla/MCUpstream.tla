----------------------------- MODULE MCUpstream -----------------------------
(***************************************************************************)
(* An instance of Upstream for TLC: two servers, and a name that has       *)
(* neither A nor AAAA records, the one LookupHost takes longest about.     *)
(***************************************************************************)
EXTENDS Upstream

MCConfig == [servers |-> 2, timeout |-> 1, attempts |-> 0]
MCQuestions == {"a", "aaaa"}
MCZone == [q \in MCQuestions |-> IF q = "a" THEN "no A" ELSE "no AAAA"]
MCIPv6Of == [q \in {"a"} |-> "aaaa"]
MCNoHosts == {"no A", "no AAAA"}

=============================================================================
