----------------------------- MODULE SharedAnswer ---------------------------
(***************************************************************************)
(* Two packages together: dnsx/cache hands the answer it holds to everyone *)
(* who asks, and mx sorts the addresses it is given where they are.        *)
(* Goroutines that look up one host at the same time sort one array, each  *)
(* by the insertion that sort.Strings does on a short one, load by load    *)
(* and store by store.                                                     *)
(***************************************************************************)
EXTENDS Integers, Sequences, SequencesExt

CONSTANTS Procs,        \* goroutines in mx.Lookup
          Addresses     \* the host's addresses: numbers, in the order of their texts

VARIABLES ips,          \* the array behind Answer.Hosts of the cache's entry
          pc,           \* each goroutine's step in the sort
          i, j,         \* the indices of its two loops
          right, left   \* the two elements it has loaded

vars == <<ips, pc, i, j, right, left>>

Init ==
    /\ ips \in SetToSeqs(Addresses)
    /\ pc = [p \in Procs |-> "called"]
    /\ i = [p \in Procs |-> 1] /\ j = [p \in Procs |-> 1]
    /\ right = [p \in Procs |-> 0] /\ left = [p \in Procs |-> 0]

Goto(p, step) == pc' = [pc EXCEPT ![p] = step]

\* The next element to insert, or the end.
Outer(p, k) ==
    /\ i' = [i EXCEPT ![p] = k]
    /\ j' = [j EXCEPT ![p] = k]
    /\ Goto(p, IF k <= Len(ips) THEN "right" ELSE "done")

\* LookupHost returns the slice the cache holds, and sortHosts sorts it.
Get(p) ==
    /\ pc[p] = "called"
    /\ Outer(p, 2)
    /\ UNCHANGED <<ips, right, left>>

LoadRight(p) ==
    /\ pc[p] = "right"
    /\ right' = [right EXCEPT ![p] = ips[j[p]]]
    /\ Goto(p, "left")
    /\ UNCHANGED <<ips, i, j, left>>

LoadLeft(p) ==
    /\ pc[p] = "left"
    /\ left' = [left EXCEPT ![p] = ips[j[p] - 1]]
    /\ Goto(p, "compare")
    /\ UNCHANGED <<ips, i, j, right>>

InPlace(p) ==
    /\ pc[p] = "compare" /\ right[p] >= left[p]
    /\ Outer(p, i[p] + 1)
    /\ UNCHANGED <<ips, right, left>>

StoreRight(p) ==
    /\ pc[p] = "compare" /\ right[p] < left[p]
    /\ ips' = [ips EXCEPT ![j[p]] = left[p]]
    /\ Goto(p, "store")
    /\ UNCHANGED <<i, j, right, left>>

StoreLeft(p) ==
    /\ pc[p] = "store"
    /\ ips' = [ips EXCEPT ![j[p] - 1] = right[p]]
    /\ IF j[p] > 2
       THEN /\ j' = [j EXCEPT ![p] = @ - 1]
            /\ Goto(p, "right")
            /\ UNCHANGED i
       ELSE Outer(p, i[p] + 1)
    /\ UNCHANGED <<right, left>>

Next == \E p \in Procs : \/ Get(p) \/ LoadRight(p) \/ LoadLeft(p)
                         \/ InPlace(p) \/ StoreRight(p) \/ StoreLeft(p)

Spec == Init /\ [][Next]_vars

-----------------------------------------------------------------------------
\* "A description that comes out differently each time is not a description
\* ... The same applies to the addresses under each host": when the lookups
\* are over, what they have in hand is all the addresses, in order.
AddressesCanonical ==
    (\A p \in Procs : pc[p] = "done") => ips = SetToSortSeq(Addresses, <)

=============================================================================
