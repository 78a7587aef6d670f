------------------------------ MODULE MCSpfWalk -----------------------------
(***************************************************************************)
(* Instances of SpfWalk for TLC: every zone that can be made of a small    *)
(* set of records, with every pattern of lookups that fail.                *)
(***************************************************************************)
EXTENDS SpfTree

CONSTANTS r, x, y       \* the root and two other names

Inc(n) == [kind |-> "include", target |-> n]
Red(n) == [kind |-> "redirect", target |-> n]
Other(kind) == [kind |-> kind, target |-> NoName]

\* Diamonds, cycles, and chains; includes before and after lookups; redirects
\* noted before, after and without all.
Shapes ==
    { <<>>,
      <<Other("lookup")>>,
      <<Inc(x), Inc(y)>>,
      <<Inc(y), Other("all"), Inc(x)>>,
      <<Inc(x), Other("lookup"), Red(y)>>,
      <<Red(x), Other("free"), Red(y), Other("opaque")>>,
      <<Red(y), Other("all")>>,
      <<Inc(r)>>,
      <<Inc(NoName), Inc(y)>> }

\* Room for the whole tree; and too little for its terms, or for its depth.
Roomy == [terms |-> 10, void |-> 1, depth |-> 3]
Tight == { Roomy, [terms |-> 3, void |-> 1, depth |-> 1] }

=============================================================================
