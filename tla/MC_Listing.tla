----------------------------- MODULE MC_Listing -----------------------------
(***************************************************************************)
(* A small instance of Listing for TLC: three names under two locations,   *)
(* one of which starts with the other, pages of one or two items, and ints *)
(* of five bits.                                                           *)
(***************************************************************************)
EXTENDS Listing

SomePrefixes ==
    {<<"l", "l">>, <<"l", "l1">>, <<"l1", "l1">>} \cup {<<None, o>> : o \in Owners}

\* A whole walk by either order, one with a filter, one without parent, one
\* without permission, and walks that start from a token the client made up.
Walk(order, filter, start) ==
    [owner |-> "l", order |-> order, filter |-> filter, token |-> start, allowed |-> TRUE]

SomeAsks ==
    {Walk(order, None, Last) : order \in Orders}
    \cup {Walk("name", 2, Last), [Walk("name", None, Last) EXCEPT !.owner = None],
          [Walk("name", None, Last) EXCEPT !.allowed = FALSE]}
    \cup {Walk("name", None, start) : start \in {1, MaxInt, Garbage}}

\* Default, one, two, and more than the limit.
SomeSizes == {0, 1, 5}
=============================================================================
