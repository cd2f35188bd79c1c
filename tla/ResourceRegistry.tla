-------------------------- MODULE ResourceRegistry --------------------------
(***************************************************************************)
(* What the storage of the emulator promises, without handlers, replies or *)
(* masks: a registry of named resources in which every incarnation of a    *)
(* name has an identifier of its own, and every version of a resource an   *)
(* etag of its own.  A client that remembers a uid, or an etag, relies on  *)
(* it never meaning anything else later.                                   *)
(***************************************************************************)
EXTENDS Naturals

CONSTANTS
    Kinds,      \* resource kinds
    Names,      \* full resource names
    Etagged,    \* the kinds whose versions carry an etag
    None        \* no resource under a name

VARIABLES
    reg,        \* for each kind and name, the live version or None
    issued      \* every identifier and etag handed out so far, and 0

vars == <<reg, issued>>

Init ==
    /\ reg = [k \in Kinds |-> [n \in Names |-> None]]
    /\ issued = {0}

\* The version that lives under a name after the step.
Becomes(k, n, v) ==
    /\ v # None
    /\ v.kind = k /\ v.name = n
    /\ IF k \in Etagged THEN v.etag \notin issued ELSE v.etag = 0
    /\ reg' = [reg EXCEPT ![k][n] = v]
    /\ issued' = issued \cup {v.uid, v.etag}

\* A new incarnation, under a name that nothing holds.
Register(k, n) ==
    /\ reg[k][n] = None
    /\ Becomes(k, n, reg'[k][n])
    /\ reg'[k][n].uid \notin issued

\* A new version of the same incarnation.
Revise(k, n) ==
    /\ reg[k][n] # None
    /\ Becomes(k, n, reg'[k][n])
    /\ reg'[k][n].uid = reg[k][n].uid

Withdraw(k, n) ==
    /\ reg[k][n] # None
    /\ reg' = [reg EXCEPT ![k][n] = None]
    /\ UNCHANGED issued

Next == \E k \in Kinds, n \in Names : Register(k, n) \/ Revise(k, n) \/ Withdraw(k, n)

Spec == Init /\ [][Next]_vars
=============================================================================
