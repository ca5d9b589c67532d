------------------------------ MODULE Selections ------------------------------
(***************************************************************************)
(* What sort_by, retain and filter make of a list, of what has an order:   *)
(* a finite set listed in the order of a relation, and the elements of a   *)
(* sequence at some of its places, in the order that they have there.      *)
(***************************************************************************)
EXTENDS Naturals, FiniteSets

InOrder(K, before) ==
    CHOOSE f \in [1 .. Cardinality(K) -> K] :
       \A k, l \in DOMAIN f : k < l => << f[k], f[l] >> \in before
Ascending(K) == InOrder(K, {m \in K \X K : m[1] < m[2]})

Picked(s, K) == LET order == Ascending(K) IN [n \in DOMAIN order |-> s[order[n]]]
=============================================================================
