-------------------------------- MODULE Lists --------------------------------
(***************************************************************************)
(* Taking elements out of a list without disturbing the others: what is    *)
(* left is described by the positions that stay. (SelectSeq says the same, *)
(* but a prover cannot look into it.)                                      *)
(***************************************************************************)
EXTENDS Naturals, Sequences, FiniteSets

\* The k-th of a set of positions, counted from the smallest one.
UpTo(S, i) == {j \in S : j <= i}
Nth(S, k) == CHOOSE i \in S : Cardinality(UpTo(S, i)) = k

\* The elements at the positions S, in their order.
At(list, S) == [k \in 1 .. Cardinality(S) |-> list[Nth(S, k)]]

\* The elements of a list that pass a test, in their order.
Where(list, Test(_)) == At(list, {i \in DOMAIN list : Test(list[i])})
=============================================================================
