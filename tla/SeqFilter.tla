------------------------------ MODULE SeqFilter ------------------------------
(***************************************************************************)
(* Vec::retain: what the tables and lists of the code are pruned with.     *)
(***************************************************************************)
EXTENDS Naturals, FiniteSets

\* The place that position i takes among the positions kept.
Rank(keep, i) == Cardinality({j \in keep : j <= i})

\* The entries at positions keep, in their order.
Retain(table, keep) ==
    [n \in 1 .. Cardinality(keep) |-> table[CHOOSE i \in keep : Rank(keep, i) = n]]
====
