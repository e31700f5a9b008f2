---------------------------- MODULE RoutingTable ----------------------------
(***************************************************************************)
(* The IPv4 routing table of src/router.rs: a sequence of routes kept      *)
(* sorted by prefix length and administrative distance, in which a lookup  *)
(* takes the first match.  A prefix is the set of the addresses it covers  *)
(* and its length.                                                         *)
(***************************************************************************)
EXTENDS Naturals, Sequences, FiniteSets, SequencesExt, SeqFilter

CONSTANTS
    Address,        \* IPv4 addresses
    Iface,          \* the router's interfaces
    Distance        \* RouteSource::distance: administrative distance of a source

ASSUME RoutingAssumption == \A s \in DOMAIN Distance : Distance[s] \in Nat

OnLink == "on-link"     \* no gateway: the destination is the next hop

Route == [dst : SUBSET Address, len : Nat, gateway : Address \cup {OnLink},
          iface : Iface, source : DOMAIN Distance]

\* sort: longest prefix first, then lowest distance; ties keep their order.
\* LongestOnly forgets the distance.
LongestOnly(r, s) == r.len >= s.len
Precedes(r, s) ==
    r.len > s.len \/ (r.len = s.len /\ Distance[r.source] <= Distance[s.source])

Sorted(table) == \A i, j \in DOMAIN table : i < j => Precedes(table[i], table[j])

SortedInsert(table, r) ==
    LET n == Cardinality({i \in DOMAIN table : Precedes(table[i], r)})
    IN  InsertAt(table, n + 1, r)

SamePrefix(r, s) == r.dst = s.dst /\ r.len = s.len

\* add_route_from: one entry per prefix and source, replaced in place.
AddRoute(table, r) ==
    LET same(i) == SamePrefix(table[i], r) /\ table[i].source = r.source
    IN  IF \E i \in DOMAIN table : same(i)
        THEN [i \in DOMAIN table |-> IF same(i) THEN r ELSE table[i]]
        ELSE SortedInsert(table, r)

\* remove_route.
RemoveRoute(table, r) ==
    Retain(table, {i \in DOMAIN table : ~(SamePrefix(table[i], r) /\ table[i].source = r.source)})

\* remove_all_from.
RemoveAllFrom(table, source) == Retain(table, {i \in DOMAIN table : table[i].source # source})

\* lookup and next_hop.
Matching(table, a) == {i \in DOMAIN table : a \in table[i].dst}
HasRoute(table, a) == Matching(table, a) # {}
Lookup(table, a) ==
    table[CHOOSE i \in Matching(table, a) : \A j \in Matching(table, a) : i <= j]
NextHop(r, a) == IF r.gateway = OnLink THEN a ELSE r.gateway
====
