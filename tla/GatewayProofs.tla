--------------------------- MODULE GatewayProofs ----------------------------
(***************************************************************************)
(* The gateway for every set of hosts, packets, routes and firewall rules  *)
(* and every range of translation ports: the routing table stays sorted,   *)
(* so a lookup takes the best route; a flow keeps its external port until  *)
(* the ports run out; a packet is in one place.                            *)
(***************************************************************************)
EXTENDS Gateway, TLAPS, FiniteSetTheorems, SequenceTheorems,
        WellFoundedInduction, NaturalsInduction

-----------------------------------------------------------------------------
(* The order of the routing table.                                         *)

\* Every nonempty set of naturals has a least element.
LEMMA LeastNat ==
    ASSUME NEW T \in SUBSET Nat, T # {}
    PROVE  \E x \in T : \A y \in T : x <= y
<1> DEFINE R == OpToRel(<, Nat)
<1>1. IsWellFoundedOn(R, Nat)
  BY NatLessThanWellFounded
<1>2. \E x \in T : \A y \in T : ~(<<y, x>> \in R)
  <2> HIDE DEF R
  <2> QED BY <1>1, WFMin
<1>3. \A x, y \in Nat : ~(<<y, x>> \in R) => x <= y
  BY DEF R, OpToRel
<1> QED BY <1>2, <1>3

\* What a sequence holds, by position.
LEMMA SeqFacts ==
    ASSUME NEW S, NEW s \in Seq(S)
    PROVE  /\ Len(s) \in Nat /\ DOMAIN s = 1 .. Len(s)
           /\ \A i \in 1 .. Len(s) : s[i] \in S
           /\ \A x : x \in Range(s) <=> \E i \in 1 .. Len(s) : s[i] = x
           /\ Range(s) \subseteq S
<1>1. Len(s) \in Nat /\ DOMAIN s = 1 .. Len(s) /\ \A i \in 1 .. Len(s) : s[i] \in S
  BY LenProperties, ElementOfSeq
<1>2. Range(s) = {s[i] : i \in 1 .. Len(s)}
  BY <1>1 DEF Range
<1> QED BY <1>1, <1>2

\* The order sort uses is total and transitive.
LEMMA PrecedesOrder ==
    ASSUME NEW r \in Route, NEW s \in Route, NEW t \in Route
    PROVE  /\ Precedes(r, s) \/ Precedes(s, r)
           /\ Precedes(r, s) /\ Precedes(s, t) => Precedes(r, t)
           /\ Precedes(r, s) => s.len <= r.len
           /\ Precedes(r, s) /\ s.len = r.len => Distance[r.source] <= Distance[s.source]
<1>1. r.len \in Nat /\ s.len \in Nat /\ t.len \in Nat
  BY DEF Route
<1>2. Distance[r.source] \in Nat /\ Distance[s.source] \in Nat /\ Distance[t.source] \in Nat
  BY RoutingAssumption DEF Route
<1> QED BY <1>1, <1>2 DEF Precedes

\* A longer stretch of positions holds more of the kept ones.
LEMMA RankGrows ==
    ASSUME NEW m \in Nat, NEW keep \in SUBSET (1 .. m)
    PROVE  /\ IsFiniteSet(keep) /\ Cardinality(keep) \in Nat
           /\ \A i \in keep : Rank(keep, i) \in 1 .. Cardinality(keep)
           /\ \A i, j \in keep : i < j => Rank(keep, i) < Rank(keep, j)
<1> DEFINE B(i) == {j \in keep : j <= i}
<1>1. IsFiniteSet(keep)
  <2>1. IsFiniteSet(1 .. m)
    BY FS_Interval
  <2> QED BY <2>1, FS_Subset
<1>2. Cardinality(keep) \in Nat
  BY <1>1, FS_CardinalityType
<1>3. \A i \in keep : /\ IsFiniteSet(B(i)) /\ Cardinality(B(i)) \in Nat
                      /\ Cardinality(B(i)) <= Cardinality(keep)
  <2> SUFFICES ASSUME NEW i \in keep
               PROVE  /\ IsFiniteSet(B(i)) /\ Cardinality(B(i)) \in Nat
                      /\ Cardinality(B(i)) <= Cardinality(keep)
    OBVIOUS
  <2>1. B(i) \in SUBSET keep
    OBVIOUS
  <2> HIDE DEF B
  <2> QED BY <1>1, <2>1, FS_Subset, FS_CardinalityType
<1>4. \A i \in keep : Cardinality(B(i)) >= 1
  <2> SUFFICES ASSUME NEW i \in keep PROVE Cardinality(B(i)) >= 1
    OBVIOUS
  <2>1. i \in B(i)
    OBVIOUS
  <2> HIDE DEF B
  <2>2. Cardinality(B(i)) # 0
    BY <1>3, <2>1, FS_EmptySet
  <2> QED BY <1>3, <2>2
<1>5. \A i, j \in keep : i < j => Cardinality(B(i)) < Cardinality(B(j))
  <2> SUFFICES ASSUME NEW i \in keep, NEW j \in keep, i < j
               PROVE  Cardinality(B(i)) < Cardinality(B(j))
    OBVIOUS
  <2>1. B(i) \in SUBSET B(j) /\ j \in B(j) /\ j \notin B(i)
    <3>1. keep \subseteq Int /\ i \in Int /\ j \in Int
      OBVIOUS
    <3>2. \A x \in Int : x <= i => x <= j
      BY <3>1
    <3>3. j <= j /\ ~(j <= i)
      BY <3>1
    <3>4. \A x \in keep : x <= i => x <= j
      BY <3>1, <3>2
    <3>5. B(i) \in SUBSET B(j)
      BY <3>4
    <3>6. j \in B(j) /\ j \notin B(i)
      BY <3>3
    <3> QED BY <3>5, <3>6
  <2> HIDE DEF B
  <2>2. Cardinality(B(i)) <= Cardinality(B(j)) /\ Cardinality(B(j)) # Cardinality(B(i))
    BY <1>3, <2>1, FS_Subset
  <2> QED BY <1>3, <2>2
<1>6. \A i : Rank(keep, i) = Cardinality(B(i))
  BY DEF Rank
<1> HIDE DEF B
<1> QED BY <1>1, <1>2, <1>3, <1>4, <1>5, <1>6

\* retain leaves the kept entries, in their order.
LEMMA RetainKeeps ==
    ASSUME NEW S, NEW table \in Seq(S), NEW keep \in SUBSET (DOMAIN table)
    PROVE  /\ Retain(table, keep) \in Seq(S)
           /\ \A n, o \in DOMAIN Retain(table, keep) : n < o =>
                 \E i, j \in keep : /\ i < j /\ Retain(table, keep)[n] = table[i]
                                    /\ Retain(table, keep)[o] = table[j]
<1> DEFINE m == Len(table)
           c == Cardinality(keep)
           u(n) == CHOOSE i \in keep : Rank(keep, i) = n
           t == Retain(table, keep)
           f == [i \in keep |-> Rank(keep, i)]
<1>1. m \in Nat /\ DOMAIN table = 1 .. m /\ \A i \in 1 .. m : table[i] \in S
  BY SeqFacts
<1>2. keep \in SUBSET (1 .. m)
  BY <1>1
<1> HIDE DEF m
<1>3. /\ IsFiniteSet(keep) /\ c \in Nat
      /\ \A i \in keep : Rank(keep, i) \in 1 .. c
      /\ \A i, j \in keep : i < j => Rank(keep, i) < Rank(keep, j)
  BY <1>1, <1>2, RankGrows
<1>4. keep \subseteq Nat
  BY <1>1, <1>2
<1>5. f \in [keep -> 1 .. c] /\ DOMAIN f = keep /\ \A i \in keep : f[i] = Rank(keep, i)
  BY <1>3
<1> HIDE DEF f, c
<1>6. \A i, j \in keep : f[i] = f[j] => i = j
  BY <1>3, <1>4, <1>5
<1>7. f \in Injection(keep, 1 .. c)
  BY <1>5, <1>6 DEF Injection, IsInjective
<1>8. IsFiniteSet(1 .. c) /\ Cardinality(1 .. c) = c /\ Cardinality(keep) = c
  BY <1>3, FS_Interval DEF c
<1>9. f \in Surjection(keep, 1 .. c)
  BY <1>7, <1>8, FS_Injection
<1>10. \A n \in 1 .. c : \E i \in keep : Rank(keep, i) = n
  BY <1>5, <1>9 DEF Surjection
<1>11. \A n \in 1 .. c : u(n) \in keep /\ Rank(keep, u(n)) = n
  BY <1>10
<1>12. t = [n \in 1 .. c |-> table[u(n)]]
  BY DEF Retain, c
<1> HIDE DEF u, t
<1>13. t \in [1 .. c -> S]
  BY <1>1, <1>2, <1>11, <1>12
<1>14. t \in Seq(S) /\ DOMAIN t = 1 .. c
  BY <1>3, <1>13
<1>15. ASSUME NEW n \in 1 .. c, NEW o \in 1 .. c, n < o
       PROVE  \E i, j \in keep : i < j /\ t[n] = table[i] /\ t[o] = table[j]
  <2>1. u(n) \in Nat /\ u(o) \in Nat
    BY <1>4, <1>11
  <2>2. u(n) < u(o)
    <3> SUFFICES ASSUME ~(u(n) < u(o)) PROVE FALSE
      OBVIOUS
    <3>1. u(o) < u(n) \/ u(o) = u(n)
      BY <2>1
    <3>2. Rank(keep, u(o)) < Rank(keep, u(n)) \/ Rank(keep, u(o)) = Rank(keep, u(n))
      BY <1>3, <1>11, <3>1
    <3>3. o < n \/ o = n
      BY <1>11, <3>2
    <3> QED BY <1>3, <1>15, <3>3
  <2>3. t[n] = table[u(n)] /\ t[o] = table[u(o)]
    BY <1>12
  <2> QED BY <1>11, <2>2, <2>3
<1> QED BY <1>14, <1>15 DEF t

\* The position of InsertAt's new entry, and what the others become.
LEMMA InsertFacts ==
    ASSUME NEW S, NEW s \in Seq(S), NEW e \in S, NEW x \in 1 .. Len(s) + 1
    PROVE  LET t == InsertAt(s, x, e)
           IN  /\ t \in Seq(S) /\ DOMAIN t = 1 .. Len(s) + 1
               /\ \A i \in 1 .. Len(s) + 1 :
                     t[i] = IF i < x THEN s[i] ELSE IF i = x THEN e ELSE s[i - 1]
<1> DEFINE m == Len(s)
           a == SubSeq(s, 1, x - 1)
           b == SubSeq(s, x, m)
           ae == a \o <<e>>
           t == ae \o b
<1>1. m \in Nat /\ DOMAIN s = 1 .. m /\ \A i \in 1 .. m : s[i] \in S
  BY SeqFacts
<1>2. x \in Nat /\ 1 <= x /\ x <= m + 1
  BY <1>1
<1>3. t = InsertAt(s, x, e)
  BY DEF InsertAt
<1> HIDE DEF m
<1>4. a \in Seq(S) /\ Len(a) = x - 1 /\ \A i \in 1 .. x - 1 : a[i] = s[i]
  <2>1. 1 \in Int /\ x - 1 \in Int /\ \A i \in 1 .. x - 1 : s[i] \in S
    BY <1>1, <1>2
  <2>2. /\ SubSeq(s, 1, x - 1) \in Seq(S)
        /\ Len(SubSeq(s, 1, x - 1)) = IF 1 <= x - 1 THEN x - 1 - 1 + 1 ELSE 0
        /\ \A i \in 1 .. x - 1 - 1 + 1 : SubSeq(s, 1, x - 1)[i] = s[1 + i - 1]
    BY <2>1, SubSeqProperties
  <2>3. \A i \in 1 .. x - 1 : i \in 1 .. x - 1 - 1 + 1 /\ 1 + i - 1 = i
    BY <1>2
  <2> QED BY <1>2, <2>2, <2>3
<1>5. b \in Seq(S) /\ Len(b) = m - x + 1 /\ \A i \in 1 .. m - x + 1 : b[i] = s[x + i - 1]
  <2>1. x \in Int /\ m \in Int /\ \A i \in x .. m : s[i] \in S
    BY <1>1, <1>2
  <2>2. /\ SubSeq(s, x, m) \in Seq(S)
        /\ Len(SubSeq(s, x, m)) = IF x <= m THEN m - x + 1 ELSE 0
        /\ \A i \in 1 .. m - x + 1 : SubSeq(s, x, m)[i] = s[x + i - 1]
    BY <2>1, SubSeqProperties
  <2> QED BY <1>1, <1>2, <2>2
<1>6. <<e>> \in Seq(S) /\ Len(<<e>>) = 1 /\ <<e>>[1] = e
  OBVIOUS
<1> HIDE DEF a, b
<1>7. /\ ae \in Seq(S) /\ Len(ae) = x
      /\ \A i \in 1 .. x : ae[i] = IF i < x THEN s[i] ELSE e
  <2>1. /\ ae \in Seq(S) /\ Len(ae) = Len(a) + Len(<<e>>)
        /\ \A i \in 1 .. Len(a) + Len(<<e>>) :
              ae[i] = IF i <= Len(a) THEN a[i] ELSE <<e>>[i - Len(a)]
    BY <1>4, <1>6, ConcatProperties
  <2>2. Len(a) + Len(<<e>>) = x
    BY <1>2, <1>4, <1>6
  <2>3. ASSUME NEW i \in 1 .. x PROVE ae[i] = IF i < x THEN s[i] ELSE e
    <3>1. CASE i < x
      <4>1. i <= Len(a) /\ i \in 1 .. x - 1
        BY <1>2, <1>4, <3>1
      <4> QED BY <1>4, <2>1, <2>2, <3>1, <4>1
    <3>2. CASE ~(i < x)
      <4>1. ~(i <= Len(a)) /\ i - Len(a) = 1
        BY <1>2, <1>4, <3>2
      <4> QED BY <1>6, <2>1, <2>2, <3>2, <4>1
    <3> QED BY <3>1, <3>2
  <2> QED BY <2>1, <2>2, <2>3
<1> HIDE DEF ae
<1>8. /\ t \in Seq(S) /\ Len(t) = Len(ae) + Len(b)
      /\ \A i \in 1 .. Len(ae) + Len(b) : t[i] = IF i <= Len(ae) THEN ae[i] ELSE b[i - Len(ae)]
  BY <1>5, <1>7, ConcatProperties
<1>9. Len(ae) + Len(b) = m + 1
  BY <1>1, <1>2, <1>5, <1>7
<1> HIDE DEF t
<1>10. DOMAIN t = 1 .. m + 1
  BY <1>8, <1>9, SeqFacts
<1>11. ASSUME NEW i \in 1 .. m + 1
       PROVE  t[i] = IF i < x THEN s[i] ELSE IF i = x THEN e ELSE s[i - 1]
  <2>1. t[i] = IF i <= x THEN ae[i] ELSE b[i - x]
    BY <1>7, <1>8, <1>9
  <2>2. CASE i <= x
    <3>1. i \in 1 .. x /\ (i < x \/ i = x)
      BY <1>1, <1>2, <2>2
    <3> QED BY <1>2, <1>7, <2>1, <2>2, <3>1
  <2>3. CASE ~(i <= x)
    <3>1. i - x \in 1 .. m - x + 1 /\ x + (i - x) - 1 = i - 1 /\ ~(i < x) /\ i # x
      BY <1>1, <1>2, <2>3
    <3>2. b[i - x] = s[i - 1]
      BY <1>5, <3>1
    <3> QED BY <2>1, <2>3, <3>1, <3>2
  <2> QED BY <2>2, <2>3
<1> QED BY <1>3, <1>8, <1>10, <1>11 DEF m

\* A table of routes in the order sort leaves it.
RoutesOK(table) == table \in Seq(Route) /\ Sorted(table)

\* A new prefix goes behind the routes that precede it.
LEMMA InsertKeeps ==
    ASSUME NEW table, RoutesOK(table), NEW r \in Route
    PROVE  RoutesOK(SortedInsert(table, r))
<1> DEFINE m == Len(table)
           K == {i \in DOMAIN table : Precedes(table[i], r)}
           C == {i \in 1 .. m : ~Precedes(table[i], r)} \cup {m + 1}
<1>1. table \in Seq(Route) /\ Sorted(table)
  BY DEF RoutesOK
<1>2. m \in Nat /\ DOMAIN table = 1 .. m /\ \A i \in 1 .. m : table[i] \in Route
  BY <1>1, SeqFacts
<1>3. C \in SUBSET Nat /\ C # {}
  <2> HIDE DEF m
  <2> QED BY <1>2
<1>4. PICK x \in C : \A y \in C : x <= y
  <2> HIDE DEF C
  <2> QED BY <1>3, LeastNat
<1>5. x \in 1 .. m + 1 /\ x \in Nat
  <2> HIDE DEF m
  <2> QED BY <1>2, <1>4
<1> HIDE DEF m
<1>6. \A i \in 1 .. m : i < x => Precedes(table[i], r)
  BY <1>2, <1>3, <1>4, <1>5
<1>7. \A i \in 1 .. m : i >= x => ~Precedes(table[i], r) /\ Precedes(r, table[i])
  <2> SUFFICES ASSUME NEW i \in 1 .. m, i >= x PROVE ~Precedes(table[i], r) /\ Precedes(r, table[i])
    OBVIOUS
  <2>1. x \in 1 .. m /\ ~Precedes(table[x], r)
    BY <1>2, <1>4, <1>5
  <2>2. table[i] \in Route /\ table[x] \in Route
    BY <1>2, <2>1
  <2>3. x < i => Precedes(table[x], table[i])
    BY <1>1, <1>2, <2>1 DEF Sorted
  <2>4. x < i \/ x = i
    BY <1>2, <2>1
  <2>5. ~Precedes(table[i], r)
    BY <2>1, <2>2, <2>3, <2>4, PrecedesOrder
  <2> QED BY <2>2, <2>5, PrecedesOrder
<1>8. K = 1 .. x - 1
  <2>1. \A i \in 1 .. m : Precedes(table[i], r) <=> i < x
    BY <1>2, <1>5, <1>6, <1>7
  <2>2. \A i : i \in K <=> i \in 1 .. m /\ i < x
    BY <1>2, <2>1
  <2>3. \A i : i \in 1 .. m /\ i < x <=> i \in 1 .. x - 1
    BY <1>2, <1>5
  <2> HIDE DEF K
  <2> QED BY <2>2, <2>3
<1>9. Cardinality(K) + 1 = x
  <2>1. Cardinality(1 .. x - 1) = IF 1 > x - 1 THEN 0 ELSE (x - 1) - 1 + 1
    <3>1. 1 \in Int /\ x - 1 \in Int
      BY <1>5
    <3> QED BY <3>1, FS_Interval
  <2> HIDE DEF K
  <2> QED BY <1>2, <1>5, <1>8, <2>1
<1> DEFINE t == SortedInsert(table, r)
<1>10. t = InsertAt(table, x, r)
  BY <1>9 DEF SortedInsert
<1>11. /\ t \in Seq(Route) /\ DOMAIN t = 1 .. m + 1
       /\ \A i \in 1 .. m + 1 :
             t[i] = IF i < x THEN table[i] ELSE IF i = x THEN r ELSE table[i - 1]
  <2> HIDE DEF t, K, C
  <2>1. x \in 1 .. Len(table) + 1
    BY <1>5 DEF m
  <2>2. LET u == InsertAt(table, x, r)
        IN  /\ u \in Seq(Route) /\ DOMAIN u = 1 .. Len(table) + 1
            /\ \A i \in 1 .. Len(table) + 1 :
                  u[i] = IF i < x THEN table[i] ELSE IF i = x THEN r ELSE table[i - 1]
    BY ONLY <1>1, <2>1, r \in Route, InsertFacts
  <2> QED BY <1>10, <2>2 DEF m
<1> HIDE DEF t, K, C
<1>12. ASSUME NEW i \in 1 .. m + 1, NEW j \in 1 .. m + 1, i < j PROVE Precedes(t[i], t[j])
  <2>1. \A a, b \in 1 .. m : a < b => Precedes(table[a], table[b])
    BY <1>1, <1>2 DEF Sorted
  <2>2. CASE j < x
    <3>1. i \in 1 .. m /\ j \in 1 .. m /\ i < x
      BY <1>2, <1>5, <1>12, <2>2
    <3>2. t[i] = table[i] /\ t[j] = table[j]
      BY <1>11, <2>2, <3>1
    <3> QED BY <1>12, <2>1, <3>1, <3>2
  <2>3. CASE j = x
    <3>1. i \in 1 .. m /\ i < x
      BY <1>2, <1>5, <1>12, <2>3
    <3>2. t[i] = table[i] /\ t[j] = r
      BY <1>5, <1>11, <2>3, <3>1
    <3> QED BY <1>6, <3>1, <3>2
  <2>4. CASE j > x /\ i = x
    <3>1. j - 1 \in 1 .. m /\ j - 1 >= x /\ ~(j < x) /\ j # x
      BY <1>2, <1>5, <2>4
    <3>2. t[i] = r /\ t[j] = table[j - 1]
      BY <1>5, <1>11, <2>4, <3>1
    <3> QED BY <1>7, <3>1, <3>2
  <2>5. CASE j > x /\ i < x
    <3>1. j - 1 \in 1 .. m /\ i \in 1 .. m /\ i < j - 1 /\ ~(j < x) /\ j # x
      BY <1>2, <1>5, <2>5
    <3>2. t[i] = table[i] /\ t[j] = table[j - 1]
      BY <1>11, <2>5, <3>1
    <3> QED BY <2>1, <3>1, <3>2
  <2>6. CASE j > x /\ i > x
    <3>1. /\ j - 1 \in 1 .. m /\ i - 1 \in 1 .. m /\ i - 1 < j - 1
          /\ ~(j < x) /\ j # x /\ ~(i < x) /\ i # x
      BY <1>2, <1>5, <1>12, <2>6
    <3>2. t[i] = table[i - 1] /\ t[j] = table[j - 1]
      BY <1>11, <3>1
    <3> QED BY <2>1, <3>1, <3>2
  <2> QED BY <1>2, <1>5, <2>2, <2>3, <2>4, <2>5, <2>6
<1> QED BY <1>11, <1>12 DEF RoutesOK, Sorted, t

\* Every change of the table leaves it sorted.
LEMMA RoutesKeep ==
    ASSUME NEW table, RoutesOK(table), NEW r \in Route
    PROVE  /\ RoutesOK(AddRoute(table, r))
           /\ RoutesOK(RemoveRoute(table, r))
           /\ \A source : RoutesOK(RemoveAllFrom(table, source))
<1>1. table \in Seq(Route) /\ Sorted(table)
  BY DEF RoutesOK
<1>2. Len(table) \in Nat /\ DOMAIN table = 1 .. Len(table) /\ \A i \in DOMAIN table : table[i] \in Route
  BY <1>1, SeqFacts
<1>3. ASSUME NEW keep \in SUBSET (DOMAIN table) PROVE RoutesOK(Retain(table, keep))
  <2> DEFINE t == Retain(table, keep)
  <2>1. /\ t \in Seq(Route)
        /\ \A n, o \in DOMAIN t : n < o => \E i, j \in keep : i < j /\ t[n] = table[i] /\ t[o] = table[j]
    BY <1>1, RetainKeeps
  <2> HIDE DEF t
  <2>2. Sorted(t)
    BY <1>1, <2>1 DEF Sorted
  <2> QED BY <2>1, <2>2 DEF RoutesOK, t
<1>4. RoutesOK(RemoveRoute(table, r)) /\ \A source : RoutesOK(RemoveAllFrom(table, source))
  BY <1>3 DEF RemoveRoute, RemoveAllFrom
<1>5. RoutesOK(AddRoute(table, r))
  <2> DEFINE same(i) == SamePrefix(table[i], r) /\ table[i].source = r.source
             t == [i \in DOMAIN table |-> IF same(i) THEN r ELSE table[i]]
  <2>1. CASE ~ \E i \in DOMAIN table : same(i)
    BY <2>1, InsertKeeps DEF AddRoute
  <2>2. CASE \E i \in DOMAIN table : same(i)
    <3>1. AddRoute(table, r) = t
      BY <2>2 DEF AddRoute
    <3>2. DOMAIN t = DOMAIN table /\ \A i \in DOMAIN table : /\ t[i] \in Route /\ t[i].len = table[i].len
                                                           /\ t[i].source = table[i].source
      BY <1>2 DEF SamePrefix
    <3> HIDE DEF t
    <3>3. t \in Seq(Route)
      <4>1. t \in [1 .. Len(table) -> Route]
        BY <1>2, <3>1, <3>2 DEF t
      <4> QED BY <1>2, <4>1
    <3>4. Sorted(t)
      BY <1>1, <3>2 DEF Sorted, Precedes
    <3> QED BY <3>1, <3>3, <3>4 DEF RoutesOK
  <2> QED BY <2>1, <2>2
<1> QED BY <1>4, <1>5

\* lookup takes the best route, which names an interface and a next hop.
LEMMA LookupSound ==
    ASSUME NEW table, RoutesOK(table), NEW a \in Address, HasRoute(table, a)
    PROVE  LET best == Lookup(table, a)
           IN  /\ best \in Route /\ a \in best.dst
               /\ best.iface \in Iface /\ NextHop(best, a) \in Address
               /\ \A r \in Range(table) : a \in r.dst =>
                     /\ r.len <= best.len
                     /\ r.len = best.len => Distance[best.source] <= Distance[r.source]
<1> DEFINE M == Matching(table, a)
           b == CHOOSE i \in M : \A j \in M : i <= j
           best == table[b]
<1>1. table \in Seq(Route) /\ Sorted(table)
  BY DEF RoutesOK
<1>2. Len(table) \in Nat /\ DOMAIN table = 1 .. Len(table) /\ \A i \in DOMAIN table : table[i] \in Route
  BY <1>1, SeqFacts
<1>3. M # {} /\ M \in SUBSET Nat /\ \A i : i \in M <=> i \in DOMAIN table /\ a \in table[i].dst
  BY <1>2 DEF HasRoute, Matching
<1>4. \E i \in M : \A j \in M : i <= j
  <2> HIDE DEF M
  <2> QED BY <1>3, LeastNat
<1>5. b \in M /\ \A j \in M : b <= j
  <2> HIDE DEF M
  <2> QED BY <1>4
<1>6. Lookup(table, a) = best
  BY DEF Lookup
<1> HIDE DEF b, M
<1>7. best \in Route /\ a \in best.dst
  BY <1>2, <1>3, <1>5
<1>8. best.iface \in Iface /\ NextHop(best, a) \in Address
  BY <1>7 DEF Route, NextHop
<1>9. ASSUME NEW r \in Range(table), a \in r.dst
      PROVE  /\ r.len <= best.len
             /\ r.len = best.len => Distance[best.source] <= Distance[r.source]
  <2>1. PICK j \in DOMAIN table : r = table[j]
    BY DEF Range
  <2>2. j \in M /\ r \in Route
    BY <1>2, <1>3, <1>9, <2>1
  <2>3. b <= j /\ b \in Nat /\ j \in Nat /\ b \in DOMAIN table
    BY <1>3, <1>5, <2>2
  <2>4. b < j \/ b = j
    BY <2>3
  <2>5. Precedes(best, r)
    <3>1. CASE b < j
      BY <1>1, <2>1, <2>3, <3>1 DEF Sorted
    <3>2. CASE b = j
      BY <1>7, <2>1, <2>2, <3>2, PrecedesOrder
    <3> QED BY <2>4, <3>1, <3>2
  <2> HIDE DEF best
  <2> QED BY <1>7, <2>2, <2>5, PrecedesOrder
<1> QED BY <1>6, <1>7, <1>8, <1>9

-----------------------------------------------------------------------------
(* The inductive invariant.                                                *)

\* The translation table.  While ports are left the counter is past every port
\* handed out, so a new flow takes nobody's; a reverse entry belongs to a flow
\* that was opened (allocate_port, translate_outbound).
NatOK ==
    LET flows == DOMAIN nat.outbound
        opened == Cardinality(flows)
        ports == HighPort - LowPort + 1
    IN  /\ IsFiniteSet(flows)
        /\ opened < ports =>
              nat.next = LowPort + opened /\ \A f \in flows : nat.outbound[f] < nat.next
        /\ opened <= ports =>
              \A f \in flows : LET k == <<nat.outbound[f], f[2]>>
                               IN  k \in DOMAIN nat.inbound /\ nat.inbound[k] = f[1]
        /\ \A k \in DOMAIN nat.inbound : <<nat.inbound[k], k[2]>> \in flows

\* The numbers of the packets that were sent and of those that wait: each up to
\* accepted in one place, none beyond it.
NumbersOK ==
    /\ \A f \in sent : f.id <= accepted
    /\ \A h \in Hop : \A i \in DOMAIN pending[h] : pending[h][i].id <= accepted
    /\ \A f, g \in sent : f.id = g.id => f = g
    /\ \A h, k \in Hop : \A i \in DOMAIN pending[h], j \in DOMAIN pending[k] :
          pending[h][i].id = pending[k][j].id => h = k /\ i = j
    /\ \A f \in sent, h \in Hop : \A i \in DOMAIN pending[h] : pending[h][i].id # f.id
    /\ \A n \in 1 .. accepted :
          \/ \E f \in sent : f.id = n
          \/ \E h \in Hop : \E i \in DOMAIN pending[h] : pending[h][i].id = n

GatewayInv ==
    /\ TypeOK /\ Sorted(routes) /\ NatOK /\ NumbersOK
    /\ OnlySolicited /\ SourceHidden

-----------------------------------------------------------------------------
(* Queues, and what a transmission does to them.                           *)

\* Parking a frame adds one position at the end of one queue.
LEMMA QueueAppend ==
    ASSUME NEW S, NEW q \in [Hop -> Seq(S)], NEW hop \in Hop, NEW e \in S,
           NEW r, r = [q EXCEPT ![hop] = Append(@, e)]
    PROVE  /\ r \in [Hop -> Seq(S)]
           /\ \A h \in Hop : \A i \in DOMAIN q[h] : i \in DOMAIN r[h] /\ r[h][i] = q[h][i]
           /\ \A h \in Hop : \A i \in DOMAIN r[h] :
                 \/ i \in DOMAIN q[h]
                 \/ h = hop /\ i = Len(q[hop]) + 1 /\ r[h][i] = e
           /\ Len(q[hop]) + 1 \in DOMAIN r[hop] /\ r[hop][Len(q[hop]) + 1] = e
           /\ Len(q[hop]) + 1 \notin DOMAIN q[hop]
<1> DEFINE s == q[hop]
           t == Append(s, e)
           m == Len(s)
<1>1. s \in Seq(S) /\ m \in Nat /\ DOMAIN s = 1 .. m
  BY SeqFacts
<1>2. /\ t \in Seq(S) /\ Len(t) = m + 1
      /\ \A i \in 1 .. m : t[i] = s[i]
      /\ t[m + 1] = e
  BY <1>1, AppendProperties
<1> HIDE DEF t
<1>3. DOMAIN t = 1 .. m + 1
  BY <1>2, SeqFacts
<1>4. r \in [Hop -> Seq(S)] /\ r[hop] = t /\ \A h \in Hop : h # hop => r[h] = q[h]
  BY <1>2 DEF t
<1>5. \A i : i \in 1 .. m + 1 <=> i \in 1 .. m \/ i = m + 1
  BY <1>1
<1>6. m + 1 \notin 1 .. m
  BY <1>1
<1> QED BY <1>1, <1>2, <1>3, <1>4, <1>5, <1>6

\* The types the environment's packets and the router's own have.
LEMMA PacketTypes ==
    /\ LanPackets \subseteq Packet /\ WanPackets \subseteq Packet
    /\ \A p \in Packet : p.src.ip \in Address /\ p.dst.ip \in Address
    /\ \A p \in Packet : p.src.port \in PortNumber /\ p.dst.port \in PortNumber
    /\ \A a \in Address, n \in PortNumber : [ip |-> a, port |-> n] \in Endpoint
    /\ public \in Address /\ public \notin LanHost /\ public \notin WanHost
    /\ NatPort \subseteq PortNumber
    /\ \A a \in LanHost : a \notin WanHost
    /\ lan \in Iface /\ wan \in Iface
    /\ Hosts \subseteq Hop
<1>1. Endpoint = [ip : Address, port : PortNumber]
  BY GatewayAssumption
<1>2. \A p \in Packet : p.src \in Endpoint /\ p.dst \in Endpoint
  BY DEF Packet
<1>3. LanHost \subseteq Address /\ WanHost \subseteq Address
  BY GatewayAssumption
<1>4. lan \in Iface /\ wan \in Iface
  BY GatewayAssumption
<1>5. Hosts \subseteq Hop
  BY <1>3, <1>4 DEF Hosts, Hop
<1>6. \A p \in Packet : /\ p.src.ip \in Address /\ p.dst.ip \in Address
                        /\ p.src.port \in PortNumber /\ p.dst.port \in PortNumber
  BY <1>1, <1>2
<1>7. \A a \in Address, n \in PortNumber : [ip |-> a, port |-> n] \in Endpoint
  BY <1>1
<1>8. LanPackets \subseteq Packet /\ WanPackets \subseteq Packet
  BY GatewayAssumption
<1>9. /\ public \in Address /\ public \notin LanHost /\ public \notin WanHost
      /\ NatPort \subseteq PortNumber
      /\ \A a \in LanHost : a \notin WanHost
  BY GatewayAssumption
<1> QED BY <1>4, <1>5, <1>6, <1>7, <1>8, <1>9

\* What waits or was sent, by position.
LEMMA InFlightMembers ==
    ASSUME NEW f
    PROVE  f \in InFlight <=> \/ f \in sent
                              \/ \E h \in Hop : \E i \in DOMAIN pending[h] : pending[h][i] = f
BY DEF InFlight, Range

\* A packet that is transmitted takes the next number and one place, and no other
\* packet moves.
LEMMA TransmitKeeps ==
    ASSUME TypeOK, Sorted(routes), NumbersOK,
           NEW p \in Packet, NEW known, HasRoute(routes, p.dst.ip), Transmit(p, known)
    PROVE  /\ pending' \in [Hop -> Seq(Frame)] /\ asked' \subseteq Hop /\ lost' \subseteq Hop
           /\ accepted' \in 0 .. MaxPackets /\ sent' \subseteq Frame
           /\ NumbersOK'
           /\ \A f \in InFlight' :
                 f \in InFlight \/ (f.packet = p /\ f.iface = Lookup(routes, p.dst.ip).iface)
<1> DEFINE r == Lookup(routes, p.dst.ip)
           hop == <<r.iface, NextHop(r, p.dst.ip)>>
           frame == [iface |-> r.iface, to |-> hop[2], packet |-> p, id |-> accepted + 1]
<1>1. p.dst.ip \in Address
  BY PacketTypes
<1>2. r.iface \in Iface /\ NextHop(r, p.dst.ip) \in Address
  <2>1. RoutesOK(routes)
    BY DEF RoutesOK, TypeOK
  <2> QED BY <1>1, <2>1, LookupSound
<1>3. accepted \in Nat /\ accepted < MaxPackets /\ MaxPackets \in Nat /\ accepted' = accepted + 1
  BY GatewayAssumption DEF TypeOK, Transmit
<1>4. \/ sent' = sent \cup {frame} /\ UNCHANGED <<pending, asked, lost>>
      \/ /\ pending' = [pending EXCEPT ![hop] = Append(@, frame)]
         /\ asked' = asked \cup {hop}
         /\ lost' = lost \ {hop}
         /\ UNCHANGED sent
  BY DEF Transmit, Ask
<1>5. hop \in Hop
  BY <1>2 DEF Hop
<1>6. frame \in Frame /\ frame.id = accepted + 1 /\ frame.packet = p /\ frame.iface = r.iface
  <2>1. accepted + 1 \in 1 .. MaxPackets
    BY <1>3
  <2>2. hop[2] \in Address
    BY <1>2
  <2> QED BY <1>2, <2>1, <2>2 DEF Frame
<1> HIDE DEF r, hop, frame
<1>7. /\ pending \in [Hop -> Seq(Frame)] /\ asked \subseteq Hop /\ lost \subseteq Hop /\ sent \subseteq Frame
  BY DEF TypeOK
<1>8. accepted' \in 0 .. MaxPackets
  BY <1>3
<1>9. /\ \A f \in sent : f.id \in Nat
      /\ \A h \in Hop : \A i \in DOMAIN pending[h] : pending[h][i].id \in Nat
  <2>1. \A f \in Frame : f.id \in Nat
    BY <1>3 DEF Frame
  <2>2. \A h \in Hop : \A i \in DOMAIN pending[h] : pending[h][i] \in Frame
    BY <1>7, SeqFacts
  <2> QED BY <1>7, <2>1, <2>2
<1>10. /\ \A f \in sent : f.id # accepted + 1 /\ f.id <= accepted + 1
       /\ \A h \in Hop : \A i \in DOMAIN pending[h] :
             pending[h][i].id # accepted + 1 /\ pending[h][i].id <= accepted + 1
  BY <1>3, <1>9 DEF NumbersOK
<1>11. \A n \in 1 .. accepted + 1 : n \in 1 .. accepted \/ n = accepted + 1
  BY <1>3
<1>12. accepted + 1 <= accepted + 1
  BY <1>3
<1>13. CASE sent' = sent \cup {frame} /\ UNCHANGED <<pending, asked, lost>>
  <2>1. sent' \subseteq Frame /\ pending' = pending
    BY <1>6, <1>7, <1>13
  <2>2. NumbersOK'
    <3>1. \A f \in sent' : f \in sent \/ f = frame
      BY <1>13
    <3>2. frame \in sent' /\ sent \subseteq sent'
      BY <1>13
    <3>3. \A f \in sent' : f.id <= accepted'
      BY <1>3, <1>6, <1>10, <1>12, <3>1
    <3>4. \A h \in Hop : \A i \in DOMAIN pending'[h] : pending'[h][i].id <= accepted'
      BY <1>3, <1>10, <2>1
    <3>5. \A f, g \in sent' : f.id = g.id => f = g
      BY <1>6, <1>10, <3>1 DEF NumbersOK
    <3>6. \A f \in sent', h \in Hop : \A i \in DOMAIN pending'[h] : pending'[h][i].id # f.id
      BY <1>6, <1>10, <2>1, <3>1 DEF NumbersOK
    <3>7. \A n \in 1 .. accepted' :
             \/ \E f \in sent' : f.id = n
             \/ \E h \in Hop : \E i \in DOMAIN pending'[h] : pending'[h][i].id = n
      BY <1>3, <1>6, <1>11, <2>1, <3>2 DEF NumbersOK
    <3> QED BY <2>1, <3>3, <3>4, <3>5, <3>6, <3>7 DEF NumbersOK
  <2>3. ASSUME NEW f \in InFlight' PROVE f \in InFlight \/ (f.packet = p /\ f.iface = r.iface)
    BY <1>6, <1>13, <2>1, <2>3 DEF InFlight
  <2> QED BY <1>7, <1>8, <1>13, <2>1, <2>2, <2>3 DEF r
<1>14. CASE /\ pending' = [pending EXCEPT ![hop] = Append(@, frame)]
            /\ asked' = asked \cup {hop}
            /\ lost' = lost \ {hop}
            /\ UNCHANGED sent
  <2> DEFINE m == Len(pending[hop]) + 1
  <2>1. /\ pending' \in [Hop -> Seq(Frame)]
        /\ \A h \in Hop : \A i \in DOMAIN pending[h] :
              i \in DOMAIN pending'[h] /\ pending'[h][i] = pending[h][i]
        /\ \A h \in Hop : \A i \in DOMAIN pending'[h] :
              i \in DOMAIN pending[h] \/ (h = hop /\ i = m /\ pending'[h][i] = frame)
        /\ m \in DOMAIN pending'[hop] /\ pending'[hop][m] = frame
    BY <1>5, <1>6, <1>7, <1>14, QueueAppend
  <2> HIDE DEF m
  <2>2. sent' = sent /\ asked' \subseteq Hop /\ lost' \subseteq Hop
    BY <1>5, <1>7, <1>14
  <2>3. NumbersOK'
    <3>1. \A f \in sent' : f.id <= accepted'
      BY <1>3, <1>10, <2>2
    <3>2. \A h \in Hop : \A i \in DOMAIN pending'[h] : pending'[h][i].id <= accepted'
      BY <1>3, <1>6, <1>10, <1>12, <2>1
    <3>3. \A h, k \in Hop : \A i \in DOMAIN pending'[h], j \in DOMAIN pending'[k] :
             pending'[h][i].id = pending'[k][j].id => h = k /\ i = j
      <4> SUFFICES ASSUME NEW h \in Hop, NEW k \in Hop, NEW i \in DOMAIN pending'[h],
                          NEW j \in DOMAIN pending'[k], pending'[h][i].id = pending'[k][j].id
                   PROVE  h = k /\ i = j
        OBVIOUS
      <4>1. CASE i \in DOMAIN pending[h] /\ j \in DOMAIN pending[k]
        BY <2>1, <4>1 DEF NumbersOK
      <4>2. CASE i \notin DOMAIN pending[h] /\ j \in DOMAIN pending[k]
        BY <1>6, <1>10, <2>1, <4>2
      <4>3. CASE i \in DOMAIN pending[h] /\ j \notin DOMAIN pending[k]
        BY <1>6, <1>10, <2>1, <4>3
      <4>4. CASE i \notin DOMAIN pending[h] /\ j \notin DOMAIN pending[k]
        BY <2>1, <4>4
      <4> QED BY <4>1, <4>2, <4>3, <4>4
    <3>4. \A f \in sent', h \in Hop : \A i \in DOMAIN pending'[h] : pending'[h][i].id # f.id
      BY <1>6, <1>10, <2>1, <2>2 DEF NumbersOK
    <3>5. \A f, g \in sent' : f.id = g.id => f = g
      BY <2>2 DEF NumbersOK
    <3>6. ASSUME NEW n \in 1 .. accepted'
          PROVE  \/ \E f \in sent' : f.id = n
                 \/ \E h \in Hop : \E i \in DOMAIN pending'[h] : pending'[h][i].id = n
      <4>1. CASE n = accepted + 1
        BY <1>5, <1>6, <2>1, <4>1
      <4>2. CASE n \in 1 .. accepted
        <5>1. CASE \E f \in sent : f.id = n
          BY <2>2, <5>1
        <5>2. CASE \E h \in Hop : \E i \in DOMAIN pending[h] : pending[h][i].id = n
          BY <2>1, <5>2
        <5> QED BY <4>2, <5>1, <5>2 DEF NumbersOK
      <4> QED BY <1>3, <1>11, <4>1, <4>2
    <3> QED BY <3>1, <3>2, <3>3, <3>4, <3>5, <3>6 DEF NumbersOK
  <2>4. ASSUME NEW f \in InFlight' PROVE f \in InFlight \/ (f.packet = p /\ f.iface = r.iface)
    <3>1. f \in sent' \/ \E h \in Hop : \E i \in DOMAIN pending'[h] : pending'[h][i] = f
      BY <2>4 DEF InFlight, Range
    <3>2. CASE f \in sent'
      BY <2>2, <3>2 DEF InFlight
    <3>3. CASE \E h \in Hop : \E i \in DOMAIN pending'[h] : pending'[h][i] = f
      <4>1. PICK h \in Hop : \E i \in DOMAIN pending'[h] : pending'[h][i] = f
        BY <3>3
      <4>2. PICK i \in DOMAIN pending'[h] : pending'[h][i] = f
        BY <4>1
      <4>3. CASE i \in DOMAIN pending[h]
        BY <2>1, <4>2, <4>3, InFlightMembers
      <4>4. CASE i \notin DOMAIN pending[h]
        BY <1>6, <2>1, <4>2, <4>4
      <4> QED BY <4>3, <4>4
    <3> QED BY <3>1, <3>2, <3>3
  <2> QED BY <1>8, <2>1, <2>2, <2>3, <2>4, <1>7 DEF r
<1> QED BY <1>4, <1>13, <1>14

-----------------------------------------------------------------------------
(* Address translation.                                                    *)

\* The table's types.
NatType ==
    /\ nat.next \in NatPort
    /\ DOMAIN nat.outbound \subseteq Endpoint \X Endpoint
    /\ \A f \in DOMAIN nat.outbound : nat.outbound[f] \in NatPort
    /\ DOMAIN nat.inbound \subseteq NatPort \X Endpoint
    /\ \A k \in DOMAIN nat.inbound : nat.inbound[k] \in Endpoint

\* The first packet of a flow takes the counter's port.  Until the ports run out
\* nobody has that port, so no earlier flow loses its reverse entry.
LEMMA AllocateKeeps ==
    ASSUME NatType, NatOK, NEW p \in Packet, Flow(p) \notin DOMAIN nat.outbound,
           nat' = Allocate(nat, p)
    PROVE  /\ NatType' /\ NatOK'
           /\ DOMAIN nat'.outbound = DOMAIN nat.outbound \cup {Flow(p)}
<1> DEFINE F == DOMAIN nat.outbound
           c == Cardinality(F)
           n == HighPort - LowPort + 1
           x == Flow(p)
           k0 == <<nat.next, p.dst>>
<1>1. LowPort \in Nat /\ HighPort \in Nat /\ LowPort <= HighPort /\ NatPort = LowPort .. HighPort
  BY NatAssumption DEF NatPort
<1>2. p.src \in Endpoint /\ p.dst \in Endpoint /\ x \in Endpoint \X Endpoint /\ x[1] = p.src /\ x[2] = p.dst
  BY DEF Packet, Flow
<1>3. /\ nat'.next = PortAfter(nat.next)
      /\ nat'.outbound = With(nat.outbound, x, nat.next)
      /\ nat'.inbound = With(nat.inbound, k0, p.src)
  BY DEF Allocate, InboundKey
<1>4. /\ DOMAIN nat'.outbound = F \cup {x} /\ nat'.outbound[x] = nat.next
      /\ \A f \in F : nat'.outbound[f] = nat.outbound[f]
  BY <1>3 DEF With
<1>5. /\ DOMAIN nat'.inbound = DOMAIN nat.inbound \cup {k0} /\ nat'.inbound[k0] = p.src
      /\ \A k \in DOMAIN nat.inbound : k # k0 => nat'.inbound[k] = nat.inbound[k]
  BY <1>3 DEF With
<1>6. /\ nat.next \in NatPort /\ F \subseteq Endpoint \X Endpoint
      /\ \A f \in F : nat.outbound[f] \in NatPort
      /\ DOMAIN nat.inbound \subseteq NatPort \X Endpoint
      /\ \A k \in DOMAIN nat.inbound : nat.inbound[k] \in Endpoint
  BY DEF NatType
<1>7. /\ IsFiniteSet(F)
      /\ c < n => nat.next = LowPort + c /\ \A f \in F : nat.outbound[f] < nat.next
      /\ c <= n => \A f \in F : /\ <<nat.outbound[f], f[2]>> \in DOMAIN nat.inbound
                                /\ nat.inbound[<<nat.outbound[f], f[2]>>] = f[1]
      /\ \A k \in DOMAIN nat.inbound : <<nat.inbound[k], k[2]>> \in F
  BY DEF NatOK
<1>8. c \in Nat /\ IsFiniteSet(F \cup {x}) /\ Cardinality(F \cup {x}) = c + 1
  <2> HIDE DEF F, x
  <2>1. x \notin F
    BY DEF F, x
  <2> QED BY <1>7, <2>1, FS_AddElement, FS_CardinalityType
<1>9. k0 \in NatPort \X Endpoint /\ k0[1] = nat.next /\ k0[2] = p.dst
  BY <1>2, <1>6
<1>10. nat'.next \in NatPort /\ (nat.next < HighPort => nat'.next = nat.next + 1)
  BY <1>1, <1>3, <1>6 DEF PortAfter
<1>11. x \notin F
  OBVIOUS
<1>12. <<p.src, p.dst>> = x
  BY DEF Flow
<1> HIDE DEF F, c, x, k0
<1>13. NatType'
  <2>1. DOMAIN nat'.outbound \subseteq Endpoint \X Endpoint /\ DOMAIN nat'.inbound \subseteq NatPort \X Endpoint
    BY <1>2, <1>4, <1>5, <1>6, <1>9
  <2>2. \A f \in DOMAIN nat'.outbound : nat'.outbound[f] \in NatPort
    BY <1>4, <1>6
  <2>3. \A k \in DOMAIN nat'.inbound : nat'.inbound[k] \in Endpoint
    BY <1>2, <1>5, <1>6
  <2> QED BY <1>10, <2>1, <2>2, <2>3 DEF NatType
<1>14. n \in Nat /\ n >= 1
  BY <1>1
<1>15. c + 1 < n => /\ nat'.next = LowPort + (c + 1)
                    /\ \A f \in DOMAIN nat'.outbound : nat'.outbound[f] < nat'.next
  <2> SUFFICES ASSUME c + 1 < n
               PROVE  /\ nat'.next = LowPort + (c + 1)
                      /\ \A f \in DOMAIN nat'.outbound : nat'.outbound[f] < nat'.next
    OBVIOUS
  <2>1. c < n
    BY <1>8, <1>14
  <2>2. nat.next = LowPort + c /\ nat.next \in Nat
    BY <1>1, <1>7, <1>8, <2>1
  <2>3. nat.next < HighPort
    BY <1>1, <1>8, <2>2
  <2>4. nat'.next = nat.next + 1
    BY <1>10, <2>3
  <2>5. ASSUME NEW f \in DOMAIN nat'.outbound PROVE nat'.outbound[f] < nat'.next
    <3>1. CASE f = x
      BY <1>4, <2>2, <2>4, <3>1
    <3>2. CASE f \in F
      <4>1. nat'.outbound[f] < nat.next /\ nat'.outbound[f] \in Nat
        BY <1>1, <1>4, <1>6, <1>7, <2>1, <3>2
      <4> QED BY <2>2, <2>4, <4>1
    <3> QED BY <1>4, <3>1, <3>2
  <2> QED BY <1>1, <1>8, <2>2, <2>4, <2>5
<1>16. ASSUME c + 1 <= n, NEW f \in DOMAIN nat'.outbound
       PROVE  /\ <<nat'.outbound[f], f[2]>> \in DOMAIN nat'.inbound
              /\ nat'.inbound[<<nat'.outbound[f], f[2]>>] = f[1]
  <2>1. c < n /\ c <= n
    BY <1>8, <1>14, <1>16
  <2>2. CASE f = x
    <3>1. <<nat'.outbound[f], f[2]>> = k0
      BY <1>2, <1>4, <2>2 DEF k0
    <3> QED BY <1>2, <1>5, <2>2, <3>1
  <2>3. CASE f \in F
    <3> DEFINE k == <<nat.outbound[f], f[2]>>
    <3>1. k = <<nat'.outbound[f], f[2]>>
      BY <1>4, <2>3
    <3>2. k \in DOMAIN nat.inbound /\ nat.inbound[k] = f[1]
      BY <1>7, <2>1, <2>3
    <3>3. nat.outbound[f] # nat.next
      <4>1. nat.outbound[f] \in Nat /\ nat.next \in Nat
        BY <1>1, <1>6, <2>3
      <4>2. nat.outbound[f] < nat.next
        BY <1>7, <2>1, <2>3
      <4> QED BY <4>1, <4>2
    <3>4. k # k0
      BY <1>9, <3>3
    <3> HIDE DEF k
    <3> QED BY <1>5, <3>1, <3>2, <3>4
  <2> QED BY <1>4, <2>2, <2>3
<1>17. ASSUME NEW k \in DOMAIN nat'.inbound PROVE <<nat'.inbound[k], k[2]>> \in DOMAIN nat'.outbound
  <2>1. CASE k = k0
    BY <1>4, <1>5, <1>9, <1>12, <2>1
  <2>2. CASE k # k0
    BY <1>4, <1>5, <1>7, <1>17, <2>2
  <2> QED BY <2>1, <2>2
<1>18. NatOK'
  <2> DEFINE G == DOMAIN nat'.outbound
  <2>1. IsFiniteSet(G) /\ Cardinality(G) = c + 1
    BY <1>4, <1>8
  <2> HIDE DEF n
  <2>2. /\ Cardinality(G) < n => nat'.next = LowPort + Cardinality(G) /\ \A f \in G : nat'.outbound[f] < nat'.next
        /\ Cardinality(G) <= n => \A f \in G : LET k == <<nat'.outbound[f], f[2]>>
                                              IN  k \in DOMAIN nat'.inbound /\ nat'.inbound[k] = f[1]
        /\ \A k \in DOMAIN nat'.inbound : <<nat'.inbound[k], k[2]>> \in G
    BY <1>15, <1>16, <1>17, <2>1
  <2> QED BY <2>1, <2>2 DEF NatOK, n
<1> QED BY <1>4, <1>13, <1>18 DEF F, x

\* translate_outbound keeps the table sound, drops no flow and gives the packet the
\* public source, unless it refuses it.
LEMMA OpenKeeps ==
    ASSUME NatType, NatOK, NEW p \in Packet, p.src.ip \in LanHost, nat' = Opened(nat, p)
    PROVE  /\ NatType' /\ NatOK'
           /\ DOMAIN nat.outbound \subseteq DOMAIN nat'.outbound
           /\ TranslateOutbound(nat, p) \in Packet
           /\ TranslateOutbound(nat, p).dst = p.dst
           /\ TranslateOutbound(nat, p).src.ip \notin WanHost
           /\ \/ TranslateOutbound(nat, p).src.ip = public
              \/ TranslateOutbound(nat, p).proto \in {"short", "other"}
<1> DEFINE q == TranslateOutbound(nat, p)
<1>1. /\ NatType' /\ NatOK' /\ DOMAIN nat.outbound \subseteq DOMAIN nat'.outbound
      /\ p.proto = "udp" => Flow(p) \in DOMAIN nat'.outbound
  <2>1. CASE p.proto = "udp" /\ Flow(p) \notin DOMAIN nat.outbound
    <3>1. nat' = Allocate(nat, p)
      BY <2>1 DEF Opened
    <3> QED BY <2>1, <3>1, AllocateKeeps
  <2>2. CASE ~(p.proto = "udp" /\ Flow(p) \notin DOMAIN nat.outbound)
    <3>1. nat' = nat
      BY <2>2 DEF Opened
    <3> QED BY <2>2, <3>1 DEF NatType, NatOK
  <2> QED BY <2>1, <2>2
<1>2. p.src \in Endpoint /\ p.dst \in Endpoint /\ p.proto \in {"udp", "short", "icmp", "other"}
  BY DEF Packet
<1>3. public \in Address /\ public \notin WanHost /\ p.src.ip \notin WanHost /\ p.src.port \in PortNumber
  BY PacketTypes
<1>4. CASE p.proto = "udp"
  <2> DEFINE e == [ip |-> public, port |-> nat'.outbound[Flow(p)]]
  <2>1. nat'.outbound[Flow(p)] \in PortNumber
    BY <1>1, <1>4, PacketTypes DEF NatType
  <2>2. e \in Endpoint /\ e.ip = public
    BY <1>3, <2>1, PacketTypes
  <2>3. q = [p EXCEPT !.src = e]
    BY <1>4 DEF TranslateOutbound
  <2> HIDE DEF e, q
  <2>4. q \in Packet /\ q.dst = p.dst /\ q.src = e
    BY <2>2, <2>3 DEF Packet
  <2> QED BY <1>1, <1>3, <2>2, <2>4 DEF q
<1>5. CASE p.proto = "icmp"
  <2> DEFINE e == [p.src EXCEPT !.ip = public]
  <2>1. e \in Endpoint /\ e.ip = public
    <3>1. Endpoint = [ip : Address, port : PortNumber]
      BY GatewayAssumption
    <3> QED BY <1>2, <1>3, <3>1
  <2>2. q = [p EXCEPT !.src = e]
    BY <1>5 DEF TranslateOutbound
  <2> HIDE DEF e, q
  <2>3. q \in Packet /\ q.dst = p.dst /\ q.src = e
    BY <2>1, <2>2 DEF Packet
  <2> QED BY <1>1, <1>3, <2>1, <2>3 DEF q
<1>6. CASE p.proto \in {"short", "other"}
  <2>1. q = p
    BY <1>6 DEF TranslateOutbound
  <2> HIDE DEF q
  <2> QED BY <1>1, <1>3, <1>6, <2>1 DEF q
<1> QED BY <1>2, <1>4, <1>5, <1>6

\* translate_inbound leads to the source of a flow to the sender, or meets a
\* port forward.
LEMMA InboundSolicited ==
    ASSUME NatType, NatOK, NEW p \in Packet, Translates(nat, p)
    PROVE  LET q == TranslateInbound(nat, p)
           IN  /\ q \in Packet /\ q.src = p.src
               /\ <<q.dst, q.src>> \in DOMAIN nat.outbound \/ q.dst \in Range(Forwards)
<1> DEFINE k == <<p.dst.port, p.src>>
           e == IF k \in DOMAIN nat.inbound THEN nat.inbound[k] ELSE Forwards[p.dst.port]
           q == TranslateInbound(nat, p)
<1>1. k \in DOMAIN nat.inbound \/ p.dst.port \in DOMAIN Forwards
  BY DEF Translates, InboundKey
<1>2. e \in Endpoint
  BY <1>1, GatewayAssumption DEF NatType
<1>3. k[2] = p.src
  OBVIOUS
<1>4. <<e, p.src>> \in DOMAIN nat.outbound \/ e \in Range(Forwards)
  <2>1. CASE k \in DOMAIN nat.inbound
    <3>1. <<nat.inbound[k], k[2]>> \in DOMAIN nat.outbound
      BY <2>1 DEF NatOK
    <3> QED BY <1>3, <2>1, <3>1
  <2>2. CASE k \notin DOMAIN nat.inbound
    BY <1>1, <2>2 DEF Range
  <2> QED BY <2>1, <2>2
<1>5. q = [p EXCEPT !.dst = e]
  BY DEF TranslateInbound, InboundKey
<1> HIDE DEF e, q
<1>6. q \in Packet /\ q.src = p.src /\ q.dst = e
  BY <1>2, <1>5 DEF Packet
<1> QED BY <1>4, <1>6 DEF q

-----------------------------------------------------------------------------
(* The invariant holds in every state.                                     *)

\* What the two properties of a frame say of it.
FrameOK(f, flows) ==
    /\ f.packet.src.ip \in WanHost /\ f.packet.dst.ip \in LanHost =>
          \/ <<f.packet.dst, f.packet.src>> \in flows
          \/ f.packet.dst \in Range(Forwards)
          \/ f.packet \in WanPackets
    /\ f.iface = wan /\ f.packet.proto \in {"udp", "icmp"} => f.packet.src.ip \notin LanHost

\* The parts of the invariant a step has to keep, put together.
LEMMA Together ==
    GatewayInv <=>
        /\ routes \in Seq(Route) /\ Sorted(routes)
        /\ NatType /\ NatOK
        /\ arp \in [Iface -> SUBSET Address]
        /\ pending \in [Hop -> Seq(Frame)]
        /\ asked \subseteq Hop /\ lost \subseteq Hop
        /\ accepted \in 0 .. MaxPackets
        /\ sent \subseteq Frame
        /\ NumbersOK
        /\ \A f \in InFlight : FrameOK(f, DOMAIN nat.outbound)
BY DEF GatewayInv, TypeOK, NatType, OnlySolicited, SourceHidden, FrameOK

\* The same of the state after a step.
LEMMA TogetherNext ==
    ASSUME routes' \in Seq(Route), Sorted(routes'), NatType', NatOK',
           arp' \in [Iface -> SUBSET Address], pending' \in [Hop -> Seq(Frame)],
           asked' \subseteq Hop, lost' \subseteq Hop, accepted' \in 0 .. MaxPackets,
           sent' \subseteq Frame, NumbersOK',
           \A f \in InFlight' : FrameOK(f, DOMAIN nat'.outbound)
    PROVE  GatewayInv'
BY DEF GatewayInv, TypeOK, NatType, OnlySolicited, SourceHidden, FrameOK

\* Init.
LEMMA InvInit == Init => GatewayInv
<1> SUFFICES ASSUME Init PROVE GatewayInv
  OBVIOUS
<1> USE DEF Init
<1>1. routes \in Seq(Route) /\ Sorted(routes)
  BY GatewayAssumption
<1>2. /\ nat.next = LowPort /\ DOMAIN nat.outbound = {} /\ DOMAIN nat.inbound = {}
  BY DEF EmptyNat
<1>3. NatType
  BY <1>2, NatAssumption DEF NatType, NatPort
<1>4. NatOK
  <2>1. IsFiniteSet({}) /\ Cardinality({}) = 0
    BY FS_EmptySet
  <2> QED BY <1>2, <2>1, NatAssumption DEF NatOK
<1>5. arp \in [Iface -> SUBSET Address] /\ pending \in [Hop -> Seq(Frame)]
  OBVIOUS
<1>6. \A h \in Hop : DOMAIN pending[h] = {}
  OBVIOUS
<1>7. accepted \in 0 .. MaxPackets /\ 1 .. accepted = {}
  BY GatewayAssumption
<1>8. NumbersOK
  BY <1>6, <1>7 DEF NumbersOK
<1>9. InFlight = {}
  BY <1>6 DEF InFlight, Range
<1> QED BY <1>1, <1>3, <1>4, <1>5, <1>7, <1>8, <1>9, Together

\* Learning a neighbour keeps the cache's type.
LEMMA LearnType ==
    ASSUME arp \in [Iface -> SUBSET Address], NEW i \in Iface, NEW a \in Address
    PROVE  Learn(i, a) \in [Iface -> SUBSET Address]
BY DEF Learn

\* A step that leaves the routes and accepts one packet, or none.
LEMMA AcceptStep ==
    ASSUME GatewayInv, NatType', NatOK', DOMAIN nat.outbound \subseteq DOMAIN nat'.outbound,
           arp' \in [Iface -> SUBSET Address], UNCHANGED routes,
           \/ UNCHANGED <<pending, asked, lost, accepted, sent>>
           \/ \E p \in Packet : \E known :
                 /\ HasRoute(routes, p.dst.ip) /\ Transmit(p, known)
                 /\ \A f : f.packet = p /\ f.iface = Lookup(routes, p.dst.ip).iface
                              => FrameOK(f, DOMAIN nat'.outbound)
    PROVE  GatewayInv'
<1> DEFINE D == DOMAIN nat.outbound
           E == DOMAIN nat'.outbound
<1>1. \A f : FrameOK(f, D) => FrameOK(f, E)
  BY DEF FrameOK
<1>2. /\ routes \in Seq(Route) /\ Sorted(routes) /\ TypeOK /\ NumbersOK
      /\ pending \in [Hop -> Seq(Frame)] /\ asked \subseteq Hop /\ lost \subseteq Hop
      /\ accepted \in 0 .. MaxPackets /\ sent \subseteq Frame
      /\ \A f \in InFlight : FrameOK(f, D)
  <2>1. TypeOK /\ Sorted(routes) /\ NumbersOK
    BY DEF GatewayInv
  <2> QED BY <2>1, Together
<1>3. routes' \in Seq(Route) /\ Sorted(routes')
  BY <1>2
<1> HIDE DEF D, E
<1>4. /\ pending' \in [Hop -> Seq(Frame)] /\ asked' \subseteq Hop /\ lost' \subseteq Hop
      /\ accepted' \in 0 .. MaxPackets /\ sent' \subseteq Frame
      /\ NumbersOK'
      /\ \A f \in InFlight' : FrameOK(f, E)
  <2>1. CASE UNCHANGED <<pending, asked, lost, accepted, sent>>
    <3>1. NumbersOK' /\ InFlight' = InFlight
      BY <1>2, <2>1 DEF NumbersOK, InFlight
    <3> QED BY <1>1, <1>2, <2>1, <3>1
  <2>2. ASSUME NEW p \in Packet, NEW known,
               HasRoute(routes, p.dst.ip), Transmit(p, known),
               \A f : f.packet = p /\ f.iface = Lookup(routes, p.dst.ip).iface => FrameOK(f, E)
        PROVE  /\ pending' \in [Hop -> Seq(Frame)] /\ asked' \subseteq Hop /\ lost' \subseteq Hop
               /\ accepted' \in 0 .. MaxPackets /\ sent' \subseteq Frame
               /\ NumbersOK'
               /\ \A f \in InFlight' : FrameOK(f, E)
    <3>1. /\ pending' \in [Hop -> Seq(Frame)] /\ asked' \subseteq Hop /\ lost' \subseteq Hop
          /\ accepted' \in 0 .. MaxPackets /\ sent' \subseteq Frame
          /\ NumbersOK'
          /\ \A f \in InFlight' :
                f \in InFlight \/ (f.packet = p /\ f.iface = Lookup(routes, p.dst.ip).iface)
      BY <1>2, <2>2, TransmitKeeps
    <3> QED BY <1>1, <1>2, <2>2, <3>1
  <2> QED BY <2>1, <2>2 DEF E
<1> QED BY <1>3, <1>4, TogetherNext DEF E

\* FromLan: what leaves through the WAN has the public address or is of a
\* protocol the router does not translate.
LEMMA FromLanKeeps ==
    ASSUME GatewayInv, NEW p \in LanPackets, NEW ttl, FromLan(p, ttl)
    PROVE  GatewayInv'
<1>1. p \in Packet /\ p.src.ip \in LanHost /\ p.src.ip \in Address /\ p.src.ip \notin WanHost
  BY PacketTypes, GatewayAssumption
<1>2. NatType /\ NatOK /\ arp \in [Iface -> SUBSET Address]
  BY Together
<1>3. lan # wan /\ lan \in Iface /\ public \notin LanHost
  BY GatewayAssumption, PacketTypes
<1>4. arp' = Learn(lan, p.src.ip) /\ UNCHANGED routes
  BY DEF FromLan
<1>5. arp' \in [Iface -> SUBSET Address]
  BY <1>1, <1>2, <1>3, <1>4, LearnType
<1> DEFINE known == Learn(lan, p.src.ip)
           leaves == Lookup(routes, p.dst.ip).iface = wan
<1>6. CASE ttl <= 1 \/ ~HasRoute(routes, p.dst.ip)
  <2>1. UNCHANGED <<nat, pending, asked, lost, accepted, sent>>
    BY <1>6 DEF FromLan
  <2>2. NatType' /\ NatOK'
    BY <1>2, <2>1 DEF NatType, NatOK
  <2>3. DOMAIN nat.outbound \subseteq DOMAIN nat'.outbound
    BY <2>1
  <2>4. UNCHANGED <<pending, asked, lost, accepted, sent>>
    BY <2>1
  <2> QED BY <1>4, <1>5, <2>2, <2>3, <2>4, AcceptStep
<1>7. CASE ~(ttl <= 1 \/ ~HasRoute(routes, p.dst.ip)) /\ leaves
  <2> DEFINE q == TranslateOutbound(nat, p)
  <2>1. HasRoute(routes, p.dst.ip) /\ nat' = Opened(nat, p) /\ Transmit(q, known)
    BY <1>7 DEF FromLan
  <2>2. /\ NatType' /\ NatOK' /\ DOMAIN nat.outbound \subseteq DOMAIN nat'.outbound
        /\ q \in Packet /\ q.dst = p.dst /\ q.src.ip \notin WanHost
        /\ q.src.ip = public \/ q.proto \in {"short", "other"}
    BY <1>1, <1>2, <2>1, OpenKeeps
  <2> HIDE DEF q, known
  <2>3. \A f : f.packet = q => FrameOK(f, DOMAIN nat'.outbound)
    BY <1>3, <2>2 DEF FrameOK
  <2>4. HasRoute(routes, q.dst.ip)
    BY <2>1, <2>2
  <2> QED BY <1>4, <1>5, <2>1, <2>2, <2>3, <2>4, AcceptStep
<1>8. CASE ~(ttl <= 1 \/ ~HasRoute(routes, p.dst.ip)) /\ ~leaves
  <2>1. HasRoute(routes, p.dst.ip) /\ nat' = nat /\ Transmit(p, known)
    BY <1>8 DEF FromLan
  <2>2. NatType' /\ NatOK' /\ DOMAIN nat.outbound \subseteq DOMAIN nat'.outbound
    BY <1>2, <2>1 DEF NatType, NatOK
  <2> HIDE DEF known
  <2>3. \A f : f.packet = p /\ f.iface = Lookup(routes, p.dst.ip).iface
                  => FrameOK(f, DOMAIN nat'.outbound)
    BY <1>1, <1>8 DEF FrameOK
  <2> QED BY <1>1, <1>4, <1>5, <2>1, <2>2, <2>3, AcceptStep
<1> QED BY <1>6, <1>7, <1>8

\* FromWan and PassThrough: what comes in is an answer, a port forward or a
\* packet nobody translated.
LEMMA FromWanKeeps ==
    ASSUME GatewayInv, NEW p \in WanPackets, NEW ttl, FromWan(p) \/ PassThrough(p, ttl)
    PROVE  GatewayInv'
<1>1. p \in Packet /\ p.src.ip \in WanHost /\ p.src.ip \in Address /\ p.src.ip \notin LanHost
  BY PacketTypes, GatewayAssumption
<1>2. NatType /\ NatOK /\ arp \in [Iface -> SUBSET Address]
  BY Together
<1>3. arp' = Learn(wan, p.src.ip) /\ UNCHANGED <<routes, nat>>
  BY DEF FromWan, PassThrough
<1>4. NatType' /\ NatOK' /\ DOMAIN nat.outbound \subseteq DOMAIN nat'.outbound
  BY <1>2, <1>3 DEF NatType, NatOK
<1>5. arp' \in [Iface -> SUBSET Address]
  BY <1>1, <1>2, <1>3, LearnType, PacketTypes
<1> DEFINE known == Learn(wan, p.src.ip)
           q == TranslateInbound(nat, p)
<1>6. CASE UNCHANGED <<pending, asked, lost, accepted, sent>>
  BY <1>3, <1>4, <1>5, <1>6, AcceptStep
<1>7. CASE Translates(nat, p) /\ HasRoute(routes, q.dst.ip) /\ Transmit(q, known)
  <2>1. /\ q \in Packet /\ q.src = p.src
        /\ <<q.dst, q.src>> \in DOMAIN nat.outbound \/ q.dst \in Range(Forwards)
    BY <1>1, <1>2, <1>7, InboundSolicited
  <2> HIDE DEF q, known
  <2>2. \A f : f.packet = q => FrameOK(f, DOMAIN nat'.outbound)
    BY <1>1, <1>4, <2>1 DEF FrameOK
  <2> QED BY <1>3, <1>4, <1>5, <1>7, <2>1, <2>2, AcceptStep
<1>8. CASE HasRoute(routes, p.dst.ip) /\ Transmit(p, known)
  <2> HIDE DEF known
  <2>1. \A f : f.packet = p => FrameOK(f, DOMAIN nat'.outbound)
    BY <1>1 DEF FrameOK
  <2> QED BY <1>1, <1>3, <1>4, <1>5, <1>8, <2>1, AcceptStep
<1> QED BY <1>6, <1>7, <1>8 DEF FromWan, PassThrough

\* FromRouter: the router speaks under its own address.
LEMMA FromRouterKeeps ==
    ASSUME GatewayInv, NEW a \in Peers, FromRouter(a)
    PROVE  GatewayInv'
<1> DEFINE p == [src |-> [ip |-> public, port |-> 179], dst |-> [ip |-> a, port |-> 179],
                 proto |-> "udp"]
<1>1. a \in Address /\ 179 \in PortNumber
  BY GatewayAssumption
<1>2. [ip |-> public, port |-> 179] \in Endpoint /\ [ip |-> a, port |-> 179] \in Endpoint
  BY <1>1, PacketTypes
<1>3. p \in Packet /\ p.src.ip = public /\ p.dst.ip = a
  BY <1>2 DEF Packet
<1>4. HasRoute(routes, p.dst.ip) /\ Transmit(p, arp) /\ UNCHANGED <<routes, nat, arp>>
  BY <1>3 DEF FromRouter
<1> HIDE DEF p
<1>5. NatType /\ NatOK /\ arp \in [Iface -> SUBSET Address]
  BY Together
<1>6. NatType' /\ NatOK' /\ DOMAIN nat.outbound \subseteq DOMAIN nat'.outbound
  BY <1>4, <1>5 DEF NatType, NatOK
<1>7. \A f : f.packet = p => FrameOK(f, DOMAIN nat'.outbound)
  BY <1>3, PacketTypes DEF FrameOK
<1> QED BY <1>3, <1>4, <1>5, <1>6, <1>7, AcceptStep

\* The ARP packet of a host moves what waited for it from its queue to the wire,
\* each frame once.
LEMMA ReceiveArpKeeps ==
    ASSUME GatewayInv, NEW hop \in Hop, ReceiveArp(hop), asked' \subseteq Hop
    PROVE  GatewayInv'
<1>1. /\ routes \in Seq(Route) /\ Sorted(routes)
      /\ NatType /\ NatOK
      /\ arp \in [Iface -> SUBSET Address]
      /\ pending \in [Hop -> Seq(Frame)]
      /\ lost \subseteq Hop /\ accepted \in 0 .. MaxPackets /\ sent \subseteq Frame
      /\ NumbersOK
      /\ \A f \in InFlight : FrameOK(f, DOMAIN nat.outbound)
  BY Together
<1>2. /\ arp' = Learn(hop[1], hop[2])
      /\ sent' = sent \cup Range(pending[hop])
      /\ pending' = [pending EXCEPT ![hop] = <<>>]
      /\ lost' = lost \ {hop}
      /\ UNCHANGED <<routes, nat, accepted>>
  BY DEF ReceiveArp, Drain
<1>3. arp' \in [Iface -> SUBSET Address]
  <2>1. hop[1] \in Iface /\ hop[2] \in Address
    BY DEF Hop
  <2> QED BY <1>1, <1>2, <2>1, LearnType
<1>4. /\ pending' \in [Hop -> Seq(Frame)]
      /\ DOMAIN pending'[hop] = {}
      /\ \A h \in Hop : h # hop => pending'[h] = pending[h]
  BY <1>1, <1>2
<1>5. \A f : f \in sent' <=> f \in sent \/ \E i \in DOMAIN pending[hop] : pending[hop][i] = f
  BY <1>2 DEF Range
<1>6. sent' \subseteq Frame
  <2>1. pending[hop] \in Seq(Frame)
    BY <1>1
  <2>2. Range(pending[hop]) \subseteq Frame
    BY <2>1, SeqFacts
  <2> QED BY <1>1, <1>2, <2>2
<1>7. accepted' = accepted
  BY <1>2
<1>8. NumbersOK'
  <2>1. \A f \in sent' : f.id <= accepted'
    BY <1>1, <1>5, <1>7 DEF NumbersOK
  <2>2. \A h \in Hop : \A i \in DOMAIN pending'[h] : h # hop /\ pending'[h] = pending[h]
    BY <1>4
  <2>3. \A h \in Hop : \A i \in DOMAIN pending'[h] : pending'[h][i].id <= accepted'
    BY <1>1, <1>7, <2>2 DEF NumbersOK
  <2>4. ASSUME NEW f \in sent', NEW g \in sent', f.id = g.id PROVE f = g
    <3>1. CASE f \in sent /\ g \in sent
      BY <1>1, <2>4, <3>1 DEF NumbersOK
    <3>2. CASE f \in sent /\ g \notin sent
      BY <1>1, <1>5, <2>4, <3>2 DEF NumbersOK
    <3>3. CASE f \notin sent /\ g \in sent
      BY <1>1, <1>5, <2>4, <3>3 DEF NumbersOK
    <3>4. CASE f \notin sent /\ g \notin sent
      <4>1. PICK i \in DOMAIN pending[hop] : pending[hop][i] = f
        BY <1>5, <3>4
      <4>2. PICK j \in DOMAIN pending[hop] : pending[hop][j] = g
        BY <1>5, <3>4
      <4>3. i = j
        BY <1>1, <2>4, <4>1, <4>2 DEF NumbersOK
      <4> QED BY <4>1, <4>2, <4>3
    <3> QED BY <3>1, <3>2, <3>3, <3>4
  <2>5. \A h, k \in Hop : \A i \in DOMAIN pending'[h], j \in DOMAIN pending'[k] :
           pending'[h][i].id = pending'[k][j].id => h = k /\ i = j
    BY <1>1, <2>2 DEF NumbersOK
  <2>6. ASSUME NEW f \in sent', NEW h \in Hop, NEW i \in DOMAIN pending'[h]
        PROVE  pending'[h][i].id # f.id
    <3>1. h # hop /\ pending'[h] = pending[h] /\ i \in DOMAIN pending[h]
      BY <2>2
    <3>2. CASE f \in sent
      BY <1>1, <3>1, <3>2 DEF NumbersOK
    <3>3. CASE \E j \in DOMAIN pending[hop] : pending[hop][j] = f
      BY <1>1, <3>1, <3>3 DEF NumbersOK
    <3> QED BY <1>5, <3>2, <3>3
  <2>7. ASSUME NEW n \in 1 .. accepted'
        PROVE  \/ \E f \in sent' : f.id = n
               \/ \E h \in Hop : \E i \in DOMAIN pending'[h] : pending'[h][i].id = n
    <3>1. CASE \E f \in sent : f.id = n
      BY <1>5, <3>1
    <3>2. CASE \E h \in Hop : \E i \in DOMAIN pending[h] : pending[h][i].id = n
      <4>1. PICK h \in Hop : \E i \in DOMAIN pending[h] : pending[h][i].id = n
        BY <3>2
      <4>2. CASE h = hop
        BY <1>5, <4>1, <4>2
      <4>3. CASE h # hop
        BY <1>4, <4>1, <4>3
      <4> QED BY <4>2, <4>3
    <3> QED BY <1>1, <1>7, <3>1, <3>2 DEF NumbersOK
  <2> QED BY <2>1, <2>3, <2>4, <2>5, <2>6, <2>7 DEF NumbersOK
<1>9. ASSUME NEW f \in InFlight' PROVE f \in InFlight
  <2>1. f \in sent' \/ \E h \in Hop : \E i \in DOMAIN pending'[h] : pending'[h][i] = f
    BY <1>9 DEF InFlight, Range
  <2>2. CASE f \in sent'
    BY <1>5, <2>2, InFlightMembers
  <2>3. CASE \E h \in Hop : \E i \in DOMAIN pending'[h] : pending'[h][i] = f
    <3>1. PICK h \in Hop : \E i \in DOMAIN pending'[h] : pending'[h][i] = f
      BY <2>3
    <3>2. h # hop /\ pending'[h] = pending[h]
      BY <1>4, <3>1
    <3> QED BY <3>1, <3>2, InFlightMembers
  <2> QED BY <2>1, <2>2, <2>3
<1>10. NatType' /\ NatOK' /\ \A f \in InFlight' : FrameOK(f, DOMAIN nat'.outbound)
  BY <1>1, <1>2, <1>9 DEF NatType, NatOK
<1>11. lost' \subseteq Hop
  BY <1>1, <1>2
<1> QED BY <1>1, <1>2, <1>3, <1>4, <1>6, <1>8, <1>10, <1>11, TogetherNext

\* A packet from the LAN for the router itself: its sender is learnt.
LEMMA ToRouterKeeps ==
    ASSUME GatewayInv, NEW p \in LanPackets, ToRouter(p)
    PROVE  GatewayInv'
<1>1. p.src.ip \in LanHost /\ lan \in Iface /\ LanHost \subseteq Address
  BY GatewayAssumption
<1>2. NatType /\ NatOK /\ arp \in [Iface -> SUBSET Address]
  BY Together
<1>3. /\ arp' = Learn(lan, p.src.ip)
      /\ UNCHANGED <<routes, nat, pending, asked, lost, accepted, sent>>
  BY DEF ToRouter
<1>4. arp' \in [Iface -> SUBSET Address]
  BY <1>1, <1>2, <1>3, LearnType
<1>5. NatType' /\ NatOK' /\ DOMAIN nat.outbound \subseteq DOMAIN nat'.outbound
  BY <1>2, <1>3 DEF NatType, NatOK
<1> QED BY <1>3, <1>4, <1>5, AcceptStep

\* A lost ARP exchange or a change of routes moves no packet.
LEMMA QuietKeeps ==
    ASSUME GatewayInv, routes' \in Seq(Route), Sorted(routes'), asked' \subseteq Hop,
           lost' \subseteq Hop, UNCHANGED <<nat, arp, pending, accepted, sent>>
    PROVE  GatewayInv'
<1>1. /\ NatType /\ NatOK
      /\ arp \in [Iface -> SUBSET Address]
      /\ pending \in [Hop -> Seq(Frame)]
      /\ accepted \in 0 .. MaxPackets /\ sent \subseteq Frame
      /\ NumbersOK
      /\ \A f \in InFlight : FrameOK(f, DOMAIN nat.outbound)
  BY Together
<1>2. NatType' /\ NatOK' /\ NumbersOK'
  BY <1>1 DEF NatType, NatOK, NumbersOK
<1>3. \A f \in InFlight' : FrameOK(f, DOMAIN nat'.outbound)
  BY <1>1 DEF InFlight
<1> QED BY <1>1, <1>2, <1>3, TogetherNext

\* Every step keeps the invariant.
LEMMA InvNext == GatewayInv /\ [Next]_vars => GatewayInv'
<1> SUFFICES ASSUME GatewayInv, [Next]_vars PROVE GatewayInv'
  OBVIOUS
<1>1. /\ routes \in Seq(Route) /\ Sorted(routes) /\ RoutesOK(routes)
      /\ asked \subseteq Hop /\ lost \subseteq Hop
  BY Together DEF RoutesOK
<1>2. ASSUME NEW p \in LanPackets, NEW ttl \in 1 .. 2, FromLan(p, ttl) PROVE GatewayInv'
  BY <1>2, FromLanKeeps
<1>3. ASSUME NEW p \in WanPackets, NEW ttl \in 1 .. 2, FromWan(p) \/ PassThrough(p, ttl)
      PROVE  GatewayInv'
  BY <1>3, FromWanKeeps
<1>4. ASSUME NEW a \in Peers, FromRouter(a) PROVE GatewayInv'
  BY <1>4, FromRouterKeeps
<1>5. ASSUME NEW hop \in Hosts, ArpReply(hop) \/ ArpRequest(hop) PROVE GatewayInv'
  <2>1. hop \in Hop /\ ReceiveArp(hop) /\ asked' \subseteq Hop
    BY <1>1, <1>5, PacketTypes DEF ArpReply, ArpRequest
  <2> QED BY <2>1, ReceiveArpKeeps
<1>6. ASSUME NEW hop \in Hosts, LoseArp(hop) PROVE GatewayInv'
  <2>1. /\ hop \in Hop /\ asked' \subseteq Hop /\ lost' \subseteq Hop
        /\ UNCHANGED <<routes, nat, arp, pending, accepted, sent>>
    BY <1>1, <1>6, PacketTypes DEF LoseArp
  <2> QED BY <1>1, <2>1, QuietKeeps
<1>7. ASSUME NEW r \in Candidates, Install(r) \/ Withdraw(r) PROVE GatewayInv'
  <2>1. r \in Route
    BY GatewayAssumption
  <2>2. /\ routes' = AddRoute(routes, r) \/ routes' = RemoveRoute(routes, r)
        /\ UNCHANGED <<nat, arp, pending, asked, lost, accepted, sent>>
    BY <1>7 DEF Install, Withdraw
  <2>3. RoutesOK(AddRoute(routes, r)) /\ RoutesOK(RemoveRoute(routes, r))
    BY <1>1, <2>1, RoutesKeep
  <2>4. routes' \in Seq(Route) /\ Sorted(routes')
    BY <2>2, <2>3 DEF RoutesOK
  <2> QED BY <1>1, <2>2, <2>4, QuietKeeps
<1>8. ASSUME NEW s \in {r.source : r \in Candidates}, TearDown(s) PROVE GatewayInv'
  <2>1. PICK r \in Candidates : s = r.source
    OBVIOUS
  <2>2. r \in Route
    BY GatewayAssumption
  <2>3. /\ routes' = RemoveAllFrom(routes, s)
        /\ UNCHANGED <<nat, arp, pending, asked, lost, accepted, sent>>
    BY <1>8 DEF TearDown
  <2>4. RoutesOK(RemoveAllFrom(routes, s))
    BY <1>1, <2>2, RoutesKeep
  <2>5. routes' \in Seq(Route) /\ Sorted(routes')
    BY <2>3, <2>4 DEF RoutesOK
  <2> QED BY <1>1, <2>3, <2>5, QuietKeeps
<1>9. CASE UNCHANGED vars
  BY <1>1, <1>9, QuietKeeps DEF vars
<1>10. ASSUME NEW p \in LanPackets, ToRouter(p) PROVE GatewayInv'
  BY <1>10, ToRouterKeeps
<1>11. 1 \in 1 .. 2
  OBVIOUS
<1> QED BY <1>2, <1>3, <1>4, <1>5, <1>6, <1>7, <1>8, <1>9, <1>10, <1>11 DEF Next

\* Every reachable state of the gateway satisfies the invariant.
THEOREM GatewayInductive == Spec => []GatewayInv
BY InvInit, InvNext, PTL DEF Spec

-----------------------------------------------------------------------------
(* What the invariant means for the gateway's users.                       *)

\* A packet takes the best route, no LAN address leaves on the WAN in a packet that
\* translate_outbound accepts (ICMP, and TCP or UDP with its ports), and what a WAN
\* host gets through is an answer, a port forward or was not translated
\* (routing_table.lookup, translate_outbound, translate_inbound), whatever routes
\* are installed and withdrawn while packets wait for ARP.
THEOREM ForwardingAlwaysSound == Spec => []ForwardingSound
<1>1. GatewayInv => ForwardingSound
  <2> SUFFICES ASSUME GatewayInv PROVE ForwardingSound
    OBVIOUS
  <2>1. TypeOK /\ OnlySolicited /\ SourceHidden
    BY DEF GatewayInv
  <2>2. RoutesOK(routes)
    BY DEF GatewayInv, TypeOK, RoutesOK
  <2>3. LookupIsBest
    BY <2>2, LookupSound DEF LookupIsBest
  <2> QED BY <2>1, <2>3 DEF ForwardingSound
<1> QED BY <1>1, GatewayInductive, PTL

\* A packet accepted for forwarding was transmitted once or is parked once
\* (pending_transit_packets and its drain).
THEOREM AlwaysHeldOrSentOnce == Spec => []HeldOrSentOnce
<1>1. GatewayInv => HeldOrSentOnce
  <2> SUFFICES ASSUME GatewayInv, NEW n \in 1 .. accepted
               PROVE  Cardinality(SentAs(n)) + Cardinality(HeldAt(n)) = 1
    BY DEF HeldOrSentOnce
  <2> USE DEF GatewayInv
  <2>1. \A w : w \in HeldAt(n) <=> \E h \in Hop : \E i \in DOMAIN pending[h] :
                                       w = <<h, i>> /\ pending[h][i].id = n
    BY DEF HeldAt
  <2>2. Cardinality({}) = 0 /\ \A x : Cardinality({x}) = 1
    BY FS_EmptySet, FS_Singleton
  <2>3. CASE \E f \in sent : f.id = n
    <3>1. PICK f \in sent : f.id = n
      BY <2>3
    <3>2. SentAs(n) = {f}
      BY <3>1 DEF SentAs, NumbersOK
    <3>3. HeldAt(n) = {}
      BY <2>1, <3>1 DEF NumbersOK
    <3>4. Cardinality(SentAs(n)) = 1
      BY <2>2, <3>2
    <3>5. Cardinality(HeldAt(n)) = 0
      BY <2>2, <3>3
    <3> QED BY <3>4, <3>5
  <2>4. CASE ~ \E f \in sent : f.id = n
    <3>1. SentAs(n) = {}
      BY <2>4 DEF SentAs
    <3>2. PICK h \in Hop : \E i \in DOMAIN pending[h] : pending[h][i].id = n
      BY <2>4 DEF NumbersOK
    <3>3. PICK i \in DOMAIN pending[h] : pending[h][i].id = n
      BY <3>2
    <3>4. ASSUME NEW w PROVE w \in HeldAt(n) <=> w = <<h, i>>
      BY <2>1, <3>3 DEF NumbersOK
    <3>5. HeldAt(n) = {<<h, i>>}
      BY <3>4
    <3>6. Cardinality(SentAs(n)) = 0
      BY <2>2, <3>1
    <3>7. Cardinality(HeldAt(n)) = 1
      BY <2>2, <3>5
    <3> QED BY <3>6, <3>7
  <2> QED BY <2>3, <2>4
<1> QED BY <1>1, GatewayInductive, PTL

\* Until more flows are open than there are ports, the reply to a flow's external
\* port comes back to the flow's source (allocate_port, translate_inbound).
THEOREM RepliesAlwaysReturn == Spec => []RepliesReturn
<1>1. GatewayInv => RepliesReturn
  <2> SUFFICES ASSUME GatewayInv, Cardinality(DOMAIN nat.outbound) <= Cardinality(NatPort),
                      NEW f \in DOMAIN nat.outbound
               PROVE  LET reply == [src |-> f[2], proto |-> "udp",
                                    dst |-> [ip |-> public, port |-> nat.outbound[f]]]
                      IN  Translates(nat, reply) /\ TranslateInbound(nat, reply).dst = f[1]
    BY DEF RepliesReturn
  <2> DEFINE reply == [src |-> f[2], proto |-> "udp",
                       dst |-> [ip |-> public, port |-> nat.outbound[f]]]
             k == <<nat.outbound[f], f[2]>>
  <2>1. Cardinality(NatPort) = HighPort - LowPort + 1
    BY NatAssumption, FS_Interval DEF NatPort
  <2>2. k \in DOMAIN nat.inbound /\ nat.inbound[k] = f[1]
    BY <2>1 DEF GatewayInv, NatOK
  <2>3. reply.proto = "udp" /\ InboundKey(reply.dst.port, reply.src) = k
    BY DEF InboundKey
  <2>4. TranslateInbound(nat, reply) = [reply EXCEPT !.dst = nat.inbound[k]]
    BY <2>2, <2>3 DEF TranslateInbound
  <2> QED BY <2>2, <2>3, <2>4 DEF Translates
<1> QED BY <1>1, GatewayInductive, PTL
====
