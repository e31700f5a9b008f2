--------------------------- MODULE ReassemblyProofs --------------------------
(***************************************************************************)
(* The reassembly buffer for every set of keys, every datagram sent under  *)
(* them, every MTU and every limit: the byte count and the order of use    *)
(* are exact and within the limits, what is held is free of contradictions *)
(* and incomplete, what is handed out was sent, and eviction takes the     *)
(* least recently used sets.                                               *)
(***************************************************************************)
EXTENDS Reassembly, TLAPS, FiniteSetTheorems, SequenceTheorems,
        WellFoundedInduction, NaturalsInduction

-----------------------------------------------------------------------------
(* Numbers, sequences and positions.                                       *)

\* Every nonempty set of naturals has a least element.
LEMMA LeastNat ==
    ASSUME NEW T \in SUBSET Nat, T # {}
    PROVE  \E x \in T : \A y \in T : x <= y
<1> DEFINE R == OpToRel(<, Nat)
<1>1. IsWellFoundedOn(R, Nat)
  BY NatLessThanWellFounded
<1>2. \E x \in T : \A y \in T : ~(<<y, x>> \in R)
  <2> HIDE DEF R
  <2> QED BY <1>1, WFMin
<1>3. \A x, y \in Nat : ~(<<y, x>> \in R) => x <= y
  BY DEF R, OpToRel
<1> QED BY <1>2, <1>3

\* Min is the least element.
LEMMA MinIs ==
    ASSUME NEW T \in SUBSET Nat, T # {}
    PROVE  Min(T) \in T /\ \A y \in T : Min(T) <= y
<1>1. \E x \in T : \A y \in T : x =< y
  BY LeastNat
<1> QED BY <1>1 DEF Min

\* A set of numbers below a bound has a greatest element, which is its Max.
LEMMA MaxIs ==
    ASSUME NEW n \in Nat, NEW T \in SUBSET (0 .. n), T # {}
    PROVE  Max(T) \in T /\ \A y \in T : y <= Max(T)
<1> DEFINE B == {b \in Nat : \A y \in T : y <= b}
<1>1. B \in SUBSET Nat /\ n \in B
  OBVIOUS
<1>2. PICK b \in B : \A y \in B : b <= y
  <2> HIDE DEF B
  <2> QED BY <1>1, LeastNat
<1>3. b \in Nat /\ \A y \in T : y \in Nat /\ y <= b
  OBVIOUS
<1>4. b \in T
  <2> SUFFICES ASSUME b \notin T PROVE FALSE
    OBVIOUS
  <2>1. \A y \in T : y < b
    BY <1>3
  <2>2. PICK y \in T : TRUE
    OBVIOUS
  <2>3. b - 1 \in Nat /\ \A z \in T : z <= b - 1
    BY <1>3, <2>1, <2>2
  <2>4. b - 1 \in B
    BY <2>3
  <2> QED BY <1>2, <1>3, <2>4
<1>5. \E x \in T : \A y \in T : x >= y
  BY <1>3, <1>4
<1>6. Max(T) \in T /\ \A y \in T : Max(T) >= y
  BY <1>5 DEF Max
<1> QED BY <1>3, <1>6

\* What a sequence holds, by position.
LEMMA SeqFacts ==
    ASSUME NEW S, NEW s \in Seq(S)
    PROVE  /\ Len(s) \in Nat /\ DOMAIN s = 1 .. Len(s)
           /\ \A i \in 1 .. Len(s) : s[i] \in S
           /\ \A x : x \in Range(s) <=> \E i \in 1 .. Len(s) : s[i] = x
           /\ Range(s) \subseteq S
<1>1. Len(s) \in Nat /\ DOMAIN s = 1 .. Len(s) /\ \A i \in 1 .. Len(s) : s[i] \in S
  BY LenProperties, ElementOfSeq
<1>2. Range(s) = {s[i] : i \in 1 .. Len(s)}
  BY <1>1 DEF Range
<1> QED BY <1>1, <1>2

\* A longer stretch of positions holds more of the kept ones.
LEMMA RankGrows ==
    ASSUME NEW m \in Nat, NEW keep \in SUBSET (1 .. m)
    PROVE  /\ IsFiniteSet(keep) /\ Cardinality(keep) \in Nat
           /\ \A i \in keep : Rank(keep, i) \in 1 .. Cardinality(keep)
           /\ \A i, j \in keep : i < j => Rank(keep, i) < Rank(keep, j)
<1> DEFINE B(i) == {j \in keep : j <= i}
<1>1. IsFiniteSet(keep)
  <2>1. IsFiniteSet(1 .. m)
    BY FS_Interval
  <2> QED BY <2>1, FS_Subset
<1>2. Cardinality(keep) \in Nat
  BY <1>1, FS_CardinalityType
<1>3. \A i \in keep : /\ IsFiniteSet(B(i)) /\ Cardinality(B(i)) \in Nat
                      /\ Cardinality(B(i)) <= Cardinality(keep)
  <2> SUFFICES ASSUME NEW i \in keep
               PROVE  /\ IsFiniteSet(B(i)) /\ Cardinality(B(i)) \in Nat
                      /\ Cardinality(B(i)) <= Cardinality(keep)
    OBVIOUS
  <2>1. B(i) \in SUBSET keep
    OBVIOUS
  <2> HIDE DEF B
  <2> QED BY <1>1, <2>1, FS_Subset, FS_CardinalityType
<1>4. \A i \in keep : Cardinality(B(i)) >= 1
  <2> SUFFICES ASSUME NEW i \in keep PROVE Cardinality(B(i)) >= 1
    OBVIOUS
  <2>1. i \in B(i)
    OBVIOUS
  <2> HIDE DEF B
  <2>2. Cardinality(B(i)) # 0
    BY <1>3, <2>1, FS_EmptySet
  <2> QED BY <1>3, <2>2
<1>5. \A i, j \in keep : i < j => Cardinality(B(i)) < Cardinality(B(j))
  <2> SUFFICES ASSUME NEW i \in keep, NEW j \in keep, i < j
               PROVE  Cardinality(B(i)) < Cardinality(B(j))
    OBVIOUS
  <2>1. B(i) \in SUBSET B(j) /\ j \in B(j) /\ j \notin B(i)
    <3>1. keep \subseteq Int /\ i \in Int /\ j \in Int
      OBVIOUS
    <3>2. \A x \in Int : x <= i => x <= j
      BY <3>1
    <3>3. j <= j /\ ~(j <= i)
      BY <3>1
    <3>4. \A x \in keep : x <= i => x <= j
      BY <3>1, <3>2
    <3>5. B(i) \in SUBSET B(j)
      BY <3>4
    <3>6. j \in B(j) /\ j \notin B(i)
      BY <3>3
    <3> QED BY <3>5, <3>6
  <2> HIDE DEF B
  <2>2. Cardinality(B(i)) <= Cardinality(B(j)) /\ Cardinality(B(j)) # Cardinality(B(i))
    BY <1>3, <2>1, FS_Subset
  <2> QED BY <1>3, <2>2
<1>6. \A i : Rank(keep, i) = Cardinality(B(i))
  BY DEF Rank
<1> HIDE DEF B
<1> QED BY <1>1, <1>2, <1>3, <1>4, <1>5, <1>6

\* retain leaves the kept entries, in their order.
LEMMA RetainKeeps ==
    ASSUME NEW S, NEW table \in Seq(S), NEW keep \in SUBSET (DOMAIN table)
    PROVE  /\ Retain(table, keep) \in Seq(S) /\ Len(Retain(table, keep)) = Cardinality(keep)
           /\ IsFiniteSet(keep) /\ Cardinality(keep) \in Nat
           /\ \A i \in keep : /\ Rank(keep, i) \in 1 .. Cardinality(keep)
                             /\ Retain(table, keep)[Rank(keep, i)] = table[i]
           /\ \A i, j \in keep : i < j => Rank(keep, i) < Rank(keep, j)
           /\ \A n \in DOMAIN Retain(table, keep) :
                 \E i \in keep : Retain(table, keep)[n] = table[i]
           /\ \A n, o \in DOMAIN Retain(table, keep) : n < o =>
                 \E i, j \in keep : /\ i < j /\ Retain(table, keep)[n] = table[i]
                                    /\ Retain(table, keep)[o] = table[j]
<1> DEFINE m == Len(table)
           c == Cardinality(keep)
           u(n) == CHOOSE i \in keep : Rank(keep, i) = n
           t == Retain(table, keep)
           f == [i \in keep |-> Rank(keep, i)]
<1>1. m \in Nat /\ DOMAIN table = 1 .. m /\ \A i \in 1 .. m : table[i] \in S
  BY SeqFacts
<1>2. keep \in SUBSET (1 .. m)
  BY <1>1
<1> HIDE DEF m
<1>3. /\ IsFiniteSet(keep) /\ c \in Nat
      /\ \A i \in keep : Rank(keep, i) \in 1 .. c
      /\ \A i, j \in keep : i < j => Rank(keep, i) < Rank(keep, j)
  BY <1>1, <1>2, RankGrows
<1>4. keep \subseteq Nat
  BY <1>1, <1>2
<1>5. f \in [keep -> 1 .. c] /\ DOMAIN f = keep /\ \A i \in keep : f[i] = Rank(keep, i)
  BY <1>3
<1> HIDE DEF f, c
<1>6. \A i, j \in keep : f[i] = f[j] => i = j
  BY <1>3, <1>4, <1>5
<1>7. f \in Injection(keep, 1 .. c)
  BY <1>5, <1>6 DEF Injection, IsInjective
<1>8. IsFiniteSet(1 .. c) /\ Cardinality(1 .. c) = c /\ Cardinality(keep) = c
  BY <1>3, FS_Interval DEF c
<1>9. f \in Surjection(keep, 1 .. c)
  BY <1>7, <1>8, FS_Injection
<1>10. \A n \in 1 .. c : \E i \in keep : Rank(keep, i) = n
  BY <1>5, <1>9 DEF Surjection
<1>11. \A n \in 1 .. c : u(n) \in keep /\ Rank(keep, u(n)) = n
  BY <1>10
<1>12. t = [n \in 1 .. c |-> table[u(n)]]
  BY DEF Retain, c
<1> HIDE DEF u, t
<1>13. t \in [1 .. c -> S]
  BY <1>1, <1>2, <1>11, <1>12
<1>14. t \in Seq(S) /\ DOMAIN t = 1 .. c
  BY <1>3, <1>13
<1>15. ASSUME NEW n \in 1 .. c, NEW o \in 1 .. c, n < o
       PROVE  \E i, j \in keep : i < j /\ t[n] = table[i] /\ t[o] = table[j]
  <2>1. u(n) \in Nat /\ u(o) \in Nat
    BY <1>4, <1>11
  <2>2. u(n) < u(o)
    <3> SUFFICES ASSUME ~(u(n) < u(o)) PROVE FALSE
      OBVIOUS
    <3>1. u(o) < u(n) \/ u(o) = u(n)
      BY <2>1
    <3>2. Rank(keep, u(o)) < Rank(keep, u(n)) \/ Rank(keep, u(o)) = Rank(keep, u(n))
      BY <1>3, <1>11, <3>1
    <3>3. o < n \/ o = n
      BY <1>11, <3>2
    <3> QED BY <1>3, <1>15, <3>3
  <2>3. t[n] = table[u(n)] /\ t[o] = table[u(o)]
    BY <1>12
  <2> QED BY <1>11, <2>2, <2>3
<1>16. Len(t) = c
  BY <1>3, <1>14, SeqFacts
<1>17. ASSUME NEW i \in keep PROVE Rank(keep, i) \in 1 .. c /\ t[Rank(keep, i)] = table[i]
  <2>1. Rank(keep, i) \in 1 .. c
    BY <1>3
  <2>2. u(Rank(keep, i)) \in keep /\ Rank(keep, u(Rank(keep, i))) = Rank(keep, i)
    BY <1>11, <2>1
  <2>3. u(Rank(keep, i)) = i
    BY <1>5, <1>6, <2>2
  <2> QED BY <1>12, <2>1, <2>3
<1>18. \A n \in 1 .. c : \E i \in keep : t[n] = table[i]
  BY <1>11, <1>12
<1>19. Cardinality(keep) = c
  BY DEF c
<1> QED BY <1>3, <1>14, <1>15, <1>16, <1>17, <1>18, <1>19 DEF t

\* The position of InsertAt's new entry, and what the others become.
LEMMA InsertFacts ==
    ASSUME NEW S, NEW s \in Seq(S), NEW e \in S, NEW x \in 1 .. Len(s) + 1
    PROVE  LET t == InsertAt(s, x, e)
           IN  /\ t \in Seq(S) /\ DOMAIN t = 1 .. Len(s) + 1
               /\ \A i \in 1 .. Len(s) + 1 :
                     t[i] = IF i < x THEN s[i] ELSE IF i = x THEN e ELSE s[i - 1]
<1> DEFINE m == Len(s)
           a == SubSeq(s, 1, x - 1)
           b == SubSeq(s, x, m)
           ae == a \o <<e>>
           t == ae \o b
<1>1. m \in Nat /\ DOMAIN s = 1 .. m /\ \A i \in 1 .. m : s[i] \in S
  BY SeqFacts
<1>2. x \in Nat /\ 1 <= x /\ x <= m + 1
  BY <1>1
<1>3. t = InsertAt(s, x, e)
  BY DEF InsertAt
<1> HIDE DEF m
<1>4. a \in Seq(S) /\ Len(a) = x - 1 /\ \A i \in 1 .. x - 1 : a[i] = s[i]
  <2>1. 1 \in Int /\ x - 1 \in Int /\ \A i \in 1 .. x - 1 : s[i] \in S
    BY <1>1, <1>2
  <2>2. /\ SubSeq(s, 1, x - 1) \in Seq(S)
        /\ Len(SubSeq(s, 1, x - 1)) = IF 1 <= x - 1 THEN x - 1 - 1 + 1 ELSE 0
        /\ \A i \in 1 .. x - 1 - 1 + 1 : SubSeq(s, 1, x - 1)[i] = s[1 + i - 1]
    BY <2>1, SubSeqProperties
  <2>3. \A i \in 1 .. x - 1 : i \in 1 .. x - 1 - 1 + 1 /\ 1 + i - 1 = i
    BY <1>2
  <2> QED BY <1>2, <2>2, <2>3
<1>5. b \in Seq(S) /\ Len(b) = m - x + 1 /\ \A i \in 1 .. m - x + 1 : b[i] = s[x + i - 1]
  <2>1. x \in Int /\ m \in Int /\ \A i \in x .. m : s[i] \in S
    BY <1>1, <1>2
  <2>2. /\ SubSeq(s, x, m) \in Seq(S)
        /\ Len(SubSeq(s, x, m)) = IF x <= m THEN m - x + 1 ELSE 0
        /\ \A i \in 1 .. m - x + 1 : SubSeq(s, x, m)[i] = s[x + i - 1]
    BY <2>1, SubSeqProperties
  <2> QED BY <1>1, <1>2, <2>2
<1>6. <<e>> \in Seq(S) /\ Len(<<e>>) = 1 /\ <<e>>[1] = e
  OBVIOUS
<1> HIDE DEF a, b
<1>7. /\ ae \in Seq(S) /\ Len(ae) = x
      /\ \A i \in 1 .. x : ae[i] = IF i < x THEN s[i] ELSE e
  <2>1. /\ ae \in Seq(S) /\ Len(ae) = Len(a) + Len(<<e>>)
        /\ \A i \in 1 .. Len(a) + Len(<<e>>) :
              ae[i] = IF i <= Len(a) THEN a[i] ELSE <<e>>[i - Len(a)]
    BY <1>4, <1>6, ConcatProperties
  <2>2. Len(a) + Len(<<e>>) = x
    BY <1>2, <1>4, <1>6
  <2>3. ASSUME NEW i \in 1 .. x PROVE ae[i] = IF i < x THEN s[i] ELSE e
    <3>1. CASE i < x
      <4>1. i <= Len(a) /\ i \in 1 .. x - 1
        BY <1>2, <1>4, <3>1
      <4> QED BY <1>4, <2>1, <2>2, <3>1, <4>1
    <3>2. CASE ~(i < x)
      <4>1. ~(i <= Len(a)) /\ i - Len(a) = 1
        BY <1>2, <1>4, <3>2
      <4> QED BY <1>6, <2>1, <2>2, <3>2, <4>1
    <3> QED BY <3>1, <3>2
  <2> QED BY <2>1, <2>2, <2>3
<1> HIDE DEF ae
<1>8. /\ t \in Seq(S) /\ Len(t) = Len(ae) + Len(b)
      /\ \A i \in 1 .. Len(ae) + Len(b) : t[i] = IF i <= Len(ae) THEN ae[i] ELSE b[i - Len(ae)]
  BY <1>5, <1>7, ConcatProperties
<1>9. Len(ae) + Len(b) = m + 1
  BY <1>1, <1>2, <1>5, <1>7
<1> HIDE DEF t
<1>10. DOMAIN t = 1 .. m + 1
  BY <1>8, <1>9, SeqFacts
<1>11. ASSUME NEW i \in 1 .. m + 1
       PROVE  t[i] = IF i < x THEN s[i] ELSE IF i = x THEN e ELSE s[i - 1]
  <2>1. t[i] = IF i <= x THEN ae[i] ELSE b[i - x]
    BY <1>7, <1>8, <1>9
  <2>2. CASE i <= x
    <3>1. i \in 1 .. x /\ (i < x \/ i = x)
      BY <1>1, <1>2, <2>2
    <3> QED BY <1>2, <1>7, <2>1, <2>2, <3>1
  <2>3. CASE ~(i <= x)
    <3>1. i - x \in 1 .. m - x + 1 /\ x + (i - x) - 1 = i - 1 /\ ~(i < x) /\ i # x
      BY <1>1, <1>2, <2>3
    <3>2. b[i - x] = s[i - 1]
      BY <1>5, <3>1
    <3> QED BY <2>1, <2>3, <3>1, <3>2
  <2> QED BY <2>2, <2>3
<1> QED BY <1>3, <1>8, <1>10, <1>11 DEF m

Distinct(s) == \A i, j \in DOMAIN s : s[i] = s[j] => i = j

\* A list of keys without some of them: the others, in their order, once if
\* they were there once.
LEMMA WithoutFacts ==
    ASSUME NEW S, NEW order \in Seq(S), NEW keys
    PROVE  LET t == Without(order, keys)
               K == {i \in DOMAIN order : order[i] \notin keys}
           IN  /\ t \in Seq(S) /\ IsFiniteSet(K) /\ Len(t) = Cardinality(K)
               /\ \A x : x \in Range(t) <=> x \in Range(order) /\ x \notin keys
               /\ \A i, j \in K : i < j =>
                     \E n, o \in DOMAIN t : n < o /\ t[n] = order[i] /\ t[o] = order[j]
               /\ Distinct(order) => Distinct(t)
<1> DEFINE t == Without(order, keys)
           K == {i \in DOMAIN order : order[i] \notin keys}
           c == Cardinality(K)
<1>1. t = Retain(order, K) /\ K \in SUBSET (DOMAIN order)
  BY DEF Without
<1>2. Len(order) \in Nat /\ DOMAIN order = 1 .. Len(order)
  BY SeqFacts
<1> HIDE DEF K
<1>3. /\ t \in Seq(S) /\ Len(t) = c /\ IsFiniteSet(K) /\ c \in Nat
      /\ \A i \in K : Rank(K, i) \in 1 .. c /\ t[Rank(K, i)] = order[i]
      /\ \A i, j \in K : i < j => Rank(K, i) < Rank(K, j)
      /\ \A n \in DOMAIN t : \E i \in K : t[n] = order[i]
      /\ \A n, o \in DOMAIN t : n < o => \E i, j \in K : i < j /\ t[n] = order[i] /\ t[o] = order[j]
  BY <1>1, RetainKeeps
<1> HIDE DEF t, c
<1>4. DOMAIN t = 1 .. c
  BY <1>3, SeqFacts
<1>5. \A x : x \in Range(t) <=> x \in Range(order) /\ x \notin keys
  <2>1. ASSUME NEW n \in DOMAIN t PROVE t[n] \in Range(order) /\ t[n] \notin keys
    BY <1>3, <2>1 DEF K, Range
  <2>2. ASSUME NEW i \in DOMAIN order, order[i] \notin keys PROVE order[i] \in Range(t)
    <3>1. i \in K
      BY <2>2 DEF K
    <3>2. Rank(K, i) \in DOMAIN t /\ t[Rank(K, i)] = order[i]
      BY <1>3, <1>4, <3>1
    <3> QED BY <3>2 DEF Range
  <2>3. \A x : x \in Range(t) => x \in Range(order) /\ x \notin keys
    BY <2>1 DEF Range
  <2>4. \A x : x \in Range(order) /\ x \notin keys => \E i \in DOMAIN order : order[i] = x
    BY DEF Range
  <2> QED BY <2>2, <2>3, <2>4
<1>6. \A i, j \in K : i < j =>
         \E n, o \in DOMAIN t : n < o /\ t[n] = order[i] /\ t[o] = order[j]
  BY <1>3, <1>4
<1>7. ASSUME Distinct(order) PROVE Distinct(t)
  <2> SUFFICES ASSUME NEW n \in DOMAIN t, NEW o \in DOMAIN t, t[n] = t[o], n # o PROVE FALSE
    BY DEF Distinct
  <2>1. n < o \/ o < n
    BY <1>3, <1>4
  <2>2. PICK i \in K, j \in K : i < j /\ order[i] = order[j]
    <3>1. CASE n < o
      <4>1. \E i, j \in K : i < j /\ t[n] = order[i] /\ t[o] = order[j]
        BY <1>3, <3>1
      <4> QED BY <4>1
    <3>2. CASE o < n
      <4>1. \E i, j \in K : i < j /\ t[o] = order[i] /\ t[n] = order[j]
        BY <1>3, <3>2
      <4> QED BY <4>1
    <3> QED BY <2>1, <3>1, <3>2
  <2>3. i \in DOMAIN order /\ j \in DOMAIN order
    BY DEF K
  <2>4. i = j
    BY <1>7, <2>2, <2>3 DEF Distinct
  <2> QED BY <1>2, <2>2, <2>3, <2>4
<1> QED BY <1>3, <1>5, <1>6, <1>7 DEF t, K, c

\* The larger and the smaller of two numbers.
LEMMA MaxMinTwo ==
    ASSUME NEW a \in Nat, NEW b \in Nat
    PROVE  /\ Max({a, b}) \in Nat /\ Max({a, b}) = IF a <= b THEN b ELSE a
           /\ Min({a, b}) \in Nat /\ Min({a, b}) = IF a <= b THEN a ELSE b
<1>1. \E x \in {a, b} : \A y \in {a, b} : x >= y
  OBVIOUS
<1>2. Max({a, b}) \in {a, b} /\ \A y \in {a, b} : Max({a, b}) >= y
  BY <1>1 DEF Max
<1>3. \E x \in {a, b} : \A y \in {a, b} : x =< y
  OBVIOUS
<1>4. Min({a, b}) \in {a, b} /\ \A y \in {a, b} : Min({a, b}) =< y
  BY <1>3 DEF Min
<1> QED BY <1>2, <1>4

\* Division by the unit.
LEMMA DivideFacts ==
    ASSUME NEW a \in Nat, NEW u \in Nat, u > 0
    PROVE  /\ a \div u \in Nat /\ a = u * (a \div u) + (a % u)
           /\ a % u \in Nat /\ a % u < u
OBVIOUS

\* A multiple of the unit leaves no rest.
LEMMA MultipleFacts ==
    ASSUME NEW n \in Nat, NEW u \in Nat, u > 0
    PROVE  (n * u) % u = 0
OBVIOUS

-----------------------------------------------------------------------------
(* Entries, and their place in a set.                                      *)

\* The fields of an entry.
LEMMA EntryFields ==
    ASSUME NEW e \in Entry
    PROVE  /\ e.offset \in Nat /\ e.data \in Seq(Nat) /\ e.mf \in BOOLEAN
           /\ Len(e.data) \in Nat /\ DOMAIN e.data = 1 .. Len(e.data)
           /\ End(e) \in Nat /\ End(e) = e.offset + Len(e.data)
           /\ \A i \in 1 .. Len(e.data) : e.data[i] \in Nat
           /\ e.data = <<>> <=> Len(e.data) = 0
<1>1. e.offset \in Nat /\ e.data \in Seq(Nat) /\ e.mf \in BOOLEAN
  BY DEF Entry
<1>2. /\ Len(e.data) \in Nat /\ DOMAIN e.data = 1 .. Len(e.data)
      /\ \A i \in 1 .. Len(e.data) : e.data[i] \in Nat
  BY <1>1, SeqFacts
<1>3. e.data = <<>> <=> Len(e.data) = 0
  BY <1>1, EmptySeq
<1> QED BY <1>1, <1>2, <1>3 DEF End

\* What it means that t is s with e at position x.
PutAt(s, x, e, t) ==
    /\ x \in 1 .. Len(s) + 1 /\ DOMAIN t = 1 .. Len(s) + 1
    /\ \A i \in 1 .. Len(s) + 1 : t[i] = IF i < x THEN s[i] ELSE IF i = x THEN e ELSE s[i - 1]

\* push and sort put a fragment behind the entries that do not begin later.
LEMMA InsertKeeps ==
    ASSUME NEW s \in Seq(Entry), InOrder(s), NEW e \in Entry
    PROVE  /\ Insert(s, e) \in Seq(Entry) /\ InOrder(Insert(s, e))
           /\ \E x \in 1 .. Len(s) + 1 : PutAt(s, x, e, Insert(s, e))
<1> DEFINE m == Len(s)
           K == {i \in DOMAIN s : s[i].offset <= e.offset}
           C == {i \in 1 .. m : ~(s[i].offset <= e.offset)} \cup {m + 1}
<1>1. m \in Nat /\ DOMAIN s = 1 .. m /\ \A i \in 1 .. m : s[i] \in Entry
  BY SeqFacts
<1>2. \A i \in 1 .. m : s[i].offset \in Nat
  BY <1>1, EntryFields
<1>3. C \in SUBSET Nat /\ C # {}
  <2> HIDE DEF m
  <2> QED BY <1>1
<1>4. PICK x \in C : \A y \in C : x <= y
  <2> HIDE DEF C
  <2> QED BY <1>3, LeastNat
<1>5. x \in 1 .. m + 1 /\ x \in Nat
  <2> HIDE DEF m
  <2> QED BY <1>1, <1>4
<1>6. e.offset \in Nat
  BY EntryFields
<1>7. \A i, j \in 1 .. m : i < j => s[i].offset <= s[j].offset
  BY <1>1 DEF InOrder
<1> HIDE DEF m
<1>8. \A i \in 1 .. m : i < x => s[i].offset <= e.offset
  BY <1>1, <1>3, <1>4, <1>5
<1>9. \A i \in 1 .. m : i >= x => ~(s[i].offset <= e.offset)
  <2> SUFFICES ASSUME NEW i \in 1 .. m, i >= x PROVE ~(s[i].offset <= e.offset)
    OBVIOUS
  <2>1. x \in 1 .. m /\ ~(s[x].offset <= e.offset)
    BY <1>1, <1>4, <1>5
  <2>2. x < i \/ x = i
    BY <1>1, <2>1
  <2>3. s[x].offset <= s[i].offset
    BY <1>2, <1>7, <2>1, <2>2
  <2> QED BY <1>2, <1>6, <2>1, <2>3
<1>10. K = 1 .. x - 1
  <2>1. \A i \in 1 .. m : s[i].offset <= e.offset <=> i < x
    BY <1>1, <1>5, <1>8, <1>9
  <2>2. \A i : i \in K <=> i \in 1 .. m /\ i < x
    BY <1>1, <2>1
  <2>3. \A i : i \in 1 .. m /\ i < x <=> i \in 1 .. x - 1
    BY <1>1, <1>5
  <2> HIDE DEF K
  <2> QED BY <2>2, <2>3
<1>11. Cardinality(K) + 1 = x
  <2>1. Cardinality(1 .. x - 1) = IF 1 > x - 1 THEN 0 ELSE (x - 1) - 1 + 1
    <3>1. 1 \in Int /\ x - 1 \in Int
      BY <1>5
    <3> QED BY <3>1, FS_Interval
  <2> HIDE DEF K
  <2> QED BY <1>1, <1>5, <1>10, <2>1
<1> DEFINE t == Insert(s, e)
<1>12. t = InsertAt(s, x, e)
  BY <1>11 DEF Insert
<1>13. t \in Seq(Entry) /\ PutAt(s, x, e, t)
  <2> HIDE DEF t, K, C
  <2>1. x \in 1 .. Len(s) + 1
    BY <1>5 DEF m
  <2>2. LET u == InsertAt(s, x, e)
        IN  /\ u \in Seq(Entry) /\ DOMAIN u = 1 .. Len(s) + 1
            /\ \A i \in 1 .. Len(s) + 1 :
                  u[i] = IF i < x THEN s[i] ELSE IF i = x THEN e ELSE s[i - 1]
    BY <2>1, InsertFacts
  <2> QED BY <1>12, <2>1, <2>2 DEF PutAt
<1> HIDE DEF t, K, C
<1>14. /\ DOMAIN t = 1 .. m + 1
       /\ \A i \in 1 .. m + 1 : t[i] = IF i < x THEN s[i] ELSE IF i = x THEN e ELSE s[i - 1]
  BY <1>13 DEF PutAt, m
<1>15. ASSUME NEW i \in 1 .. m + 1, NEW j \in 1 .. m + 1, i < j
       PROVE  t[i].offset <= t[j].offset
  <2>1. CASE j < x
    <3>1. i < x /\ i \in 1 .. m /\ j \in 1 .. m
      BY <1>1, <1>5, <1>15, <2>1
    <3>2. t[i] = s[i] /\ t[j] = s[j]
      BY <1>14, <2>1, <3>1
    <3> QED BY <1>7, <1>15, <3>1, <3>2
  <2>2. CASE j = x
    <3>1. i < x /\ i \in 1 .. m /\ ~(j < x)
      BY <1>1, <1>5, <1>15, <2>2
    <3>2. t[i] = s[i] /\ t[j] = e
      BY <1>14, <2>2, <3>1
    <3> QED BY <1>8, <3>1, <3>2
  <2>3. CASE j > x
    <3>1. j - 1 \in 1 .. m /\ ~(j < x) /\ j # x /\ j - 1 >= x
      BY <1>1, <1>5, <2>3
    <3>2. t[j] = s[j - 1]
      BY <1>14, <3>1
    <3>3. CASE i < x
      <4>1. i \in 1 .. m /\ i < j - 1
        BY <1>1, <1>5, <1>15, <3>1, <3>3
      <4>2. t[i] = s[i]
        BY <1>14, <3>3
      <4> QED BY <1>7, <3>1, <3>2, <4>1, <4>2
    <3>4. CASE i = x
      <4>1. t[i] = e
        BY <1>14, <3>4, <1>5
      <4>2. ~(s[j - 1].offset <= e.offset)
        BY <1>9, <3>1
      <4> QED BY <1>2, <1>6, <3>1, <3>2, <4>1, <4>2
    <3>5. CASE i > x
      <4>1. i - 1 \in 1 .. m /\ ~(i < x) /\ i # x /\ i - 1 < j - 1
        BY <1>1, <1>5, <1>15, <3>5
      <4>2. t[i] = s[i - 1]
        BY <1>14, <4>1
      <4> QED BY <1>7, <3>1, <3>2, <4>1, <4>2
    <3> QED BY <1>1, <1>5, <3>3, <3>4, <3>5
  <2> QED BY <1>1, <1>5, <2>1, <2>2, <2>3
<1>16. InOrder(t)
  BY <1>14, <1>15 DEF InOrder
<1> QED BY <1>13, <1>16, <1>5 DEF t, m

\* What is in a sequence after an insertion.
LEMMA PutRange ==
    ASSUME NEW S, NEW s \in Seq(S), NEW e, NEW t, NEW x, PutAt(s, x, e, t)
    PROVE  \A y : y \in Range(t) <=> y \in Range(s) \/ y = e
<1> DEFINE m == Len(s)
<1>1. m \in Nat /\ DOMAIN s = 1 .. m
  BY SeqFacts
<1>2. /\ x \in 1 .. m + 1 /\ DOMAIN t = 1 .. m + 1
      /\ \A i \in 1 .. m + 1 : t[i] = IF i < x THEN s[i] ELSE IF i = x THEN e ELSE s[i - 1]
  BY DEF PutAt
<1> HIDE DEF m
<1>3. ASSUME NEW i \in 1 .. m + 1 PROVE t[i] \in Range(s) \/ t[i] = e
  <2>1. CASE i < x
    <3>1. i \in DOMAIN s /\ t[i] = s[i]
      BY <1>1, <1>2, <2>1
    <3> QED BY <3>1 DEF Range
  <2>2. CASE i = x
    BY <1>1, <1>2, <2>2
  <2>3. CASE i > x
    <3>1. i - 1 \in DOMAIN s /\ t[i] = s[i - 1]
      BY <1>1, <1>2, <2>3
    <3> QED BY <3>1 DEF Range
  <2> QED BY <1>1, <1>2, <2>1, <2>2, <2>3
<1>4. ASSUME NEW i \in 1 .. m PROVE s[i] \in Range(t)
  <2>1. CASE i < x
    <3>1. i \in DOMAIN t /\ t[i] = s[i]
      BY <1>1, <1>2, <2>1
    <3> QED BY <3>1 DEF Range
  <2>2. CASE ~(i < x)
    <3>1. i + 1 \in DOMAIN t /\ i + 1 > x /\ (i + 1) - 1 = i
      BY <1>1, <1>2, <2>2
    <3>2. t[i + 1] = s[(i + 1) - 1]
      BY <1>1, <1>2, <3>1
    <3> QED BY <3>1, <3>2 DEF Range
  <2> QED BY <2>1, <2>2
<1>5. e \in Range(t)
  <2>1. x \in DOMAIN t /\ t[x] = e
    BY <1>1, <1>2
  <2> QED BY <2>1 DEF Range
<1>6. \A y : y \in Range(t) => y \in Range(s) \/ y = e
  BY <1>2, <1>3 DEF Range
<1>7. \A y : y \in Range(s) => y \in Range(t)
  BY <1>1, <1>4 DEF Range
<1> QED BY <1>5, <1>6, <1>7

-----------------------------------------------------------------------------
(* Counting bytes.                                                         *)

\* The image of a finite set is finite.
LEMMA ImageFinite ==
    ASSUME NEW S, IsFiniteSet(S), NEW f, DOMAIN f = S
    PROVE  IsFiniteSet({f[x] : x \in S})
<1> DEFINE T == {f[x] : x \in S}
           g == [x \in S |-> f[x]]
<1>1. g \in [S -> T] /\ \A y \in T : \E x \in S : g[x] = y
  OBVIOUS
<1> HIDE DEF T, g
<1>2. g \in Surjection(S, T)
  BY <1>1 DEF Surjection
<1>3. IsFiniteSet(T)
  BY <1>2, FS_Surjection
<1> QED BY <1>3 DEF T

\* The bytes of a set, entry by entry.
LEMMA BytesMembers ==
    ASSUME NEW s, NEW z
    PROVE  z \in BytesOf(s) <=> \E i \in DOMAIN s : z \in {i} \X DOMAIN s[i].data
BY DEF BytesOf

\* A set of entries has finitely many bytes.
LEMMA BytesFinite ==
    ASSUME NEW s \in Seq(Entry)
    PROVE  IsFiniteSet(BytesOf(s)) /\ Cardinality(BytesOf(s)) \in Nat
<1> DEFINE f == [i \in DOMAIN s |-> {i} \X DOMAIN s[i].data]
           T == {f[i] : i \in DOMAIN s}
<1>1. Len(s) \in Nat /\ DOMAIN s = 1 .. Len(s) /\ \A i \in 1 .. Len(s) : s[i] \in Entry
  BY SeqFacts
<1>2. IsFiniteSet(DOMAIN s)
  <2>1. IsFiniteSet(1 .. Len(s))
    BY <1>1, FS_Interval
  <2> QED BY <1>1, <2>1
<1>3. DOMAIN f = DOMAIN s /\ \A i \in DOMAIN s : f[i] = {i} \X DOMAIN s[i].data
  OBVIOUS
<1>4. BytesOf(s) = UNION T
  BY <1>3 DEF BytesOf
<1> HIDE DEF f
<1>5. IsFiniteSet(T)
  BY <1>2, <1>3, ImageFinite
<1>6. ASSUME NEW i \in DOMAIN s PROVE IsFiniteSet(f[i])
  <2>1. DOMAIN s[i].data = 1 .. Len(s[i].data) /\ Len(s[i].data) \in Nat
    BY <1>1, EntryFields
  <2>2. IsFiniteSet(1 .. Len(s[i].data))
    BY <2>1, FS_Interval
  <2>3. IsFiniteSet({i})
    BY FS_Singleton
  <2>4. IsFiniteSet({i} \X DOMAIN s[i].data)
    BY <2>1, <2>2, <2>3, FS_Product
  <2> QED BY <1>3, <2>4
<1>7. \A t \in T : IsFiniteSet(t)
  BY <1>6
<1> HIDE DEF T
<1>8. IsFiniteSet(UNION T)
  BY <1>5, <1>7, FS_UNION
<1> QED BY <1>4, <1>8, FS_CardinalityType

Holdings == [FragmentKey -> Seq(Entry)]

\* The keys are finitely many.
LEMMA FiniteKeys ==
    ASSUME NEW K \in SUBSET FragmentKey
    PROVE  IsFiniteSet(K)
BY ReassemblyAssumption, FS_Subset

\* So has a collection of sets.
LEMMA HeldFinite ==
    ASSUME NEW held \in Holdings, NEW K \in SUBSET FragmentKey
    PROVE  IsFiniteSet(HeldBytes(held, K)) /\ Cardinality(HeldBytes(held, K)) \in Nat
<1> DEFINE f == [k \in K |-> {k} \X BytesOf(held[k])]
           T == {f[k] : k \in K}
<1>1. IsFiniteSet(K)
  BY FiniteKeys
<1>2. DOMAIN f = K /\ \A k \in K : f[k] = {k} \X BytesOf(held[k])
  OBVIOUS
<1>3. HeldBytes(held, K) = UNION T
  BY <1>2 DEF HeldBytes
<1> HIDE DEF f
<1>4. IsFiniteSet(T)
  BY <1>1, <1>2, ImageFinite
<1>5. ASSUME NEW k \in K PROVE IsFiniteSet(f[k])
  <2>1. held[k] \in Seq(Entry)
    BY DEF Holdings
  <2>2. IsFiniteSet(BytesOf(held[k])) /\ IsFiniteSet({k})
    BY <2>1, BytesFinite, FS_Singleton
  <2>3. IsFiniteSet({k} \X BytesOf(held[k]))
    BY <2>2, FS_Product
  <2> QED BY <1>2, <2>3
<1>6. \A t \in T : IsFiniteSet(t)
  BY <1>5
<1> HIDE DEF T
<1>7. IsFiniteSet(UNION T)
  BY <1>4, <1>6, FS_UNION
<1> QED BY <1>3, <1>7, FS_CardinalityType

\* A byte held under some of the keys.
LEMMA HeldMembers ==
    ASSUME NEW held, NEW K, NEW z
    PROVE  z \in HeldBytes(held, K) <=> \E k \in K : z \in {k} \X BytesOf(held[k])
BY DEF HeldBytes

\* Bytes under different keys are counted apart.
LEMMA HeldSplit ==
    ASSUME NEW held \in Holdings, NEW A \in SUBSET FragmentKey, NEW B \in SUBSET FragmentKey,
           A \cap B = {}
    PROVE  Cardinality(HeldBytes(held, A \cup B)) =
              Cardinality(HeldBytes(held, A)) + Cardinality(HeldBytes(held, B))
<1> DEFINE a == HeldBytes(held, A)
           b == HeldBytes(held, B)
           c == HeldBytes(held, A \cup B)
<1>1. /\ IsFiniteSet(a) /\ Cardinality(a) \in Nat
      /\ IsFiniteSet(b) /\ Cardinality(b) \in Nat
  BY HeldFinite
<1>2. c = a \cup b
  <2>1. \A z : z \in c <=> z \in a \/ z \in b
    BY HeldMembers
  <2> HIDE DEF a, b, c
  <2> QED BY <2>1
<1>3. a \cap b = {}
  <2> SUFFICES ASSUME NEW z \in a, z \in b PROVE FALSE
    OBVIOUS
  <2>1. PICK k \in A : z \in {k} \X BytesOf(held[k])
    BY HeldMembers
  <2>2. PICK q \in B : z \in {q} \X BytesOf(held[q])
    BY HeldMembers
  <2>3. z[1] = k
    BY <2>1
  <2>4. z[1] = q
    BY <2>2
  <2> QED BY <2>3, <2>4
<1> HIDE DEF a, b, c
<1>4. Cardinality(a \cup b) = Cardinality(a) + Cardinality(b) - Cardinality(a \cap b)
  BY <1>1, FS_Union
<1>5. Cardinality({}) = 0
  BY FS_EmptySet
<1>6. Cardinality(c) = Cardinality(a) + Cardinality(b)
  <2>1. Cardinality(a \cap b) = 0
    BY <1>3, <1>5, Zenon
  <2>2. Cardinality(c) = Cardinality(a \cup b)
    BY <1>2, Zenon
  <2> QED BY <1>1, <1>4, <2>1, <2>2
<1> QED BY <1>6 DEF a, b, c

\* The bytes under some keys depend on the sets of those keys only.
LEMMA HeldSame ==
    ASSUME NEW held, NEW g, NEW K, \A k \in K : g[k] = held[k]
    PROVE  HeldBytes(g, K) = HeldBytes(held, K)
<1>1. \A k \in K : {k} \X BytesOf(g[k]) = {k} \X BytesOf(held[k])
  OBVIOUS
<1>2. \A z : z \in HeldBytes(g, K) <=> z \in HeldBytes(held, K)
  BY <1>1, HeldMembers
<1> QED BY <1>2

\* Empty sets have no bytes.
LEMMA HeldNone ==
    ASSUME NEW g, NEW K, \A k \in K : g[k] = <<>>
    PROVE  HeldBytes(g, K) = {} /\ Cardinality(HeldBytes(g, K)) = 0
<1>1. BytesOf(<<>>) = {}
  <2>1. DOMAIN <<>> = {}
    OBVIOUS
  <2> QED BY <2>1 DEF BytesOf
<1>2. \A k \in K : BytesOf(g[k]) = {}
  BY <1>1
<1>3. \A k \in K : {k} \X BytesOf(g[k]) = {}
  BY <1>2
<1>4. \A z : z \notin HeldBytes(g, K)
  BY <1>3, HeldMembers
<1>5. HeldBytes(g, K) = {}
  BY <1>4
<1> QED BY <1>5, FS_EmptySet

\* Removing sets takes their bytes away.
LEMMA HeldDrop ==
    ASSUME NEW held \in Holdings, NEW gone \in SUBSET FragmentKey,
           NEW g, g = [k \in FragmentKey |-> IF k \in gone THEN <<>> ELSE held[k]]
    PROVE  /\ g \in Holdings
           /\ Cardinality(HeldBytes(g, FragmentKey)) =
                 Cardinality(HeldBytes(held, FragmentKey)) - Cardinality(HeldBytes(held, gone))
           /\ Cardinality(HeldBytes(g, FragmentKey)) \in Nat
<1> DEFINE rest == FragmentKey \ gone
<1>1. <<>> \in Seq(Entry)
  OBVIOUS
<1>2. g \in Holdings
  BY <1>1 DEF Holdings
<1>3. rest \in SUBSET FragmentKey /\ gone \cap rest = {} /\ gone \cup rest = FragmentKey
  OBVIOUS
<1>4. (\A k \in rest : g[k] = held[k]) /\ (\A k \in gone : g[k] = <<>>)
  OBVIOUS
<1> HIDE DEF rest
<1>5. HeldBytes(g, rest) = HeldBytes(held, rest)
  BY <1>4, HeldSame
<1>6. Cardinality(HeldBytes(g, gone)) = 0
  BY <1>4, HeldNone
<1>7. Cardinality(HeldBytes(held, gone \cup rest)) =
         Cardinality(HeldBytes(held, gone)) + Cardinality(HeldBytes(held, rest))
  BY <1>3, HeldSplit
<1>8. Cardinality(HeldBytes(g, gone \cup rest)) =
         Cardinality(HeldBytes(g, gone)) + Cardinality(HeldBytes(g, rest))
  BY <1>2, <1>3, HeldSplit
<1>9. /\ Cardinality(HeldBytes(held, gone)) \in Nat /\ Cardinality(HeldBytes(held, rest)) \in Nat
  BY <1>3, HeldFinite
<1>10. /\ Cardinality(HeldBytes(g, FragmentKey)) = 0 + Cardinality(HeldBytes(held, rest))
       /\ Cardinality(HeldBytes(held, FragmentKey)) =
             Cardinality(HeldBytes(held, gone)) + Cardinality(HeldBytes(held, rest))
  BY <1>3, <1>5, <1>6, <1>7, <1>8, Zenon
<1> QED BY <1>2, <1>9, <1>10

\* The bytes under one key.
LEMMA HeldOne ==
    ASSUME NEW held \in Holdings, NEW k \in FragmentKey
    PROVE  Cardinality(HeldBytes(held, {k})) = Cardinality(BytesOf(held[k]))
<1> DEFINE b == BytesOf(held[k])
<1>1. held[k] \in Seq(Entry)
  BY DEF Holdings
<1>2. IsFiniteSet(b) /\ Cardinality(b) \in Nat
  BY <1>1, BytesFinite
<1>3. HeldBytes(held, {k}) = {k} \X b
  BY DEF HeldBytes
<1> HIDE DEF b
<1>4. IsFiniteSet({k}) /\ Cardinality({k}) = 1
  BY FS_Singleton
<1>5. Cardinality({k} \X b) = Cardinality({k}) * Cardinality(b)
  BY <1>2, <1>4, FS_Product
<1>6. Cardinality({k} \X b) = Cardinality(b)
  BY <1>2, <1>4, <1>5
<1> QED BY <1>3, <1>6 DEF b

\* Inserting an entry adds its bytes and moves the others.
LEMMA InsertBytes ==
    ASSUME NEW s \in Seq(Entry), NEW e \in Entry, NEW t \in Seq(Entry),
           NEW x \in 1 .. Len(s) + 1, PutAt(s, x, e, t)
    PROVE  Cardinality(BytesOf(t)) = Cardinality(BytesOf(s)) + Len(e.data)
<1> DEFINE m == Len(s)
           A == BytesOf(s)
           N == {x} \X DOMAIN e.data
           B == BytesOf(t) \ N
           shift(i) == IF i < x THEN i ELSE i + 1
           back(i) == IF i < x THEN i ELSE i - 1
           f == [z \in A |-> <<shift(z[1]), z[2]>>]
<1>1. m \in Nat /\ DOMAIN s = 1 .. m /\ \A i \in 1 .. m : s[i] \in Entry
  BY SeqFacts
<1>2. /\ x \in 1 .. m + 1 /\ x \in Nat /\ DOMAIN t = 1 .. m + 1
      /\ \A i \in 1 .. m + 1 : t[i] = IF i < x THEN s[i] ELSE IF i = x THEN e ELSE s[i - 1]
  BY <1>1 DEF PutAt
<1> HIDE DEF m
<1>3. \A i \in 1 .. m : shift(i) \in 1 .. m + 1 /\ shift(i) # x /\ back(shift(i)) = i /\ t[shift(i)] = s[i]
  <2> SUFFICES ASSUME NEW i \in 1 .. m
               PROVE  shift(i) \in 1 .. m + 1 /\ shift(i) # x /\ back(shift(i)) = i /\ t[shift(i)] = s[i]
    OBVIOUS
  <2>1. CASE i < x
    BY <1>1, <1>2, <2>1
  <2>2. CASE ~(i < x)
    <3>1. shift(i) = i + 1 /\ i + 1 \in 1 .. m + 1 /\ ~(i + 1 < x) /\ i + 1 # x /\ (i + 1) - 1 = i
      BY <1>1, <1>2, <2>2
    <3>2. t[i + 1] = s[(i + 1) - 1]
      BY <1>2, <3>1
    <3>3. back(i + 1) = i
      BY <3>1
    <3> HIDE DEF back, shift
    <3> QED BY <3>1, <3>2, <3>3
  <2> QED BY <2>1, <2>2
<1>4. \A i \in 1 .. m + 1 : i # x => back(i) \in 1 .. m /\ shift(back(i)) = i
  <2> SUFFICES ASSUME NEW i \in 1 .. m + 1, i # x PROVE back(i) \in 1 .. m /\ shift(back(i)) = i
    OBVIOUS
  <2>1. CASE i < x
    BY <1>1, <1>2, <2>1
  <2>2. CASE ~(i < x)
    BY <1>1, <1>2, <2>2
  <2> QED BY <2>1, <2>2
<1> HIDE DEF shift, back
<1>5. \A z : z \in A <=> \E i \in 1 .. m : \E b \in DOMAIN s[i].data : z = <<i, b>>
  <2>1. \A z : z \in A <=> \E i \in 1 .. m : z \in {i} \X DOMAIN s[i].data
    BY <1>1, BytesMembers
  <2> QED BY <2>1
<1>6. \A z : z \in BytesOf(t) <=> \E i \in 1 .. m + 1 : \E b \in DOMAIN t[i].data : z = <<i, b>>
  <2>1. \A z : z \in BytesOf(t) <=> \E i \in 1 .. m + 1 : z \in {i} \X DOMAIN t[i].data
    BY <1>2, BytesMembers
  <2> QED BY <2>1
<1>7. \A z : z \in N <=> \E b \in DOMAIN e.data : z = <<x, b>>
  OBVIOUS
<1>8. \A z : z \in B <=> \E i \in 1 .. m : \E b \in DOMAIN s[i].data : z = <<shift(i), b>>
  <2>1. ASSUME NEW i \in 1 .. m, NEW b \in DOMAIN s[i].data PROVE <<shift(i), b>> \in B
    <3>1. shift(i) \in 1 .. m + 1 /\ shift(i) # x /\ b \in DOMAIN t[shift(i)].data
      BY <1>3, <2>1
    <3>2. <<shift(i), b>> \in BytesOf(t)
      BY <1>6, <3>1
    <3>3. <<shift(i), b>> \notin N
      BY <1>7, <3>1
    <3> QED BY <3>2, <3>3
  <2>2. ASSUME NEW z \in B PROVE \E i \in 1 .. m : \E b \in DOMAIN s[i].data : z = <<shift(i), b>>
    <3>0. PICK j \in 1 .. m + 1 : \E b \in DOMAIN t[j].data : z = <<j, b>>
      BY <1>6
    <3>1. PICK b \in DOMAIN t[j].data : z = <<j, b>>
      BY <3>0
    <3>2. j # x
      <4> SUFFICES ASSUME j = x PROVE FALSE
        OBVIOUS
      <4>1. t[j] = e
        BY <1>2
      <4>2. z \in N
        BY <1>7, <3>1, <4>1
      <4> QED BY <4>2
    <3>3. back(j) \in 1 .. m /\ shift(back(j)) = j
      BY <1>4, <3>2
    <3>4. t[j] = s[back(j)]
      BY <1>3, <3>3
    <3> QED BY <3>1, <3>3, <3>4
  <2> HIDE DEF B
  <2> QED BY <2>1, <2>2
<1>9. f \in [A -> B] /\ \A i \in 1 .. m : \A b \in DOMAIN s[i].data : <<i, b>> \in A /\ f[<<i, b>>] = <<shift(i), b>>
  <2>1. ASSUME NEW i \in 1 .. m, NEW b \in DOMAIN s[i].data
        PROVE  <<i, b>> \in A /\ f[<<i, b>>] = <<shift(i), b>> /\ f[<<i, b>>] \in B
    <3>1. <<i, b>> \in A /\ <<shift(i), b>> \in B
      BY <1>5, <1>8
    <3> HIDE DEF A, B
    <3> QED BY <3>1
  <2>2. ASSUME NEW z \in A PROVE f[z] \in B
    <3>1. PICK i \in 1 .. m : \E b \in DOMAIN s[i].data : z = <<i, b>>
      BY <1>5
    <3>2. PICK b \in DOMAIN s[i].data : z = <<i, b>>
      BY <3>1
    <3> HIDE DEF f, A, B
    <3>3. f[<<i, b>>] \in B
      BY <2>1
    <3> QED BY <3>2, <3>3
  <2>3. f = [z \in A |-> f[z]]
    OBVIOUS
  <2> HIDE DEF f, A, B
  <2> QED BY <2>1, <2>2, <2>3
<1> HIDE DEF f, A, B, N
<1>10. ExistsBijection(A, B)
  <2>1. ASSUME NEW y \in A, NEW z \in A, f[y] = f[z] PROVE y = z
    <3>0. PICK i \in 1 .. m, j \in 1 .. m : /\ \E b \in DOMAIN s[i].data : y = <<i, b>>
                                          /\ \E c \in DOMAIN s[j].data : z = <<j, c>>
      BY <1>5
    <3>1. PICK b \in DOMAIN s[i].data : y = <<i, b>>
      BY <3>0
    <3>2. PICK c \in DOMAIN s[j].data : z = <<j, c>>
      BY <3>0
    <3>3. <<shift(i), b>> = <<shift(j), c>>
      BY <1>9, <2>1, <3>1, <3>2
    <3>4. shift(i) = shift(j) /\ b = c
      BY <3>3
    <3>5. i = j
      BY <1>3, <3>4
    <3> QED BY <3>1, <3>2, <3>4, <3>5
  <2>2. ASSUME NEW z \in B PROVE \E y \in A : f[y] = z
    <3>1. PICK i \in 1 .. m : \E b \in DOMAIN s[i].data : z = <<shift(i), b>>
      BY <1>8
    <3>2. PICK b \in DOMAIN s[i].data : z = <<shift(i), b>>
      BY <3>1
    <3>3. <<i, b>> \in A /\ f[<<i, b>>] = <<shift(i), b>>
      BY <1>9
    <3> QED BY <3>2, <3>3
  <2>3. f \in Injection(A, B)
    BY <1>9, <2>1 DEF Injection, IsInjective
  <2>4. f \in Surjection(A, B)
    BY <1>9, <2>2 DEF Surjection
  <2> QED BY <2>3, <2>4 DEF Bijection, ExistsBijection
<1>11. IsFiniteSet(A) /\ Cardinality(A) \in Nat
  BY BytesFinite DEF A
<1>12. IsFiniteSet(B) /\ Cardinality(B) = Cardinality(A)
  BY <1>10, <1>11, FS_Bijection
<1>13. IsFiniteSet(N) /\ Cardinality(N) = Len(e.data) /\ Len(e.data) \in Nat
  <2>1. Len(e.data) \in Nat /\ DOMAIN e.data = 1 .. Len(e.data)
    BY EntryFields
  <2> DEFINE n == Len(e.data)
  <2>2. IsFiniteSet(1 .. n) /\ Cardinality(1 .. n) = n
    <3> HIDE DEF n
    <3>1. n \in Nat
      BY <2>1 DEF n
    <3>2. 1 \in Int /\ n \in Int
      BY <3>1
    <3>3. IsFiniteSet(1 .. n) /\ Cardinality(1 .. n) = IF 1 > n THEN 0 ELSE n - 1 + 1
      BY <3>2, FS_Interval
    <3> QED BY <3>1, <3>3
  <2>3. IsFiniteSet({x}) /\ Cardinality({x}) = 1
    BY FS_Singleton
  <2>4. IsFiniteSet({x} \X (1 .. n)) /\ Cardinality({x} \X (1 .. n)) = 1 * n
    BY <2>2, <2>3, FS_Product
  <2>5. N = {x} \X (1 .. n)
    BY <2>1 DEF N
  <2> QED BY <2>1, <2>4, <2>5
<1>14. BytesOf(t) = B \cup N /\ B \cap N = {}
  <2>1. ASSUME NEW z \in N PROVE z \in BytesOf(t)
    <3>1. PICK b \in DOMAIN e.data : z = <<x, b>>
      BY <1>7
    <3>2. x \in 1 .. m + 1 /\ t[x] = e
      BY <1>2
    <3> QED BY <1>6, <3>1, <3>2
  <2> QED BY <2>1 DEF B
<1>15. Cardinality(B \cup N) = Cardinality(B) + Cardinality(N) - Cardinality(B \cap N)
  BY <1>12, <1>13, FS_Union
<1>16. Cardinality(B \cap N) = 0
  BY <1>14, FS_EmptySet
<1>17. Cardinality(BytesOf(t)) = Cardinality(B \cup N)
  BY <1>14, Zenon
<1>18. Cardinality(BytesOf(t)) = Cardinality(A) + Len(e.data)
  BY <1>11, <1>12, <1>13, <1>15, <1>16, <1>17
<1> QED BY <1>18 DEF A

\* So the total grows by the length of the fragment.
LEMMA HeldInsert ==
    ASSUME NEW held \in Holdings, NEW k \in FragmentKey, NEW e \in Entry, NEW g \in Holdings,
           \A q \in FragmentKey \ {k} : g[q] = held[q],
           NEW x \in 1 .. Len(held[k]) + 1, PutAt(held[k], x, e, g[k])
    PROVE  Cardinality(HeldBytes(g, FragmentKey)) =
              Cardinality(HeldBytes(held, FragmentKey)) + Len(e.data)
<1> DEFINE rest == FragmentKey \ {k}
<1>1. rest \in SUBSET FragmentKey /\ {k} \in SUBSET FragmentKey /\ rest \cap {k} = {} /\ rest \cup {k} = FragmentKey
  OBVIOUS
<1>2. HeldBytes(g, rest) = HeldBytes(held, rest)
  BY HeldSame
<1> HIDE DEF rest
<1>3. /\ Cardinality(HeldBytes(g, rest \cup {k})) =
            Cardinality(HeldBytes(g, rest)) + Cardinality(HeldBytes(g, {k}))
      /\ Cardinality(HeldBytes(held, rest \cup {k})) =
            Cardinality(HeldBytes(held, rest)) + Cardinality(HeldBytes(held, {k}))
  BY <1>1, HeldSplit
<1>4. /\ Cardinality(HeldBytes(g, {k})) = Cardinality(BytesOf(g[k]))
      /\ Cardinality(HeldBytes(held, {k})) = Cardinality(BytesOf(held[k]))
  BY HeldOne
<1>5. held[k] \in Seq(Entry) /\ g[k] \in Seq(Entry)
  BY DEF Holdings
<1>6. Cardinality(BytesOf(g[k])) = Cardinality(BytesOf(held[k])) + Len(e.data)
  BY <1>5, InsertBytes
<1>7. /\ Cardinality(BytesOf(held[k])) \in Nat /\ Cardinality(HeldBytes(held, rest)) \in Nat
      /\ Len(e.data) \in Nat
  BY <1>1, <1>5, BytesFinite, HeldFinite, EntryFields
<1>8. /\ Cardinality(HeldBytes(g, FragmentKey)) =
            Cardinality(HeldBytes(held, rest)) + (Cardinality(BytesOf(held[k])) + Len(e.data))
      /\ Cardinality(HeldBytes(held, FragmentKey)) =
            Cardinality(HeldBytes(held, rest)) + Cardinality(BytesOf(held[k]))
  BY <1>1, <1>2, <1>3, <1>4, <1>6, Zenon
<1> QED BY <1>7, <1>8

-----------------------------------------------------------------------------
(* Completeness.                                                           *)

\* The ends of the entries have a bound.
LEMMA EndBound ==
    ASSUME NEW s \in Seq(Entry)
    PROVE  \E b \in Nat : \A j \in 1 .. Len(s) : End(s[j]) <= b
<1> DEFINE m == Len(s)
           good(n) == \E b \in Nat : \A j \in 1 .. n : End(s[j]) <= b
           Bad == {n \in 0 .. m : ~good(n)}
<1>1. m \in Nat /\ \A j \in 1 .. m : s[j] \in Entry /\ End(s[j]) \in Nat
  BY SeqFacts, EntryFields
<1> HIDE DEF m
<1>2. Bad = {}
  <2> SUFFICES ASSUME Bad # {} PROVE FALSE
    OBVIOUS
  <2>1. Bad \in SUBSET Nat
    BY <1>1
  <2>2. PICK n \in Bad : \A y \in Bad : n <= y
    <3> HIDE DEF Bad
    <3> QED BY <2>1, LeastNat
  <2>3. n \in 0 .. m /\ n \in Nat /\ ~good(n)
    BY <1>1
  <2> HIDE DEF good, Bad
  <2>4. n # 0
    <3>1. \A j \in 1 .. 0 : End(s[j]) <= 0
      OBVIOUS
    <3>2. good(0)
      BY <3>1 DEF good
    <3> QED BY <2>3, <3>2
  <2>5. n - 1 \in 0 .. m /\ n - 1 \in Nat /\ ~(n <= n - 1) /\ n \in 1 .. m
    BY <1>1, <2>3, <2>4
  <2>6. good(n - 1)
    BY <2>2, <2>5 DEF Bad
  <2>7. PICK b \in Nat : \A j \in 1 .. n - 1 : End(s[j]) <= b
    BY <2>6 DEF good
  <2> DEFINE c == IF End(s[n]) <= b THEN b ELSE End(s[n])
  <2>8. c \in Nat /\ b <= c /\ End(s[n]) <= c
    <3>1. End(s[n]) \in Nat
      BY <1>1, <2>5
    <3> QED BY <3>1
  <2> HIDE DEF c
  <2>9. \A j \in 1 .. n : End(s[j]) <= c
    <3> SUFFICES ASSUME NEW j \in 1 .. n PROVE End(s[j]) <= c
      OBVIOUS
    <3>1. j = n \/ j \in 1 .. n - 1
      BY <2>3
    <3>2. j \in 1 .. m /\ End(s[j]) \in Nat
      BY <1>1, <2>3
    <3>3. CASE j = n
      BY <2>8, <3>3
    <3>4. CASE j \in 1 .. n - 1
      <4>1. End(s[j]) <= b
        BY <2>7, <3>4
      <4> QED BY <2>8, <3>2, <4>1
    <3> QED BY <3>1, <3>3, <3>4
  <2>10. good(n)
    BY <2>8, <2>9 DEF good
  <2> QED BY <2>3, <2>10
<1>3. m \in 0 .. m
  BY <1>1
<1>4. good(m)
  BY <1>2, <1>3
<1> QED BY <1>4 DEF m

\* current_end before an entry: the largest end so far.
LEMMA EndBeforeFacts ==
    ASSUME NEW s \in Seq(Entry), NEW i \in 1 .. Len(s) + 1
    PROVE  /\ EndBefore(s, i) \in Nat
           /\ EndBefore(s, i) = 0 \/ \E j \in 1 .. i - 1 : EndBefore(s, i) = End(s[j])
           /\ \A j \in 1 .. i - 1 : End(s[j]) <= EndBefore(s, i)
<1> DEFINE T == {0} \cup {End(s[j]) : j \in 1 .. i - 1}
<1>1. Len(s) \in Nat /\ \A j \in 1 .. Len(s) : s[j] \in Entry /\ End(s[j]) \in Nat
  BY SeqFacts, EntryFields
<1>2. PICK b \in Nat : \A j \in 1 .. Len(s) : End(s[j]) <= b
  BY EndBound
<1>3. \A j \in 1 .. i - 1 : j \in 1 .. Len(s)
  BY <1>1
<1>4. T \in SUBSET (0 .. b) /\ T # {}
  BY <1>1, <1>2, <1>3
<1>5. EndBefore(s, i) = Max(T)
  BY DEF EndBefore
<1>6. Max(T) \in T /\ \A y \in T : y <= Max(T)
  <2> HIDE DEF T
  <2> QED BY <1>4, MaxIs
<1>7. Max(T) \in Nat
  <2> HIDE DEF T
  <2>1. Max(T) \in 0 .. b
    BY <1>4, <1>6
  <2> QED BY <2>1
<1> QED BY <1>5, <1>6, <1>7

\* A complete set holds every byte up to its end.
LEMMA CompleteCovers ==
    ASSUME NEW s \in Seq(Entry), \A i \in DOMAIN s : s[i].offset <= EndBefore(s, i),
           NEW b \in 1 .. EndBefore(s, Len(s) + 1)
    PROVE  \E i \in 1 .. Len(s) : s[i].offset < b /\ b <= End(s[i])
<1> DEFINE m == Len(s)
           I == {i \in 1 .. m : b <= End(s[i])}
<1>1. /\ m \in Nat /\ DOMAIN s = 1 .. m
      /\ \A j \in 1 .. m : s[j] \in Entry /\ End(s[j]) \in Nat /\ s[j].offset \in Nat
  BY SeqFacts, EntryFields
<1>2. m + 1 \in 1 .. m + 1 /\ (m + 1) - 1 = m
  BY <1>1
<1>3. EndBefore(s, m + 1) \in Nat /\ (EndBefore(s, m + 1) = 0 \/ \E j \in 1 .. m : EndBefore(s, m + 1) = End(s[j]))
  BY <1>2, EndBeforeFacts
<1>4. b \in Nat /\ b >= 1 /\ b <= EndBefore(s, m + 1)
  BY <1>3
<1> HIDE DEF m
<1>5. I # {} /\ I \in SUBSET Nat
  BY <1>1, <1>3, <1>4
<1>6. PICK i \in I : \A y \in I : i <= y
  <2> HIDE DEF I
  <2> QED BY <1>5, LeastNat
<1>7. i \in 1 .. m /\ b <= End(s[i]) /\ i \in Nat
  BY <1>1
<1>8. EndBefore(s, i) \in Nat /\ (EndBefore(s, i) = 0 \/ \E j \in 1 .. i - 1 : EndBefore(s, i) = End(s[j]))
  <2>1. i \in 1 .. Len(s) + 1
    BY <1>1, <1>7 DEF m
  <2> QED BY <2>1, EndBeforeFacts
<1>9. EndBefore(s, i) < b
  <2>1. CASE EndBefore(s, i) = 0
    BY <1>4, <2>1
  <2>2. CASE \E j \in 1 .. i - 1 : EndBefore(s, i) = End(s[j])
    <3>1. PICK j \in 1 .. i - 1 : EndBefore(s, i) = End(s[j])
      BY <2>2
    <3>2. j \in 1 .. m /\ ~(i <= j)
      BY <1>1, <1>7
    <3>3. j \notin I
      BY <1>6, <3>2
    <3>4. ~(b <= End(s[j]))
      BY <3>2, <3>3
    <3> QED BY <1>1, <1>4, <3>1, <3>2, <3>4
  <2> QED BY <1>8, <2>1, <2>2
<1>10. s[i].offset <= EndBefore(s, i)
  BY <1>1, <1>7
<1>11. s[i].offset < b
  BY <1>1, <1>4, <1>7, <1>8, <1>9, <1>10
<1> QED BY <1>7, <1>11 DEF m

\* And a sorted set that holds every byte up to the end its final fragment
\* gives, and nothing beyond it, is complete.
LEMMA CoveredComplete ==
    ASSUME NEW s \in Seq(Entry), InOrder(s), \A e \in Range(s) : e.data # <<>>,
           NEW t \in Terminals(s), \A e \in Range(s) : End(e) <= End(t),
           \A b \in 0 .. End(t) - 1 : \E e \in Range(s) : e.offset <= b /\ b < End(e)
    PROVE  Complete(s)
<1> DEFINE m == Len(s)
<1>1. /\ m \in Nat /\ DOMAIN s = 1 .. m
      /\ \A j \in 1 .. m : /\ s[j] \in Entry /\ s[j] \in Range(s)
                           /\ End(s[j]) \in Nat /\ s[j].offset \in Nat /\ s[j].offset < End(s[j])
  <2>1. m \in Nat /\ DOMAIN s = 1 .. m /\ \A j \in 1 .. m : s[j] \in Entry /\ s[j] \in Range(s)
    BY SeqFacts
  <2>2. ASSUME NEW j \in 1 .. m
        PROVE  End(s[j]) \in Nat /\ s[j].offset \in Nat /\ s[j].offset < End(s[j])
    <3>1. /\ s[j].offset \in Nat /\ Len(s[j].data) \in Nat /\ End(s[j]) = s[j].offset + Len(s[j].data)
          /\ s[j].data = <<>> <=> Len(s[j].data) = 0
      BY <2>1, EntryFields
    <3>2. s[j].data # <<>>
      BY <2>1
    <3> QED BY <3>1, <3>2
  <2> QED BY <2>1, <2>2
<1>2. \A e \in Range(s) : \E j \in 1 .. m : s[j] = e
  BY SeqFacts
<1>3. t \in Range(s) /\ End(t) \in Nat
  BY <1>1, <1>2 DEF Terminals
<1>4. \A i, j \in 1 .. m : i < j => s[i].offset <= s[j].offset
  BY <1>1 DEF InOrder
<1> HIDE DEF m
<1>5. ASSUME NEW i \in 1 .. m PROVE s[i].offset <= EndBefore(s, i)
  <2> SUFFICES ASSUME ~(s[i].offset <= EndBefore(s, i)) PROVE FALSE
    OBVIOUS
  <2> DEFINE b == EndBefore(s, i)
  <2>1. b \in Nat /\ \A j \in 1 .. i - 1 : End(s[j]) <= b
    <3>1. i \in 1 .. Len(s) + 1
      BY <1>1 DEF m
    <3> QED BY <3>1, EndBeforeFacts
  <2> HIDE DEF b
  <2>2. b < s[i].offset
    BY <1>1, <2>1 DEF b
  <2>3. s[i].offset < End(s[i]) /\ End(s[i]) <= End(t)
    BY <1>1
  <2>4. b \in 0 .. End(t) - 1
    BY <1>1, <1>3, <2>1, <2>2, <2>3
  <2>5. PICK e \in Range(s) : e.offset <= b /\ b < End(e)
    BY <2>4
  <2>6. PICK j \in 1 .. m : s[j] = e
    BY <1>2
  <2>7. s[j].offset <= b /\ b < End(s[j])
    BY <2>5, <2>6
  <2>8. CASE j < i
    <3>1. j \in 1 .. i - 1
      BY <1>1, <2>8
    <3>2. End(s[j]) <= b
      BY <2>1, <3>1
    <3> QED BY <1>1, <2>1, <2>7, <3>2
  <2>9. CASE j = i
    BY <1>1, <2>1, <2>2, <2>7, <2>9
  <2>10. CASE i < j
    <3>1. s[i].offset <= s[j].offset
      BY <1>4, <2>10
    <3> QED BY <1>1, <2>1, <2>2, <2>7, <3>1
  <2> QED BY <1>1, <2>8, <2>9, <2>10
<1>6. End(t) = EndBefore(s, Len(s) + 1)
  <2>1. m + 1 \in 1 .. m + 1 /\ (m + 1) - 1 = m
    BY <1>1
  <2> DEFINE b == EndBefore(s, m + 1)
  <2>2. /\ b \in Nat /\ (b = 0 \/ \E j \in 1 .. m : b = End(s[j]))
        /\ \A j \in 1 .. m : End(s[j]) <= b
    BY <2>1, EndBeforeFacts DEF m
  <2> HIDE DEF b
  <2>3. End(t) <= b
    BY <1>2, <1>3, <2>2
  <2>4. b <= End(t)
    BY <1>1, <1>3, <2>2
  <2> QED BY <1>3, <2>2, <2>3, <2>4 DEF b, m
<1> QED BY <1>1, <1>5, <1>6 DEF Complete

-----------------------------------------------------------------------------
(* What is sent.                                                           *)

\* A fragment that is a piece of a datagram, at its place.
SliceOf(e, d) ==
    /\ e.data # <<>> /\ End(e) <= Len(d)
    /\ \A i \in 1 .. Len(e.data) : e.data[i] = d[e.offset + i]
    /\ ~e.mf => End(e) = Len(d)

\* The pieces of a payload by their number.
Piece(chunk, d, n) ==
    LET start == n * chunk
        end == Min({start + chunk, Len(d)})
    IN  [offset |-> start, data |-> SubSeq(d, start + 1, end), mf |-> end < Len(d)]
Numbers(chunk, d) == {n \in 0 .. Len(d) - 1 : n * chunk < Len(d)}

\* The n-th piece begins at n chunks and has a full chunk unless it is the last.
LEMMA PieceFacts ==
    ASSUME NEW d \in Seq(Nat), NEW chunk \in Nat, chunk > 0, NEW n \in Numbers(chunk, d)
    PROVE  LET p == Piece(chunk, d, n)
           IN  /\ n \in Nat /\ n * chunk \in Nat /\ n * chunk < Len(d)
               /\ p \in Entry /\ SliceOf(p, d) /\ p.offset = n * chunk
               /\ Len(p.data) <= chunk /\ (p.mf => Len(p.data) = chunk)
               /\ End(p) = IF n * chunk + chunk <= Len(d) THEN n * chunk + chunk ELSE Len(d)
               /\ p.mf <=> End(p) < Len(d)
<1> DEFINE L == Len(d)
           start == n * chunk
           end == Min({start + chunk, L})
           data == SubSeq(d, start + 1, end)
           p == Piece(chunk, d, n)
<1>1. L \in Nat /\ DOMAIN d = 1 .. L /\ \A i \in 1 .. L : d[i] \in Nat
  BY SeqFacts
<1>2. n \in 0 .. L - 1 /\ start < L
  BY DEF Numbers
<1>3. n \in Nat
  BY <1>1, <1>2
<1>4. start \in Nat
  BY <1>3
<1>5. p = [offset |-> start, data |-> data, mf |-> end < L]
  BY DEF Piece
<1> HIDE DEF start, L
<1>6. end \in Nat /\ end = IF start + chunk <= L THEN start + chunk ELSE L
  <2> DEFINE a == start + chunk
  <2>1. a \in Nat
    BY <1>4
  <2> HIDE DEF a
  <2>2. Min({a, L}) \in Nat /\ Min({a, L}) = IF a <= L THEN a ELSE L
    BY <1>1, <2>1, MaxMinTwo
  <2> QED BY <2>2 DEF a
<1> HIDE DEF end
<1>7. start < end /\ end <= L /\ end - start <= chunk /\ (end < L => end - start = chunk)
  BY <1>1, <1>2, <1>4, <1>6
<1>8. /\ data \in Seq(Nat) /\ Len(data) = end - start
      /\ \A i \in 1 .. end - start : data[i] = d[start + i]
  <2>1. start + 1 \in Int /\ end \in Int /\ \A i \in start + 1 .. end : d[i] \in Nat
    BY <1>1, <1>4, <1>6, <1>7
  <2>2. /\ SubSeq(d, start + 1, end) \in Seq(Nat)
        /\ Len(SubSeq(d, start + 1, end)) = IF start + 1 <= end THEN end - (start + 1) + 1 ELSE 0
        /\ \A i \in 1 .. end - (start + 1) + 1 : SubSeq(d, start + 1, end)[i] = d[(start + 1) + i - 1]
    BY <2>1, SubSeqProperties
  <2>3. start + 1 <= end /\ end - (start + 1) + 1 = end - start
    <3>1. start \in Int /\ end \in Int /\ start < end
      BY <1>4, <1>6, <1>7
    <3> QED BY <3>1
  <2>4. \A i \in 1 .. end - start : (start + 1) + i - 1 = start + i
    BY <1>4, <1>6
  <2> QED BY <2>2, <2>3, <2>4
<1> HIDE DEF data, p
<1>9. p.offset = start /\ p.data = data /\ p.mf = (end < L)
  BY <1>5
<1>10. p \in Entry
  BY <1>4, <1>5, <1>8 DEF Entry
<1>11. End(p) = end
  <2>1. start \in Int /\ end \in Int
    BY <1>4, <1>6
  <2>2. End(p) = start + (end - start)
    BY <1>8, <1>9 DEF End
  <2> QED BY <2>1, <2>2
<1>12. p.data # <<>>
  <2>1. Len(p.data) # 0
    BY <1>4, <1>6, <1>7, <1>8, <1>9
  <2> QED BY <1>10, <2>1, EntryFields
<1>13. \A i \in 1 .. Len(p.data) : p.data[i] = d[p.offset + i]
  BY <1>8, <1>9
<1>14. ~p.mf => End(p) = L
  <2>1. end \in Int /\ L \in Int /\ end <= L
    BY <1>1, <1>6, <1>7
  <2>2. ~(end < L) => end = L
    BY <2>1
  <2> QED BY <1>9, <1>11, <2>2
<1>15. SliceOf(p, d)
  BY <1>7, <1>11, <1>12, <1>13, <1>14 DEF SliceOf, L
<1>16. Len(p.data) <= chunk /\ (p.mf => Len(p.data) = chunk) /\ (p.mf <=> End(p) < L)
  BY <1>7, <1>8, <1>9, <1>11
<1> QED BY <1>2, <1>3, <1>4, <1>6, <1>9, <1>10, <1>11, <1>15, <1>16 DEF L, start, p

\* The pieces of a payload are the numbered ones.
LEMMA PiecesNumbered ==
    ASSUME NEW chunk \in Nat, NEW d
    PROVE  PiecesOf(chunk, d) = IF chunk = 0 THEN {} ELSE {Piece(chunk, d, n) : n \in Numbers(chunk, d)}
BY DEF PiecesOf, Piece, Numbers

\* What room an MTU leaves, in whole units.
Room(mtu) == ((mtu - Header) \div Unit) * Unit

\* Whole units that fit the MTU, and at least one if one fits.
LEMMA RoomFacts ==
    ASSUME NEW mtu \in Nat, mtu > Header
    PROVE  /\ Room(mtu) \in Nat /\ Room(mtu) % Unit = 0 /\ Header + Room(mtu) <= mtu
           /\ mtu >= Header + Unit => Room(mtu) > 0
<1>1. Unit \in Nat /\ Unit > 0 /\ Header \in Nat
  BY ReassemblyAssumption
<1> DEFINE a == mtu - Header
           q == a \div Unit
<1>2. a \in Nat
  BY <1>1
<1>3. Room(mtu) = q * Unit
  BY DEF Room
<1> HIDE DEF a
<1>4. q \in Nat /\ a = Unit * q + (a % Unit) /\ a % Unit \in Nat /\ a % Unit < Unit
  BY <1>1, <1>2, DivideFacts
<1>5. (q * Unit) % Unit = 0
  <2> HIDE DEF q
  <2> QED BY <1>1, <1>4, MultipleFacts
<1> HIDE DEF q
<1>6. q * Unit \in Nat /\ Unit * q = q * Unit
  BY <1>1, <1>4
<1>7. q * Unit <= a
  BY <1>2, <1>4, <1>6
<1>8. a >= Unit => q * Unit > 0
  BY <1>1, <1>2, <1>4, <1>6
<1> QED BY <1>1, <1>2, <1>3, <1>5, <1>6, <1>7, <1>8 DEF a

\* What fragment_payload emits.
LEMMA PayloadPieces ==
    ASSUME NEW mtu \in Nat, NEW d
    PROVE  FragmentPayload(mtu, d) =
              IF mtu <= Header THEN {}
              ELSE IF Room(mtu) = 0 THEN {}
              ELSE {Piece(Room(mtu), d, n) : n \in Numbers(Room(mtu), d)}
<1>1. Header \in Nat
  BY ReassemblyAssumption
<1>2. CASE mtu <= Header
  BY <1>2 DEF FragmentPayload
<1>3. CASE ~(mtu <= Header)
  <2>1. Room(mtu) \in Nat
    BY <1>1, <1>3, RoomFacts
  <2>2. FragmentPayload(mtu, d) = PiecesOf(Room(mtu), d)
    BY <1>3 DEF FragmentPayload, Room
  <2> QED BY <1>3, <2>1, <2>2, PiecesNumbered
<1> QED BY <1>2, <1>3

\* Every fragment fits its MTU, is aligned unless it is the last, and is a slice.
LEMMA PayloadFacts ==
    ASSUME NEW d \in Seq(Nat), NEW mtu \in Nat, NEW p \in FragmentPayload(mtu, d)
    PROVE  /\ p \in Entry /\ SliceOf(p, d) /\ Header + Len(p.data) <= mtu
           /\ p.mf => Len(p.data) % Unit = 0
<1>1. Header \in Nat
  BY ReassemblyAssumption
<1>2. ~(mtu <= Header) /\ Room(mtu) # 0
  BY PayloadPieces
<1>3. Room(mtu) \in Nat /\ Room(mtu) % Unit = 0 /\ Header + Room(mtu) <= mtu
  BY <1>1, <1>2, RoomFacts
<1>4. PICK n \in Numbers(Room(mtu), d) : p = Piece(Room(mtu), d, n)
  BY <1>2, PayloadPieces
<1>5. /\ p \in Entry /\ SliceOf(p, d) /\ Len(p.data) <= Room(mtu)
      /\ p.mf => Len(p.data) = Room(mtu)
  BY <1>2, <1>3, <1>4, PieceFacts
<1>6. Len(p.data) \in Nat
  BY <1>5, EntryFields
<1> QED BY <1>1, <1>3, <1>5, <1>6

\* The datagrams are sequences of bytes.
LEMMA SentFacts ==
    ASSUME NEW k \in FragmentKey, NEW d \in Datagrams[k]
    PROVE  d \in Seq(Nat) /\ Len(d) \in Nat /\ Len(d) >= 1 /\ Len(d) <= MaxPayload
<1>1. d \in Seq(Nat) /\ Len(d) \in 1 .. MaxPayload /\ MaxPayload \in Nat
  BY ReassemblyAssumption
<1> QED BY <1>1

\* What the checks of add_fragment demand of a fragment by itself.
Acceptable(f) ==
    /\ End(f) <= MaxPayload /\ f.data # <<>>
    /\ f.mf => Len(f.data) % Unit = 0

\* None of the malformed fragments passes the checks.
LEMMA MalformedRefused ==
    ASSUME NEW f \in Malformed
    PROVE  f \in Entry /\ ~Acceptable(f)
<1>1. Unit \in Nat /\ Unit > 1 /\ MaxPayload \in Nat
  BY ReassemblyAssumption
<1>2. CASE f = [offset |-> 0, data |-> <<>>, mf |-> TRUE]
  <2>1. f.data = <<>> /\ f \in Entry
    BY <1>2 DEF Entry
  <2> QED BY <2>1 DEF Acceptable
<1>3. CASE f = [offset |-> 0, data |-> [i \in 1 .. Unit + 1 |-> 0], mf |-> TRUE]
  <2> DEFINE s == [i \in 1 .. Unit + 1 |-> 0]
  <2>1. s \in Seq(Nat) /\ Len(s) = Unit + 1
    BY <1>1
  <2> HIDE DEF s
  <2>2. f \in Entry /\ f.data = s /\ f.mf = TRUE
    BY <1>3, <2>1 DEF Entry, s
  <2>3. (Unit + 1) % Unit = 1
    BY <1>1
  <2>4. Len(f.data) % Unit # 0
    BY <2>1, <2>2, <2>3
  <2> QED BY <2>2, <2>4 DEF Acceptable
<1>4. CASE f = [offset |-> (MaxPayload \div Unit) * Unit, data |-> [i \in 1 .. Unit |-> 0], mf |-> FALSE]
  <2> DEFINE s == [i \in 1 .. Unit |-> 0]
             q == MaxPayload \div Unit
  <2>1. s \in Seq(Nat) /\ Len(s) = Unit
    BY <1>1
  <2> HIDE DEF s
  <2>2. q \in Nat /\ MaxPayload = Unit * q + (MaxPayload % Unit) /\ MaxPayload % Unit \in Nat /\ MaxPayload % Unit < Unit
    BY <1>1, DivideFacts
  <2> HIDE DEF q
  <2>3. q * Unit \in Nat /\ Unit * q = q * Unit
    BY <1>1, <2>2
  <2>4. f \in Entry /\ f.data = s /\ f.offset = q * Unit
    BY <1>4, <2>1, <2>3 DEF Entry, s, q
  <2>5. End(f) > MaxPayload
    BY <1>1, <2>1, <2>2, <2>3, <2>4 DEF End
  <2> QED BY <1>1, <2>4, <2>5, EntryFields DEF Acceptable
<1> QED BY <1>2, <1>3, <1>4 DEF Malformed

\* A fragment that passes the checks is a slice of a datagram of its key.
LEMMA AcceptedIsSlice ==
    ASSUME NEW k \in FragmentKey, NEW f \in Fragments[k]
    PROVE  /\ f \in Entry
           /\ Acceptable(f) => \E d \in Datagrams[k] : SliceOf(f, d)
<1>1. Fragments[k] = (UNION {FragmentPayload(mtu, d) : mtu \in Mtus, d \in Datagrams[k]}) \cup Malformed
  BY DEF Fragments
<1>2. CASE f \in Malformed
  BY <1>2, MalformedRefused
<1>3. CASE f \notin Malformed
  <2>1. PICK mtu \in Mtus, d \in Datagrams[k] : f \in FragmentPayload(mtu, d)
    BY <1>1, <1>3
  <2>2. mtu \in Nat /\ d \in Seq(Nat)
    BY ReassemblyAssumption, SentFacts
  <2> QED BY <2>1, <2>2, PayloadFacts
<1> QED BY <1>2, <1>3

-----------------------------------------------------------------------------
(* What is held under a key.                                               *)

\* Two fragments agree about every byte both have.
SameBytes(e, f) ==
    \A b \in Max({f.offset, e.offset}) .. Min({End(f), End(e)}) - 1 :
        f.data[b - f.offset + 1] = e.data[b - e.offset + 1]

Agree(s) ==
    \A e, f \in Range(s) :
        /\ ~e.mf => End(f) <= End(e)
        /\ SameBytes(e, f)

Incomplete(s) ==
    ~\E t \in Terminals(s) :
        \A b \in 0 .. End(t) - 1 : \E e \in Range(s) : e.offset <= b /\ b < End(e)

Sliced(s, k) == \A e \in Range(s) : \E d \in Datagrams[k] : SliceOf(e, d)

\* A set that is sorted, free of contradictions, made of slices and incomplete.
HeldOK(s, k) ==
    s \in Seq(Entry) /\ InOrder(s) /\ Agree(s) /\ Sliced(s, k) /\ Incomplete(s)

\* No set.
LEMMA NothingHeld ==
    ASSUME NEW k
    PROVE  HeldOK(<<>>, k)
<1>1. <<>> \in Seq(Entry) /\ DOMAIN <<>> = {}
  OBVIOUS
<1>2. Range(<<>>) = {}
  BY <1>1 DEF Range
<1> QED BY <1>1, <1>2 DEF HeldOK, InOrder, Agree, Sliced, Incomplete, Terminals

\* Agreement about bytes is symmetric, and holds of a fragment with itself.
LEMMA SameBytesFacts ==
    ASSUME NEW e \in Entry, NEW f \in Entry
    PROVE  SameBytes(e, e) /\ (SameBytes(e, f) => SameBytes(f, e))
<1>1. e.offset \in Nat /\ f.offset \in Nat /\ End(e) \in Nat /\ End(f) \in Nat
  BY EntryFields
<1>2. {f.offset, e.offset} = {e.offset, f.offset} /\ {End(f), End(e)} = {End(e), End(f)}
  OBVIOUS
<1>3. SameBytes(e, e)
  BY DEF SameBytes
<1>4. SameBytes(e, f) => SameBytes(f, e)
  BY <1>2 DEF SameBytes
<1> QED BY <1>3, <1>4

\* What a fragment that does not contradict a set says about it.
LEMMA NoContradiction ==
    ASSUME NEW s \in Seq(Entry), NEW f \in Entry
    PROVE  ~Contradicts(s, f) <=>
              \A e \in Range(s) : /\ ~e.mf => (End(f) <= End(e) /\ (~f.mf => End(f) = End(e)))
                                  /\ ~f.mf => End(e) <= End(f)
                                  /\ SameBytes(e, f)
<1>1. ASSUME NEW e \in Range(s) PROVE e \in Entry /\ End(e) \in Nat
  BY SeqFacts, EntryFields
<1>2. End(f) \in Nat
  BY EntryFields
<1>3. Contradicts(s, f) <=>
         \E e \in Range(s) :
            \/ ~e.mf /\ (End(f) > End(e) \/ (~f.mf /\ End(f) # End(e)))
            \/ ~f.mf /\ End(e) > End(f)
            \/ ~SameBytes(e, f)
  BY Zenon DEF Contradicts, Terminals, SameBytes
<1>4. \A e \in Range(s) : /\ End(f) > End(e) <=> ~(End(f) <= End(e))
                          /\ End(e) > End(f) <=> ~(End(e) <= End(f))
  BY <1>1, <1>2
<1> QED BY <1>3, <1>4, Zenon

\* A fragment that does not contradict a set can join it.
LEMMA AgreeInsert ==
    ASSUME NEW s \in Seq(Entry), Agree(s), NEW f \in Entry, ~Contradicts(s, f),
           NEW t, \A y : y \in Range(t) <=> y \in Range(s) \/ y = f
    PROVE  Agree(t)
<1>1. \A e \in Range(s) : /\ ~e.mf => (End(f) <= End(e) /\ (~f.mf => End(f) = End(e)))
                          /\ ~f.mf => End(e) <= End(f)
                          /\ SameBytes(e, f)
  BY NoContradiction
<1>2. \A e \in Range(s) : e \in Entry
  BY SeqFacts
<1>3. End(f) \in Nat
  BY EntryFields
<1> SUFFICES ASSUME NEW a \in Range(t), NEW b \in Range(t)
             PROVE  (~a.mf => End(b) <= End(a)) /\ SameBytes(a, b)
  BY DEF Agree
<1>4. CASE a \in Range(s) /\ b \in Range(s)
  BY <1>4 DEF Agree
<1>5. CASE a \in Range(s) /\ b = f
  BY <1>1, <1>5
<1>6. CASE a = f /\ b \in Range(s)
  <2>1. SameBytes(b, f) /\ b \in Entry /\ (~f.mf => End(b) <= End(f))
    BY <1>1, <1>2, <1>6
  <2>2. SameBytes(f, b)
    BY <2>1, SameBytesFacts
  <2> QED BY <1>6, <2>1, <2>2
<1>7. CASE a = f /\ b = f
  <2>1. SameBytes(f, f) /\ End(f) <= End(f)
    BY <1>3, SameBytesFacts
  <2> QED BY <1>7, <2>1
<1> QED BY <1>4, <1>5, <1>6, <1>7

\* What is in a set after an accepted fragment has been inserted.
LEMMA InsertHeld ==
    ASSUME NEW k \in FragmentKey, NEW s, HeldOK(s, k), NEW f \in Entry, ~Contradicts(s, f),
           \E d \in Datagrams[k] : SliceOf(f, d)
    PROVE  LET t == Insert(s, f)
           IN  /\ t \in Seq(Entry) /\ InOrder(t) /\ Agree(t) /\ Sliced(t, k) /\ t # <<>>
               /\ \E x \in 1 .. Len(s) + 1 : PutAt(s, x, f, t)
               /\ ~Complete(t) => HeldOK(t, k)
<1> DEFINE t == Insert(s, f)
<1>1. s \in Seq(Entry) /\ InOrder(s) /\ Agree(s) /\ Sliced(s, k)
  BY DEF HeldOK
<1>2. t \in Seq(Entry) /\ InOrder(t) /\ \E x \in 1 .. Len(s) + 1 : PutAt(s, x, f, t)
  BY <1>1, InsertKeeps
<1> HIDE DEF t
<1>3. \A y : y \in Range(t) <=> y \in Range(s) \/ y = f
  <2>1. PICK x \in 1 .. Len(s) + 1 : PutAt(s, x, f, t)
    BY <1>2
  <2> QED BY <1>1, <2>1, PutRange
<1>4. Agree(t)
  BY <1>1, <1>3, AgreeInsert
<1>5. Sliced(t, k)
  BY <1>1, <1>3 DEF Sliced
<1>6. t # <<>>
  <2>1. f \in Range(t)
    BY <1>3
  <2>2. DOMAIN <<>> = {}
    OBVIOUS
  <2> QED BY <2>1, <2>2 DEF Range
<1>7. ASSUME ~Complete(t) PROVE Incomplete(t)
  <2> SUFFICES ASSUME NEW z \in Terminals(t),
                      \A b \in 0 .. End(z) - 1 : \E e \in Range(t) : e.offset <= b /\ b < End(e)
               PROVE  FALSE
    BY DEF Incomplete
  <2>1. z \in Range(t) /\ ~z.mf
    BY DEF Terminals
  <2>2. \A e \in Range(t) : End(e) <= End(z)
    BY <1>4, <2>1 DEF Agree
  <2>3. \A e \in Range(t) : e.data # <<>>
    BY <1>5 DEF Sliced, SliceOf
  <2>4. Complete(t)
    BY <1>2, <2>2, <2>3, CoveredComplete
  <2> QED BY <1>7, <2>4
<1> QED BY <1>2, <1>4, <1>5, <1>6, <1>7 DEF HeldOK, t

\* What may be handed out under a key: AssembledIsSent, for one payload.
Sound(p, k) ==
    /\ Cardinality(Datagrams[k]) = 1 => p \in Datagrams[k]
    /\ \E d \in Datagrams[k] : Len(d) = Len(p)
    /\ \A i \in DOMAIN p : \E d \in Datagrams[k] : i \in DOMAIN d /\ d[i] = p[i]

\* A complete set has the length its final fragment gives.
LEMMA CompleteLength ==
    ASSUME NEW t \in Seq(Entry), Complete(t)
    PROVE  /\ EndBefore(t, Len(t) + 1) \in Nat
           /\ \E e \in Range(t) : ~e.mf /\ End(e) = EndBefore(t, Len(t) + 1)
           /\ \A i \in DOMAIN t : t[i].offset <= EndBefore(t, i)
<1>1. Len(t) \in Nat
  BY SeqFacts
<1>2. Len(t) + 1 \in 1 .. Len(t) + 1
  BY <1>1
<1>3. EndBefore(t, Len(t) + 1) \in Nat
  BY <1>2, EndBeforeFacts
<1> QED BY <1>3 DEF Complete, Terminals

\* Every byte that is put together comes from an entry that has it.
LEMMA AssembleBytes ==
    ASSUME NEW t \in Seq(Entry), Complete(t)
    PROVE  LET p == Assemble(t)
               L == EndBefore(t, Len(t) + 1)
           IN  /\ p \in Seq(Nat) /\ Len(p) = L /\ DOMAIN p = 1 .. L
               /\ \A b \in 1 .. L : \E e \in Range(t) :
                     /\ e.offset < b /\ b <= End(e) /\ b - e.offset \in 1 .. Len(e.data)
                     /\ p[b] = e.data[b - e.offset]
<1> DEFINE m == Len(t)
           L == EndBefore(t, Len(t) + 1)
           covering(b) == {i \in DOMAIN t : t[i].offset < b /\ b <= End(t[i])}
           p == Assemble(t)
<1>1. L \in Nat /\ \A i \in DOMAIN t : t[i].offset <= EndBefore(t, i)
  BY CompleteLength
<1>2. m \in Nat /\ DOMAIN t = 1 .. m /\ \A i \in 1 .. m : t[i] \in Entry /\ t[i] \in Range(t)
  BY SeqFacts
<1>3. p = [b \in 1 .. L |-> IF covering(b) = {} THEN 0
                            ELSE t[Max(covering(b))].data[b - t[Max(covering(b))].offset]]
  BY DEF Assemble
<1>4. ASSUME NEW b \in 1 .. L
      PROVE  /\ covering(b) # {} /\ Max(covering(b)) \in 1 .. m
             /\ t[Max(covering(b))].offset < b /\ b <= End(t[Max(covering(b))])
  <2>1. \E i \in 1 .. m : t[i].offset < b /\ b <= End(t[i])
    BY <1>1, CompleteCovers
  <2>2. covering(b) # {} /\ covering(b) \in SUBSET (1 .. m)
    BY <1>2, <2>1
  <2>3. covering(b) \in SUBSET (0 .. m)
    <3> HIDE DEF covering
    <3>1. 1 .. m \subseteq 0 .. m
      BY <1>2
    <3> QED BY <2>2, <3>1
  <2>4. Max(covering(b)) \in covering(b)
    <3> HIDE DEF covering
    <3> QED BY <1>2, <2>2, <2>3, MaxIs
  <2> QED BY <1>2, <2>2, <2>4
<1> HIDE DEF covering, L, p
<1>5. ASSUME NEW b \in 1 .. L
      PROVE  \E e \in Range(t) : /\ e.offset < b /\ b <= End(e) /\ b - e.offset \in 1 .. Len(e.data)
                                 /\ p[b] = e.data[b - e.offset] /\ p[b] \in Nat
  <2> DEFINE e == t[Max(covering(b))]
  <2>1. e \in Entry /\ e \in Range(t) /\ e.offset < b /\ b <= End(e) /\ covering(b) # {}
    BY <1>2, <1>4
  <2>2. p[b] = e.data[b - e.offset]
    BY <1>3, <2>1
  <2> HIDE DEF e
  <2>3. /\ e.offset \in Nat /\ Len(e.data) \in Nat /\ End(e) = e.offset + Len(e.data)
        /\ \A i \in 1 .. Len(e.data) : e.data[i] \in Nat
    BY <2>1, EntryFields
  <2>4. b \in Nat
    BY <1>1
  <2>5. b - e.offset \in 1 .. Len(e.data)
    BY <2>1, <2>3, <2>4
  <2> QED BY <2>1, <2>2, <2>3, <2>5
<1>6. \A b \in 1 .. L : p[b] \in Nat
  BY <1>5
<1>7. p = [b \in 1 .. L |-> p[b]]
  BY <1>3
<1>8. p \in Seq(Nat) /\ Len(p) = L /\ DOMAIN p = 1 .. L
  BY <1>1, <1>6, <1>7
<1> QED BY <1>5, <1>8 DEF p, L

\* What add_fragment returns was sent.
LEMMA AssembledSound ==
    ASSUME NEW k \in FragmentKey, NEW t \in Seq(Entry), Complete(t), Sliced(t, k)
    PROVE  Assemble(t) \in Seq(Nat) /\ Sound(Assemble(t), k)
<1> DEFINE p == Assemble(t)
           L == EndBefore(t, Len(t) + 1)
<1>1. /\ p \in Seq(Nat) /\ Len(p) = L /\ DOMAIN p = 1 .. L
      /\ \A b \in 1 .. L : \E e \in Range(t) :
            /\ e.offset < b /\ b <= End(e) /\ b - e.offset \in 1 .. Len(e.data)
            /\ p[b] = e.data[b - e.offset]
  BY AssembleBytes
<1>2. L \in Nat /\ \E e \in Range(t) : ~e.mf /\ End(e) = L
  BY CompleteLength
<1>3. \A e \in Range(t) : e \in Entry
  BY SeqFacts
<1> HIDE DEF p, L
<1>4. \E d \in Datagrams[k] : Len(d) = Len(p)
  <2>1. PICK e \in Range(t) : ~e.mf /\ End(e) = L
    BY <1>2
  <2>2. PICK d \in Datagrams[k] : SliceOf(e, d)
    BY DEF Sliced
  <2>3. Len(d) = L
    BY <2>1, <2>2 DEF SliceOf
  <2> QED BY <1>1, <2>3
<1>5. ASSUME NEW b \in 1 .. L PROVE \E d \in Datagrams[k] : b \in DOMAIN d /\ d[b] = p[b]
  <2>1. PICK e \in Range(t) : /\ e.offset < b /\ b <= End(e) /\ b - e.offset \in 1 .. Len(e.data)
                              /\ p[b] = e.data[b - e.offset]
    BY <1>1
  <2>2. PICK d \in Datagrams[k] : SliceOf(e, d)
    BY DEF Sliced
  <2>3. e.offset \in Nat /\ End(e) \in Nat
    BY <1>3, EntryFields
  <2>4. b \in Nat /\ b >= 1 /\ e.offset + (b - e.offset) = b
    BY <1>2, <2>3
  <2>5. d[b] = p[b]
    <3>1. e.data[b - e.offset] = d[e.offset + (b - e.offset)]
      BY <2>1, <2>2 DEF SliceOf
    <3> QED BY <2>1, <2>4, <3>1
  <2>6. Len(d) \in Nat /\ DOMAIN d = 1 .. Len(d)
    BY SentFacts, SeqFacts
  <2>7. End(e) <= Len(d)
    BY <2>2 DEF SliceOf
  <2>8. b \in DOMAIN d
    BY <2>1, <2>3, <2>4, <2>6, <2>7
  <2> QED BY <2>5, <2>8
<1>6. ASSUME Cardinality(Datagrams[k]) = 1 PROVE p \in Datagrams[k]
  <2>1. IsFiniteSet(Datagrams[k])
    BY ReassemblyAssumption
  <2>2. PICK d : Datagrams[k] = {d}
    BY <1>6, <2>1, FS_Singleton
  <2>3. d \in Seq(Nat) /\ Len(d) = L
    BY <1>1, <1>4, <2>2, SentFacts
  <2>4. \A b \in 1 .. L : d[b] = p[b]
    BY <1>5, <2>2
  <2>5. d = p
    BY <1>1, <2>3, <2>4, SeqEqual
  <2> QED BY <2>2, <2>5
<1>7. Sound(p, k)
  BY <1>1, <1>4, <1>5, <1>6 DEF Sound
<1> QED BY <1>1, <1>7 DEF p

-----------------------------------------------------------------------------
(* The buffer.                                                             *)

\* The inductive invariant of the buffer: what is held is sound under each key,
\* lru lists the keys that have a set, once each, and the count is exact.
BufferInv ==
    /\ sets \in Holdings /\ \A k \in FragmentKey : HeldOK(sets[k], k)
    /\ age \in [FragmentKey -> 0 .. Timeout]
    /\ lru \in Seq(FragmentKey) /\ Distinct(lru)
    /\ \A k : k \in Range(lru) <=> k \in FragmentKey /\ sets[k] # <<>>
    /\ Len(lru) <= MaxDatagrams
    /\ bufferedBytes = BytesIn(FragmentKey) /\ bufferedBytes <= MaxBytes

\* And of what was returned last.
ResultInv ==
    /\ result \in [key : FragmentKey \cup {"none"}, payload : Seq(Nat)]
    /\ result.payload # <<>> => result.key \in FragmentKey /\ Sound(result.payload, result.key)

\* Returning nothing.
LEMMA NothingReturned ==
    ASSUME NEW q \in FragmentKey \cup {"none"}, result' = Nothing(q)
    PROVE  ResultInv' /\ result'.key = q
<1>1. <<>> \in Seq(Nat)
  OBVIOUS
<1> QED BY <1>1 DEF ResultInv, Nothing

\* A list does not grow when keys are taken out, and shrinks if one was there.
LEMMA WithoutShorter ==
    ASSUME NEW S, NEW order \in Seq(S), NEW some, NEW more, some \subseteq more
    PROVE  /\ Len(Without(order, more)) \in Nat /\ Len(Without(order, some)) <= Len(order)
           /\ Len(Without(order, more)) <= Len(Without(order, some))
           /\ (\E x \in Range(order) : x \in more /\ x \notin some) =>
                 Len(Without(order, more)) < Len(Without(order, some))
<1> DEFINE D == DOMAIN order
           A == {i \in D : order[i] \notin some}
           B == {i \in D : order[i] \notin more}
<1>1. /\ IsFiniteSet(A) /\ Len(Without(order, some)) = Cardinality(A)
      /\ IsFiniteSet(B) /\ Len(Without(order, more)) = Cardinality(B)
  <2>1. IsFiniteSet(A) /\ Len(Without(order, some)) = Cardinality(A)
    BY WithoutFacts
  <2>2. IsFiniteSet(B) /\ Len(Without(order, more)) = Cardinality(B)
    BY WithoutFacts
  <2> QED BY <2>1, <2>2
<1>2. A \in SUBSET D /\ B \in SUBSET A
  OBVIOUS
<1>3. Len(order) \in Nat /\ D = 1 .. Len(order)
  BY SeqFacts
<1>4. IsFiniteSet(D) /\ Cardinality(D) = Len(order)
  <2>1. 1 \in Int /\ Len(order) \in Int
    BY <1>3
  <2>2. IsFiniteSet(1 .. Len(order)) /\ Cardinality(1 .. Len(order)) = IF 1 > Len(order) THEN 0 ELSE Len(order) - 1 + 1
    BY <2>1, FS_Interval
  <2>3. (IF 1 > Len(order) THEN 0 ELSE Len(order) - 1 + 1) = Len(order)
    BY <1>3
  <2> QED BY <1>3, <2>2, <2>3
<1>5. (\E x \in Range(order) : x \in more /\ x \notin some) => A # B
  BY DEF Range
<1> HIDE DEF A, B, D
<1>6. Cardinality(A) \in Nat /\ Cardinality(B) \in Nat
  BY <1>1, FS_CardinalityType
<1>7. Cardinality(A) <= Cardinality(D)
  BY <1>2, <1>4, FS_Subset
<1>8. Cardinality(B) <= Cardinality(A) /\ (Cardinality(A) = Cardinality(B) => A = B)
  BY <1>1, <1>2, FS_Subset
<1> QED BY <1>1, <1>3, <1>4, <1>5, <1>6, <1>7, <1>8

\* The constants are numbers.
LEMMA Limits ==
    /\ MaxDatagrams \in Nat /\ MaxDatagrams >= 1 /\ MaxBytes \in Nat /\ MaxPayload \in Nat
    /\ Timeout \in Nat /\ Timeout >= 1
BY ReassemblyAssumption

\* remove_buffer keeps the books, whichever sets go.
LEMMA DropKeeps ==
    ASSUME BufferInv, NEW gone \in SUBSET FragmentKey, DropSets(gone), Forget(gone)
    PROVE  BufferInv'
<1>1. /\ sets' = [k \in FragmentKey |-> IF k \in gone THEN <<>> ELSE sets[k]]
      /\ lru' = Without(lru, gone) /\ bufferedBytes' = bufferedBytes - BytesIn(gone)
      /\ age' = [k \in FragmentKey |-> IF k \in gone THEN 0 ELSE age[k]]
  BY DEF DropSets, Forget
<1>2. sets \in Holdings /\ lru \in Seq(FragmentKey)
  BY DEF BufferInv
<1>3. /\ sets' \in Holdings
      /\ Cardinality(HeldBytes(sets', FragmentKey)) =
            Cardinality(HeldBytes(sets, FragmentKey)) - Cardinality(HeldBytes(sets, gone))
      /\ Cardinality(HeldBytes(sets', FragmentKey)) \in Nat
  BY <1>1, <1>2, HeldDrop
<1>4. Cardinality(HeldBytes(sets, FragmentKey)) \in Nat /\ Cardinality(HeldBytes(sets, gone)) \in Nat
  BY <1>2, HeldFinite
<1>5. bufferedBytes' = BytesIn(FragmentKey)' /\ bufferedBytes' <= MaxBytes
  <2>1. bufferedBytes = Cardinality(HeldBytes(sets, FragmentKey)) /\ bufferedBytes <= MaxBytes
    BY DEF BufferInv, BytesIn
  <2>2. bufferedBytes' = bufferedBytes - Cardinality(HeldBytes(sets, gone))
    BY <1>1 DEF BytesIn
  <2>3. bufferedBytes' = Cardinality(HeldBytes(sets', FragmentKey)) /\ bufferedBytes' <= MaxBytes
    BY <1>3, <1>4, <2>1, <2>2, Limits
  <2> QED BY <2>3 DEF BytesIn
<1>6. \A k \in FragmentKey : HeldOK(sets'[k], k)
  <2> SUFFICES ASSUME NEW k \in FragmentKey PROVE HeldOK(sets'[k], k)
    OBVIOUS
  <2>1. HeldOK(sets[k], k) /\ HeldOK(<<>>, k)
    BY NothingHeld DEF BufferInv
  <2>2. sets'[k] = sets[k] \/ sets'[k] = <<>>
    BY <1>1
  <2> QED BY <2>1, <2>2
<1>7. age' \in [FragmentKey -> 0 .. Timeout]
  <2>1. age \in [FragmentKey -> 0 .. Timeout] /\ 0 \in 0 .. Timeout
    BY Limits DEF BufferInv
  <2> QED BY <1>1, <2>1
<1>8. /\ lru' \in Seq(FragmentKey) /\ Distinct(lru')
      /\ \A x : x \in Range(lru') <=> x \in Range(lru) /\ x \notin gone
  BY <1>1, <1>2, WithoutFacts DEF BufferInv
<1>9. \A k : k \in Range(lru') <=> k \in FragmentKey /\ sets'[k] # <<>>
  <2>1. \A k : k \in Range(lru) <=> k \in FragmentKey /\ sets[k] # <<>>
    BY DEF BufferInv
  <2>2. \A k \in FragmentKey : sets'[k] # <<>> <=> sets[k] # <<>> /\ k \notin gone
    BY <1>1
  <2> QED BY <1>8, <2>1, <2>2
<1>10. Len(lru') <= MaxDatagrams
  <2>1. Len(lru') \in Nat /\ Len(lru') <= Len(lru)
    BY <1>1, <1>2, WithoutShorter
  <2>2. Len(lru) \in Nat /\ Len(lru) <= MaxDatagrams
    BY <1>2, SeqFacts DEF BufferInv
  <2> QED BY <2>1, <2>2, Limits
<1> QED BY <1>3, <1>5, <1>6, <1>7, <1>8, <1>9, <1>10 DEF BufferInv

\* The stale sets are sets.
LEMMA StaleKeys == Stale \in SUBSET FragmentKey
BY DEF Stale

\* expire_stale.
LEMMA ExpireKeeps ==
    ASSUME BufferInv, ExpireStale
    PROVE  BufferInv' /\ ResultInv'
<1>1. DropSets(Stale) /\ Forget(Stale) /\ result' = Nothing("none")
  BY DEF ExpireStale
<1> QED BY <1>1, StaleKeys, DropKeeps, NothingReturned

\* add_fragment, refusing.
LEMMA RefuseKeeps ==
    ASSUME BufferInv, NEW k \in FragmentKey, NEW f, Refuse(k, f)
    PROVE  BufferInv' /\ ResultInv'
<1>1. PICK gone \in {Stale, Stale \cup {k}} : DropSets(gone) /\ Forget(gone) /\ result' = Nothing(k)
  BY DEF Refuse
<1>2. gone \in SUBSET FragmentKey
  BY StaleKeys
<1> QED BY <1>1, <1>2, DropKeeps, NothingReturned

\* The second loop of make_room_for: it takes a first part of the others, and
\* when it says that there is room, there is.
LEMMA ForBytesFacts ==
    ASSUME NEW k \in FragmentKey, NEW order \in Seq(FragmentKey), NEW bytes, NEW n
    PROVE  LET r == ForBytes(k, order, bytes, n)
               others == Evictable(k, order)
           IN  \E m \in 0 .. Len(others) :
                 LET oldest == {others[j] : j \in 1 .. m}
                 IN  \/ r.room /\ r.gone = oldest /\ bytes - BytesIn(oldest) + n <= MaxBytes
                     \/ ~r.room /\ r.gone = oldest \cup {k} /\ m = Len(others)
<1> DEFINE others == Evictable(k, order)
           L == Len(others)
           oldest(i) == {others[j] : j \in 1 .. i}
           fits(i) == bytes - BytesIn(oldest(i)) + n <= MaxBytes
           enough == {i \in 0 .. L : fits(i)}
           r == ForBytes(k, order, bytes, n)
<1>1. r = IF enough = {} THEN [room |-> FALSE, gone |-> oldest(L) \cup {k}]
          ELSE [room |-> TRUE, gone |-> oldest(Min(enough))]
  BY DEF ForBytes
<1>2. L \in Nat
  <2>1. others \in Seq(FragmentKey)
    BY WithoutFacts DEF Evictable
  <2> QED BY <2>1, SeqFacts
<1> HIDE DEF r, L, oldest, others
<1>3. CASE enough = {}
  <2>1. ~r.room /\ r.gone = oldest(L) \cup {k}
    BY <1>1, <1>3
  <2>2. L \in 0 .. L
    BY <1>2
  <2> QED BY <2>1, <2>2 DEF oldest, r, L, others
<1>4. CASE enough # {}
  <2>1. enough \in SUBSET Nat
    BY <1>2
  <2>2. Min(enough) \in enough
    <3> HIDE DEF enough
    <3> QED BY <1>4, <2>1, MinIs
  <2> DEFINE m == Min(enough)
  <2>3. r.room /\ r.gone = oldest(m)
    <3> HIDE DEF enough
    <3> QED BY <1>1, <1>4
  <2>4. m \in 0 .. L /\ fits(m)
    <3> HIDE DEF m
    <3>1. m \in enough
      BY <2>2 DEF m
    <3> QED BY <3>1
  <2> HIDE DEF m, enough
  <2> QED BY <2>3, <2>4 DEF oldest, r, L, others
<1> QED BY <1>3, <1>4

\* The names Accept gives to what it computes.
Held(k) == IF k \in Stale THEN <<>> ELSE sets[k]
Fresh == Without(lru, Stale)
Counted(k) == ForCount(k, Fresh)
Rest(k) == Without(Fresh, Counted(k))
Free(k, f) == ForBytes(k, Rest(k), bufferedBytes - BytesIn(Stale \cup Counted(k)), Len(f.data))
Gone(k, f) == (Stale \cup Counted(k)) \cup Free(k, f).gone

\* Accept, with these names.
LEMMA AcceptCases ==
    ASSUME NEW k, NEW f, Accept(k, f)
    PROVE  LET entries == Insert(Held(k), f)
               gone == Gone(k, f)
           IN  /\ Acceptable(f) /\ ~Contradicts(Held(k), f)
               /\ \/ /\ ~Free(k, f).room /\ DropSets(gone) /\ Forget(gone) /\ result' = Nothing(k)
                  \/ /\ Free(k, f).room /\ Complete(entries)
                     /\ DropSets(gone \cup {k}) /\ Forget(gone \cup {k})
                     /\ result' = [key |-> k, payload |-> Assemble(entries)]
                  \/ /\ Free(k, f).room /\ ~Complete(entries)
                     /\ sets' = [q \in FragmentKey |-> IF q = k THEN entries
                                                       ELSE IF q \in gone THEN <<>> ELSE sets[q]]
                     /\ age' = [q \in FragmentKey |-> IF q \in gone \cup {k} THEN 0 ELSE age[q]]
                     /\ lru' = Append(Without(lru, gone \cup {k}), k)
                     /\ bufferedBytes' = bufferedBytes - BytesIn(gone) + Len(f.data)
                     /\ result' = Nothing(k)
<1> DEFINE entries == Insert(Held(k), f)
           gone == Gone(k, f)
           done == Complete(entries)
<1>1. /\ Acceptable(f) /\ ~Contradicts(Held(k), f)
      /\ IF ~Free(k, f).room
         THEN DropSets(gone) /\ Forget(gone) /\ result' = Nothing(k)
         ELSE /\ sets' = [q \in FragmentKey |-> IF q = k THEN IF done THEN <<>> ELSE entries
                                                ELSE IF q \in gone THEN <<>> ELSE sets[q]]
              /\ age' = [q \in FragmentKey |-> IF q \in gone \cup {k} THEN 0 ELSE age[q]]
              /\ lru' = IF done THEN Without(lru, gone \cup {k}) ELSE Append(Without(lru, gone \cup {k}), k)
              /\ bufferedBytes' = IF done THEN bufferedBytes - BytesIn(gone \cup {k})
                                  ELSE bufferedBytes - BytesIn(gone) + Len(f.data)
              /\ result' = IF done THEN [key |-> k, payload |-> Assemble(entries)] ELSE Nothing(k)
  BY Zenon DEF Accept, Acceptable, Held, Fresh, Counted, Rest, Free, Gone
<1> HIDE DEF entries, gone
<1>2. CASE ~Free(k, f).room
  BY <1>1, <1>2 DEF entries, gone
<1>3. CASE Free(k, f).room /\ done
  <2>1. sets' = [q \in FragmentKey |-> IF q \in gone \cup {k} THEN <<>> ELSE sets[q]]
    BY <1>1, <1>3
  <2>2. DropSets(gone \cup {k}) /\ Forget(gone \cup {k})
    BY <1>1, <1>3, <2>1 DEF DropSets, Forget
  <2> QED BY <1>1, <1>3, <2>2 DEF entries, gone
<1>4. CASE Free(k, f).room /\ ~done
  BY <1>1, <1>4 DEF entries, gone
<1> QED BY <1>2, <1>3, <1>4

\* The lists of keys that Accept goes through, and what goes.
LEMMA GoneFacts ==
    ASSUME BufferInv, NEW k \in FragmentKey, NEW f
    PROVE  /\ Fresh \in Seq(FragmentKey) /\ Distinct(Fresh)
           /\ \A x : x \in Range(Fresh) <=> x \in Range(lru) /\ x \notin Stale
           /\ Counted(k) \subseteq Range(Fresh) /\ k \notin Counted(k)
           /\ Rest(k) \in Seq(FragmentKey) /\ Distinct(Rest(k))
           /\ \A x : x \in Range(Rest(k)) <=> x \in Range(Fresh) /\ x \notin Counted(k)
           /\ Evictable(k, Rest(k)) \in Seq(FragmentKey) /\ Distinct(Evictable(k, Rest(k)))
           /\ \A x : x \in Range(Evictable(k, Rest(k))) <=> x \in Range(Rest(k)) /\ x # k
           /\ Stale \cup Counted(k) \in SUBSET FragmentKey
<1>1. lru \in Seq(FragmentKey) /\ Distinct(lru)
  BY DEF BufferInv
<1>2. /\ Fresh \in Seq(FragmentKey) /\ Distinct(Fresh)
      /\ \A x : x \in Range(Fresh) <=> x \in Range(lru) /\ x \notin Stale
  BY <1>1, WithoutFacts DEF Fresh
<1>3. Counted(k) \subseteq Range(Fresh) /\ k \notin Counted(k)
  <2>1. CASE k \notin Range(Fresh) /\ Len(Fresh) >= MaxDatagrams
    <3>1. Len(Fresh) \in Nat /\ Len(Fresh) >= 1
      BY <1>2, <2>1, SeqFacts, Limits
    <3>2. 1 \in 1 .. Len(Fresh) /\ Head(Fresh) = Fresh[1]
      BY <1>2, <3>1
    <3>3. Head(Fresh) \in Range(Fresh)
      BY <1>2, <3>2, SeqFacts
    <3>4. Counted(k) = {Head(Fresh)}
      BY <2>1 DEF Counted, ForCount
    <3> QED BY <2>1, <3>3, <3>4
  <2>2. CASE ~(k \notin Range(Fresh) /\ Len(Fresh) >= MaxDatagrams)
    <3>1. Counted(k) = {}
      BY <2>2 DEF Counted, ForCount
    <3> QED BY <3>1
  <2> QED BY <2>1, <2>2
<1>4. /\ Rest(k) \in Seq(FragmentKey) /\ Distinct(Rest(k))
      /\ \A x : x \in Range(Rest(k)) <=> x \in Range(Fresh) /\ x \notin Counted(k)
  BY <1>2, WithoutFacts DEF Rest
<1>5. /\ Evictable(k, Rest(k)) \in Seq(FragmentKey) /\ Distinct(Evictable(k, Rest(k)))
      /\ \A x : x \in Range(Evictable(k, Rest(k))) <=> x \in Range(Rest(k)) /\ x \notin {k}
  BY <1>4, WithoutFacts DEF Evictable
<1>6. Stale \cup Counted(k) \in SUBSET FragmentKey
  <2>1. Range(Fresh) \subseteq FragmentKey
    BY <1>2, SeqFacts
  <2> QED BY <1>3, <2>1, StaleKeys
<1> QED BY <1>2, <1>3, <1>4, <1>5, <1>6

\* The oldest of the others.
Oldest(k, m) == {Evictable(k, Rest(k))[j] : j \in 1 .. m}

\* What Accept removes: the stale sets, the one that makes room for a set, and
\* a first part of the others, disjoint from both.
LEMMA FreeFacts ==
    ASSUME BufferInv, NEW k \in FragmentKey, NEW f
    PROVE  \E m \in 0 .. Len(Evictable(k, Rest(k))) :
              /\ Oldest(k, m) \in SUBSET FragmentKey /\ k \notin Oldest(k, m)
              /\ Oldest(k, m) \cap (Stale \cup Counted(k)) = {}
              /\ \/ /\ Free(k, f).room /\ Free(k, f).gone = Oldest(k, m)
                    /\ bufferedBytes - BytesIn(Stale \cup Counted(k)) - BytesIn(Oldest(k, m)) + Len(f.data) <= MaxBytes
                 \/ ~Free(k, f).room /\ Free(k, f).gone = Oldest(k, m) \cup {k} /\ m = Len(Evictable(k, Rest(k)))
<1> DEFINE others == Evictable(k, Rest(k))
<1>1. /\ Rest(k) \in Seq(FragmentKey) /\ others \in Seq(FragmentKey)
      /\ \A x : x \in Range(others) <=> x \in Range(Rest(k)) /\ x # k
      /\ \A x : x \in Range(Rest(k)) <=> x \in Range(Fresh) /\ x \notin Counted(k)
      /\ \A x : x \in Range(Fresh) <=> x \in Range(lru) /\ x \notin Stale
  BY GoneFacts
<1>2. PICK m \in 0 .. Len(others) :
         \/ Free(k, f).room /\ Free(k, f).gone = Oldest(k, m)
            /\ bufferedBytes - BytesIn(Stale \cup Counted(k)) - BytesIn(Oldest(k, m)) + Len(f.data) <= MaxBytes
         \/ ~Free(k, f).room /\ Free(k, f).gone = Oldest(k, m) \cup {k} /\ m = Len(others)
  <2> DEFINE bytes == bufferedBytes - BytesIn(Stale \cup Counted(k))
             n == Len(f.data)
  <2>1. \E m \in 0 .. Len(others) :
           LET oldest == {others[j] : j \in 1 .. m}
               r == ForBytes(k, Rest(k), bytes, n)
           IN  \/ r.room /\ r.gone = oldest /\ bytes - BytesIn(oldest) + n <= MaxBytes
               \/ ~r.room /\ r.gone = oldest \cup {k} /\ m = Len(others)
    <3> HIDE DEF bytes, n
    <3> QED BY <1>1, ForBytesFacts
  <2> QED BY <2>1, Zenon DEF Free, Oldest
<1>3. Len(others) \in Nat /\ \A j \in 1 .. Len(others) : others[j] \in Range(others) /\ others[j] \in FragmentKey
  BY <1>1, SeqFacts
<1>4. \A j \in 1 .. m : j \in 1 .. Len(others)
  BY <1>3
<1>5. \A x \in Oldest(k, m) : x \in Range(others) /\ x \in FragmentKey
  BY <1>3, <1>4 DEF Oldest
<1>6. \A x \in Oldest(k, m) : x # k /\ x \notin Stale /\ x \notin Counted(k)
  BY <1>1, <1>5
<1> QED BY <1>2, <1>5, <1>6

\* The set a fragment joins is sound.
LEMMA HeldFacts ==
    ASSUME BufferInv, NEW k \in FragmentKey
    PROVE  HeldOK(Held(k), k) /\ Held(k) \in Seq(Entry)
<1>1. HeldOK(Held(k), k)
  BY NothingHeld DEF BufferInv, Held
<1> QED BY <1>1 DEF HeldOK

\* The fragment is stored, and the sets that had to go have gone.
Stored(k, f, entries, gone) ==
    /\ sets' = [q \in FragmentKey |-> IF q = k THEN entries ELSE IF q \in gone THEN <<>> ELSE sets[q]]
    /\ age' = [q \in FragmentKey |-> IF q \in gone \cup {k} THEN 0 ELSE age[q]]
    /\ lru' = Append(Without(lru, gone \cup {k}), k)
    /\ bufferedBytes' = bufferedBytes - BytesIn(gone) + Len(f.data)

\* add_fragment, when there is room and the datagram is still incomplete.
LEMMA StoreKeeps ==
    ASSUME BufferInv, NEW k \in FragmentKey, NEW f \in Entry,
           NEW entries, HeldOK(entries, k), entries # <<>>,
           NEW x \in 1 .. Len(Held(k)) + 1, PutAt(Held(k), x, f, entries),
           NEW gone, gone = Gone(k, f), Free(k, f).room, Stored(k, f, entries, gone)
    PROVE  BufferInv'
<1> DEFINE A == Stale \cup Counted(k)
           g == [q \in FragmentKey |-> IF q \in gone THEN <<>> ELSE sets[q]]
           kept == Without(lru, gone \cup {k})
<1>1. sets \in Holdings /\ lru \in Seq(FragmentKey) /\ Distinct(lru)
  BY DEF BufferInv
<1>2. PICK m \in 0 .. Len(Evictable(k, Rest(k))) :
         /\ Oldest(k, m) \in SUBSET FragmentKey /\ k \notin Oldest(k, m)
         /\ Oldest(k, m) \cap A = {} /\ Free(k, f).gone = Oldest(k, m)
         /\ bufferedBytes - BytesIn(A) - BytesIn(Oldest(k, m)) + Len(f.data) <= MaxBytes
  BY FreeFacts
<1>3. A \in SUBSET FragmentKey /\ k \notin Counted(k) /\ Counted(k) \subseteq Range(Fresh)
  BY GoneFacts
<1>4. gone = A \cup Oldest(k, m) /\ gone \in SUBSET FragmentKey
  BY <1>2, <1>3 DEF Gone
<1>5. k \in gone <=> k \in Stale
  BY <1>2, <1>3, <1>4
<1> HIDE DEF A
<1>6. /\ g \in Holdings
      /\ Cardinality(HeldBytes(g, FragmentKey)) =
            Cardinality(HeldBytes(sets, FragmentKey)) - Cardinality(HeldBytes(sets, gone))
      /\ Cardinality(HeldBytes(g, FragmentKey)) \in Nat
  BY <1>1, <1>4, HeldDrop
<1>7. g[k] = Held(k)
  BY <1>5 DEF Held
<1>8. entries \in Seq(Entry)
  BY DEF HeldOK
<1>9. sets' \in Holdings /\ sets'[k] = entries /\ \A q \in FragmentKey \ {k} : sets'[q] = g[q]
  <2>1. \A q \in FragmentKey : sets'[q] = IF q = k THEN entries ELSE g[q]
    BY DEF Stored
  <2>2. sets' \in Holdings
    <3>1. \A q \in FragmentKey : g[q] \in Seq(Entry)
      <4> HIDE DEF g
      <4> QED BY <1>6 DEF Holdings
    <3>2. sets' = [q \in FragmentKey |-> sets'[q]]
      BY DEF Stored
    <3> QED BY <1>8, <2>1, <3>1, <3>2 DEF Holdings
  <2> QED BY <2>1, <2>2
<1> HIDE DEF g
<1>10. Cardinality(HeldBytes(sets', FragmentKey)) =
          Cardinality(HeldBytes(g, FragmentKey)) + Len(f.data)
  <2>1. PutAt(g[k], x, f, sets'[k]) /\ x \in 1 .. Len(g[k]) + 1
    BY <1>7, <1>9
  <2> QED BY <1>6, <1>9, <2>1, HeldInsert
<1>11. Cardinality(HeldBytes(sets, A \cup Oldest(k, m))) =
          Cardinality(HeldBytes(sets, A)) + Cardinality(HeldBytes(sets, Oldest(k, m)))
  BY <1>1, <1>2, <1>3, HeldSplit
<1>12. /\ Cardinality(HeldBytes(sets, FragmentKey)) \in Nat /\ Cardinality(HeldBytes(sets, A)) \in Nat
       /\ Cardinality(HeldBytes(sets, Oldest(k, m))) \in Nat /\ Len(f.data) \in Nat
  BY <1>1, <1>2, <1>3, HeldFinite, EntryFields
<1>13. bufferedBytes' = BytesIn(FragmentKey)' /\ bufferedBytes' <= MaxBytes
  <2>1. bufferedBytes = Cardinality(HeldBytes(sets, FragmentKey))
    BY DEF BufferInv, BytesIn
  <2>2. bufferedBytes' = bufferedBytes - Cardinality(HeldBytes(sets, gone)) + Len(f.data)
    BY DEF BytesIn, Stored
  <2>3. Cardinality(HeldBytes(sets, gone)) =
          Cardinality(HeldBytes(sets, A)) + Cardinality(HeldBytes(sets, Oldest(k, m)))
    BY <1>4, <1>11
  <2>4. bufferedBytes - Cardinality(HeldBytes(sets, A)) - Cardinality(HeldBytes(sets, Oldest(k, m)))
          + Len(f.data) <= MaxBytes
    BY <1>2 DEF BytesIn
  <2>5. bufferedBytes' = Cardinality(HeldBytes(sets', FragmentKey))
    BY <1>6, <1>10, <1>12, <2>1, <2>2
  <2>6. bufferedBytes' <= MaxBytes
    BY <1>12, <2>1, <2>2, <2>3, <2>4, Limits
  <2> QED BY <2>5, <2>6 DEF BytesIn
<1>14. \A q \in FragmentKey : HeldOK(sets'[q], q)
  <2> SUFFICES ASSUME NEW q \in FragmentKey PROVE HeldOK(sets'[q], q)
    OBVIOUS
  <2>1. HeldOK(sets[q], q) /\ HeldOK(<<>>, q)
    BY NothingHeld DEF BufferInv
  <2>2. CASE q = k
    BY <1>9, <2>2
  <2>3. CASE q # k
    <3>1. sets'[q] = sets[q] \/ sets'[q] = <<>>
      BY <2>3 DEF Stored
    <3> QED BY <2>1, <3>1
  <2> QED BY <2>2, <2>3
<1>15. age' \in [FragmentKey -> 0 .. Timeout]
  <2>1. age \in [FragmentKey -> 0 .. Timeout] /\ 0 \in 0 .. Timeout
    BY Limits DEF BufferInv
  <2> QED BY <2>1 DEF Stored
<1>16. /\ kept \in Seq(FragmentKey) /\ Distinct(kept)
       /\ \A y : y \in Range(kept) <=> y \in Range(lru) /\ y \notin gone \cup {k}
  <2> DEFINE G == gone \cup {k}
  <2> HIDE DEF G
  <2>1. /\ Without(lru, G) \in Seq(FragmentKey) /\ Distinct(Without(lru, G))
        /\ \A y : y \in Range(Without(lru, G)) <=> y \in Range(lru) /\ y \notin G
    BY <1>1, WithoutFacts
  <2> QED BY <2>1 DEF G
<1>17. /\ Len(kept) \in Nat /\ DOMAIN kept = 1 .. Len(kept)
       /\ \A y : y \in Range(kept) <=> \E i \in 1 .. Len(kept) : kept[i] = y
  <2> HIDE DEF kept
  <2> QED BY <1>16, SeqFacts
<1>18. Len(kept) + 1 <= MaxDatagrams
  <2>1. Stale \subseteq gone \cup {k} /\ {} \subseteq Stale
    BY <1>4 DEF A
  <2>2. /\ Len(kept) <= Len(Fresh) /\ Len(Fresh) <= Len(lru)
        /\ (\E y \in Range(lru) : y \in gone \cup {k} /\ y \notin Stale) => Len(kept) < Len(Fresh)
    BY <1>1, <2>1, WithoutShorter DEF Fresh
  <2>3. Len(lru) \in Nat /\ Len(Fresh) \in Nat /\ Len(lru) <= MaxDatagrams /\ MaxDatagrams \in Nat
    BY <1>1, SeqFacts, GoneFacts, Limits DEF BufferInv
  <2>4. \A y : y \in Range(Fresh) <=> y \in Range(lru) /\ y \notin Stale
    BY GoneFacts
  <2> HIDE DEF kept
  <2>5. CASE k \in Range(Fresh)
    <3>1. k \in Range(lru) /\ k \in gone \cup {k} /\ k \notin Stale
      BY <2>4, <2>5
    <3>2. Len(kept) < Len(Fresh)
      BY <2>2, <3>1
    <3> QED BY <1>17, <2>2, <2>3, <3>2
  <2>6. CASE k \notin Range(Fresh) /\ Len(Fresh) >= MaxDatagrams
    <3>1. Counted(k) # {}
      BY <2>6 DEF Counted, ForCount
    <3>2. PICK y \in Counted(k) : TRUE
      BY <3>1
    <3>3. y \in Range(lru) /\ y \in gone \cup {k} /\ y \notin Stale
      BY <1>3, <1>4, <2>4 DEF A
    <3>4. Len(kept) < Len(Fresh)
      BY <2>2, <3>3
    <3> QED BY <1>17, <2>2, <2>3, <3>4
  <2>7. CASE ~(Len(Fresh) >= MaxDatagrams)
    BY <1>17, <2>2, <2>3, <2>7
  <2> QED BY <2>5, <2>6, <2>7
<1> HIDE DEF kept
<1>19. /\ lru' \in Seq(FragmentKey) /\ Len(lru') = Len(kept) + 1
       /\ \A i \in 1 .. Len(kept) : lru'[i] = kept[i]
       /\ lru'[Len(kept) + 1] = k
  <2>1. lru' = Append(kept, k)
    BY DEF Stored, kept
  <2> QED BY <1>16, <1>17, <2>1, AppendProperties
<1>20. DOMAIN lru' = 1 .. Len(kept) + 1 /\ k \notin Range(kept)
  BY <1>16, <1>19, SeqFacts
<1>21. Distinct(lru')
  <2> SUFFICES ASSUME NEW i \in 1 .. Len(kept) + 1, NEW j \in 1 .. Len(kept) + 1, lru'[i] = lru'[j], i # j
               PROVE  FALSE
    BY <1>20 DEF Distinct
  <2>1. CASE i \in 1 .. Len(kept) /\ j \in 1 .. Len(kept)
    BY <1>16, <1>17, <1>19, <2>1 DEF Distinct
  <2>2. CASE i \in 1 .. Len(kept) /\ j = Len(kept) + 1
    BY <1>17, <1>19, <1>20, <2>2
  <2>3. CASE i = Len(kept) + 1 /\ j \in 1 .. Len(kept)
    BY <1>17, <1>19, <1>20, <2>3
  <2> QED BY <1>17, <2>1, <2>2, <2>3
<1>22. \A y : y \in Range(lru') <=> y \in FragmentKey /\ sets'[y] # <<>>
  <2>1. \A y : y \in Range(lru') <=> y \in Range(kept) \/ y = k
    <3>1. \A y : y \in Range(lru') <=> \E i \in 1 .. Len(kept) + 1 : lru'[i] = y
      BY <1>20 DEF Range
    <3>2. \A i : i \in 1 .. Len(kept) + 1 <=> i \in 1 .. Len(kept) \/ i = Len(kept) + 1
      BY <1>17
    <3>3. \A y \in Range(kept) : y \in Range(lru')
      BY <1>17, <1>19, <3>1, <3>2
    <3>4. k \in Range(lru')
      BY <1>19, <3>1, <3>2
    <3>5. \A y \in Range(lru') : y \in Range(kept) \/ y = k
      BY <1>17, <1>19, <3>1, <3>2
    <3> QED BY <3>3, <3>4, <3>5
  <2>2. \A y : y \in Range(lru) <=> y \in FragmentKey /\ sets[y] # <<>>
    BY DEF BufferInv
  <2>3. \A y \in FragmentKey : y # k => (sets'[y] # <<>> <=> sets[y] # <<>> /\ y \notin gone)
    BY DEF Stored
  <2>4. sets'[k] # <<>>
    BY <1>9
  <2> QED BY <1>16, <2>1, <2>2, <2>3, <2>4
<1>23. Len(lru') <= MaxDatagrams
  BY <1>18, <1>19
<1> QED BY <1>9, <1>13, <1>14, <1>15, <1>19, <1>21, <1>22, <1>23 DEF BufferInv

\* add_fragment, accepting.
LEMMA AcceptKeeps ==
    ASSUME BufferInv, NEW k \in FragmentKey, NEW f \in Fragments[k], Accept(k, f)
    PROVE  BufferInv' /\ ResultInv'
<1> DEFINE entries == Insert(Held(k), f)
           gone == Gone(k, f)
<1>1. /\ Acceptable(f) /\ ~Contradicts(Held(k), f)
      /\ \/ /\ ~Free(k, f).room /\ DropSets(gone) /\ Forget(gone) /\ result' = Nothing(k)
         \/ /\ Free(k, f).room /\ Complete(entries)
            /\ DropSets(gone \cup {k}) /\ Forget(gone \cup {k})
            /\ result' = [key |-> k, payload |-> Assemble(entries)]
         \/ /\ Free(k, f).room /\ ~Complete(entries)
            /\ sets' = [q \in FragmentKey |-> IF q = k THEN entries
                                              ELSE IF q \in gone THEN <<>> ELSE sets[q]]
            /\ age' = [q \in FragmentKey |-> IF q \in gone \cup {k} THEN 0 ELSE age[q]]
            /\ lru' = Append(Without(lru, gone \cup {k}), k)
            /\ bufferedBytes' = bufferedBytes - BytesIn(gone) + Len(f.data)
            /\ result' = Nothing(k)
  BY AcceptCases
<1>2. f \in Entry /\ \E d \in Datagrams[k] : SliceOf(f, d)
  BY <1>1, AcceptedIsSlice
<1>3. HeldOK(Held(k), k)
  BY HeldFacts
<1>4. /\ entries \in Seq(Entry) /\ Sliced(entries, k) /\ entries # <<>>
      /\ \E x \in 1 .. Len(Held(k)) + 1 : PutAt(Held(k), x, f, entries)
      /\ ~Complete(entries) => HeldOK(entries, k)
  BY <1>1, <1>2, <1>3, InsertHeld
<1>5. gone \in SUBSET FragmentKey /\ gone \cup {k} \in SUBSET FragmentKey
  <2>1. Stale \cup Counted(k) \in SUBSET FragmentKey
    BY GoneFacts
  <2>2. PICK m \in 0 .. Len(Evictable(k, Rest(k))) :
           /\ Oldest(k, m) \in SUBSET FragmentKey
           /\ Free(k, f).gone = Oldest(k, m) \/ Free(k, f).gone = Oldest(k, m) \cup {k}
    BY FreeFacts, Zenon
  <2> QED BY <2>1, <2>2 DEF Gone
<1> HIDE DEF entries, gone
<1>6. CASE ~Free(k, f).room /\ DropSets(gone) /\ Forget(gone) /\ result' = Nothing(k)
  BY <1>5, <1>6, DropKeeps, NothingReturned
<1>7. CASE /\ Free(k, f).room /\ Complete(entries)
           /\ DropSets(gone \cup {k}) /\ Forget(gone \cup {k})
           /\ result' = [key |-> k, payload |-> Assemble(entries)]
  <2>1. BufferInv'
    BY <1>5, <1>7, DropKeeps
  <2>2. Assemble(entries) \in Seq(Nat) /\ Sound(Assemble(entries), k)
    BY <1>4, <1>7, AssembledSound
  <2>3. ResultInv'
    BY <1>7, <2>2 DEF ResultInv
  <2> QED BY <2>1, <2>3
<1>8. CASE /\ Free(k, f).room /\ ~Complete(entries)
           /\ sets' = [q \in FragmentKey |-> IF q = k THEN entries
                                             ELSE IF q \in gone THEN <<>> ELSE sets[q]]
           /\ age' = [q \in FragmentKey |-> IF q \in gone \cup {k} THEN 0 ELSE age[q]]
           /\ lru' = Append(Without(lru, gone \cup {k}), k)
           /\ bufferedBytes' = bufferedBytes - BytesIn(gone) + Len(f.data)
           /\ result' = Nothing(k)
  <2>1. PICK x \in 1 .. Len(Held(k)) + 1 : PutAt(Held(k), x, f, entries)
    BY <1>4
  <2>2. HeldOK(entries, k) /\ entries # <<>> /\ gone = Gone(k, f)
    BY <1>4, <1>8 DEF gone
  <2>3. Stored(k, f, entries, gone)
    BY <1>8 DEF Stored
  <2>4. BufferInv'
    BY <1>2, <1>8, <2>1, <2>2, <2>3, StoreKeeps
  <2>5. ResultInv'
    BY <1>8, NothingReturned
  <2> QED BY <2>4, <2>5
<1> QED BY <1>1, <1>6, <1>7, <1>8

\* The clock.
LEMMA TickKeeps ==
    ASSUME BufferInv, ResultInv, Tick
    PROVE  BufferInv' /\ ResultInv'
<1>1. /\ sets' = sets /\ lru' = lru /\ bufferedBytes' = bufferedBytes /\ result' = result
      /\ age' = [k \in FragmentKey |-> IF sets[k] # <<>> /\ age[k] < Timeout THEN age[k] + 1 ELSE age[k]]
  BY DEF Tick
<1>2. age' \in [FragmentKey -> 0 .. Timeout]
  <2>1. age \in [FragmentKey -> 0 .. Timeout]
    BY DEF BufferInv
  <2>2. ASSUME NEW k \in FragmentKey PROVE age'[k] \in 0 .. Timeout
    <3>1. age[k] \in 0 .. Timeout
      BY <2>1
    <3>2. age'[k] = age[k] \/ (age[k] < Timeout /\ age'[k] = age[k] + 1)
      BY <1>1
    <3> QED BY <3>1, <3>2, Limits
  <2> QED BY <1>1, <2>2
<1>3. BytesIn(FragmentKey)' = BytesIn(FragmentKey)
  BY <1>1 DEF BytesIn
<1> QED BY <1>1, <1>2, <1>3 DEF BufferInv, ResultInv

\* The empty buffer.
LEMMA InvInit == Init => BufferInv /\ ResultInv
<1> SUFFICES ASSUME Init PROVE BufferInv /\ ResultInv
  OBVIOUS
<1>1. /\ sets = [k \in FragmentKey |-> <<>>] /\ age = [k \in FragmentKey |-> 0]
      /\ lru = <<>> /\ bufferedBytes = 0 /\ result = Nothing("none")
  BY DEF Init
<1>2. <<>> \in Seq(Entry) /\ <<>> \in Seq(FragmentKey) /\ <<>> \in Seq(Nat) /\ DOMAIN <<>> = {} /\ Len(<<>>) = 0
  OBVIOUS
<1>3. Range(<<>>) = {}
  BY <1>2 DEF Range
<1>4. sets \in Holdings /\ \A k \in FragmentKey : sets[k] = <<>>
  BY <1>1, <1>2 DEF Holdings
<1>5. \A k \in FragmentKey : HeldOK(sets[k], k)
  BY <1>4, NothingHeld
<1>6. bufferedBytes = BytesIn(FragmentKey) /\ bufferedBytes <= MaxBytes
  BY <1>1, <1>4, HeldNone, Limits DEF BytesIn
<1>7. age \in [FragmentKey -> 0 .. Timeout]
  BY <1>1, Limits
<1>8. lru \in Seq(FragmentKey) /\ Distinct(lru) /\ Range(lru) = {} /\ Len(lru) <= MaxDatagrams
  BY <1>1, <1>2, <1>3, Limits DEF Distinct
<1>9. ResultInv
  BY <1>1, <1>2 DEF ResultInv, Nothing
<1> QED BY <1>4, <1>5, <1>6, <1>7, <1>8, <1>9 DEF BufferInv

\* Every step keeps the invariant.
LEMMA InvNext == BufferInv /\ ResultInv /\ [Next]_vars => BufferInv' /\ ResultInv'
<1> SUFFICES ASSUME BufferInv, ResultInv, [Next]_vars PROVE BufferInv' /\ ResultInv'
  OBVIOUS
<1>1. CASE ExpireStale
  BY <1>1, ExpireKeeps
<1>2. CASE Tick
  BY <1>2, TickKeeps
<1>3. ASSUME NEW k \in FragmentKey, AddFragment(k) PROVE BufferInv' /\ ResultInv'
  <2>1. PICK f \in Fragments[k] : Refuse(k, f) \/ Accept(k, f)
    BY <1>3 DEF AddFragment
  <2> QED BY <2>1, RefuseKeeps, AcceptKeeps
<1>4. CASE UNCHANGED vars
  BY <1>4 DEF vars, BufferInv, ResultInv, BytesIn, HeldOK
<1> QED BY <1>1, <1>2, <1>3, <1>4 DEF Next

\* The invariant, of every reachable state.
LEMMA AlwaysInv == Spec => [](BufferInv /\ ResultInv)
<1>1. Init => BufferInv /\ ResultInv
  BY InvInit
<1>2. (BufferInv /\ ResultInv) /\ [Next]_vars => (BufferInv /\ ResultInv)'
  BY InvNext
<1> QED BY <1>1, <1>2, PTL DEF Spec

\* A list without repetitions is as long as its range is large.
LEMMA DistinctCount ==
    ASSUME NEW S, NEW s \in Seq(S), Distinct(s)
    PROVE  Cardinality(Range(s)) = Len(s)
<1> DEFINE n == Len(s)
           R == Range(s)
<1>1. n \in Nat /\ DOMAIN s = 1 .. n /\ \A x : x \in R <=> \E i \in 1 .. n : s[i] = x
  BY SeqFacts
<1>2. s \in [1 .. n -> R]
  <2>1. s \in [1 .. n -> S] 
    BY <1>1, LenProperties
  <2> QED BY <1>1, <2>1
<1>3. \A i, j \in 1 .. n : s[i] = s[j] => i = j
  BY <1>1 DEF Distinct
<1> HIDE DEF n, R
<1>4. s \in Bijection(1 .. n, R)
  BY <1>1, <1>2, <1>3 DEF Bijection, Injection, Surjection, IsInjective
<1>5. IsFiniteSet(1 .. n) /\ Cardinality(1 .. n) = n
  <2>1. 1 \in Int /\ n \in Int
    BY <1>1
  <2>2. IsFiniteSet(1 .. n) /\ Cardinality(1 .. n) = IF 1 > n THEN 0 ELSE n - 1 + 1
    BY <2>1, FS_Interval
  <2>3. (IF 1 > n THEN 0 ELSE n - 1 + 1) = n
    BY <1>1
  <2> QED BY <2>2, <2>3
<1>6. Cardinality(R) = n
  <2>1. ExistsBijection(1 .. n, R)
    BY <1>4 DEF ExistsBijection
  <2> QED BY <1>5, <2>1, FS_Bijection
<1> QED BY <1>6 DEF n, R

\* buffered_bytes is the number of bytes held, the limits hold, and the order of
\* use lists the sets there are, once each, in every reachable state (remove_buffer,
\* make_room_for, expire_stale_at, add_fragment).
THEOREM BufferAlwaysSound == Spec => []BufferSound
<1>1. BufferInv /\ ResultInv => BufferSound
  <2> SUFFICES ASSUME BufferInv, ResultInv PROVE BufferSound
    OBVIOUS
  <2>1. /\ sets \in Holdings /\ age \in [FragmentKey -> 0 .. Timeout] /\ lru \in Seq(FragmentKey) /\ Distinct(lru)
        /\ \A k : k \in Range(lru) <=> k \in FragmentKey /\ sets[k] # <<>>
        /\ Len(lru) <= MaxDatagrams
        /\ bufferedBytes = BytesIn(FragmentKey) /\ bufferedBytes <= MaxBytes
    BY DEF BufferInv
  <2>2. bufferedBytes \in Nat
    BY <2>1, HeldFinite DEF BytesIn
  <2>3. TypeOK
    BY <2>1, <2>2 DEF TypeOK, ResultInv, Holdings
  <2>4. Range(lru) = {k \in FragmentKey : sets[k] # <<>>}
    BY <2>1
  <2>5. Cardinality(Range(lru)) = Len(lru)
    BY <2>1, DistinctCount
  <2> QED BY <2>1, <2>3, <2>4, <2>5 DEF BufferSound, AccountingExact
<1> QED BY <1>1, AlwaysInv, PTL

\* What is held is incomplete, sorted and free of contradictions in every reachable
\* state (the checks of add_fragment and its test of completeness).
THEOREM HeldAlwaysSound == Spec => []HeldSound
<1>1. BufferInv => HeldSound
  <2> SUFFICES ASSUME BufferInv, NEW k \in FragmentKey
               PROVE  /\ InOrder(sets[k]) /\ Agree(sets[k]) /\ Incomplete(sets[k])
    BY Zenon DEF HeldSound, NothingCompleteIsHeld, HeldAgree, Agree, SameBytes, Incomplete
  <2> QED BY DEF BufferInv, HeldOK
<1> QED BY <1>1, AlwaysInv, PTL

-----------------------------------------------------------------------------
(* The order of eviction.                                                  *)

\* Keys that stay in a list keep their order there.
LEMMA WithoutOrder ==
    ASSUME NEW S, NEW order \in Seq(S), NEW keys, NEW i \in DOMAIN order, NEW j \in DOMAIN order,
           i < j, order[i] \notin keys, order[j] \notin keys
    PROVE  \E n, o \in DOMAIN Without(order, keys) :
              n < o /\ Without(order, keys)[n] = order[i] /\ Without(order, keys)[o] = order[j]
<1> DEFINE K == {h \in DOMAIN order : order[h] \notin keys}
           t == Without(order, keys)
<1>1. \A x, y \in K : x < y => \E n, o \in DOMAIN t : n < o /\ t[n] = order[x] /\ t[o] = order[y]
  BY WithoutFacts
<1>2. i \in K /\ j \in K
  OBVIOUS
<1> HIDE DEF K, t
<1>3. \E n, o \in DOMAIN t : n < o /\ t[n] = order[i] /\ t[o] = order[j]
  BY <1>1, <1>2
<1> QED BY <1>3 DEF t

\* What Accept removes it removes together with everything that was used before it.
LEMMA GoneOldest ==
    ASSUME BufferInv, NEW k \in FragmentKey, NEW f, NEW i \in DOMAIN lru, NEW j \in DOMAIN lru, i < j,
           lru[i] # k, lru[j] # k, lru[j] \notin Stale, lru[j] \in Gone(k, f)
    PROVE  lru[i] \in Gone(k, f)
<1> DEFINE a == lru[i]
           b == lru[j]
           others == Evictable(k, Rest(k))
<1>1. PICK m \in 0 .. Len(others) :
         /\ Oldest(k, m) \cap (Stale \cup Counted(k)) = {}
         /\ Free(k, f).gone = Oldest(k, m) \/ Free(k, f).gone = Oldest(k, m) \cup {k}
  BY FreeFacts, Zenon
<1>2. Gone(k, f) = (Stale \cup Counted(k)) \cup Free(k, f).gone
  BY DEF Gone
<1>3. lru \in Seq(FragmentKey)
  BY DEF BufferInv
<1>4. /\ Fresh \in Seq(FragmentKey) /\ Distinct(Fresh) /\ Rest(k) \in Seq(FragmentKey)
      /\ others \in Seq(FragmentKey) /\ Distinct(others)
  BY GoneFacts
<1>5. SUFFICES ASSUME a \notin Stale, a \notin Counted(k) PROVE a \in Oldest(k, m)
  BY <1>1, <1>2
<1>6. PICK n, o \in DOMAIN Fresh : n < o /\ Fresh[n] = a /\ Fresh[o] = b
  BY <1>3, <1>5, WithoutOrder DEF Fresh
<1>7. b \notin Counted(k)
  <2> SUFFICES ASSUME b \in Counted(k) PROVE FALSE
    OBVIOUS
  <2>1. b = Head(Fresh)
    BY DEF Counted, ForCount
  <2>2. Len(Fresh) \in Nat /\ DOMAIN Fresh = 1 .. Len(Fresh)
    BY <1>4, SeqFacts
  <2>3. 1 \in DOMAIN Fresh /\ Head(Fresh) = Fresh[1]
    BY <1>4, <1>6, <2>2
  <2>4. o = 1
    BY <1>4, <1>6, <2>1, <2>3 DEF Distinct
  <2> QED BY <1>6, <2>2, <2>4
<1>8. b \in Oldest(k, m)
  BY <1>1, <1>2, <1>7
<1>9. PICK p, q \in DOMAIN Rest(k) : p < q /\ Rest(k)[p] = a /\ Rest(k)[q] = b
  <2>1. Fresh[n] \notin Counted(k) /\ Fresh[o] \notin Counted(k)
    BY <1>5, <1>6, <1>7
  <2>2. \E p, q \in DOMAIN Rest(k) : p < q /\ Rest(k)[p] = Fresh[n] /\ Rest(k)[q] = Fresh[o]
    BY <1>4, <1>6, <2>1, WithoutOrder DEF Rest
  <2> QED BY <1>6, <2>2
<1>10. PICK x, y \in DOMAIN others : x < y /\ others[x] = a /\ others[y] = b
  <2>1. Rest(k)[p] \notin {k} /\ Rest(k)[q] \notin {k}
    BY <1>9
  <2> DEFINE own == {k}
             t == Without(Rest(k), own)
  <2> HIDE DEF own
  <2>2. \E x, y \in DOMAIN t : x < y /\ t[x] = Rest(k)[p] /\ t[y] = Rest(k)[q]
    <3>1. Rest(k)[p] \notin own /\ Rest(k)[q] \notin own
      BY <2>1 DEF own
    <3> QED BY <1>4, <1>9, <3>1, WithoutOrder
  <2>3. t = others
    BY DEF Evictable, own
  <2> HIDE DEF t, others
  <2> QED BY <1>9, <2>2, <2>3
<1> HIDE DEF others, a, b
<1>11. Len(others) \in Nat /\ DOMAIN others = 1 .. Len(others)
  BY <1>4, SeqFacts
<1>12. PICK z \in 1 .. m : others[z] = b
  BY <1>8 DEF Oldest, others
<1>13. m \in Nat /\ m <= Len(others) /\ z \in DOMAIN others
  BY <1>11
<1>14. y = z
  BY <1>4, <1>10, <1>12, <1>13 DEF Distinct
<1>15. x \in 1 .. m
  BY <1>10, <1>11, <1>13, <1>14
<1> QED BY <1>10, <1>15 DEF Oldest, others

\* A set that is not stale and goes while another key's fragment is handled takes
\* every set that was used before it along.
LEMMA EvictStep ==
    ASSUME BufferInv, Next, NEW i \in DOMAIN lru, NEW j \in DOMAIN lru, i < j,
           result'.key \notin {lru[i], lru[j]}, age[lru[j]] < Timeout, sets'[lru[j]] = <<>>
    PROVE  sets'[lru[i]] = <<>>
<1> DEFINE a == lru[i]
           b == lru[j]
<1>1. a \in Range(lru) /\ b \in Range(lru)
  BY DEF Range
<1>2. a \in FragmentKey /\ b \in FragmentKey /\ sets[b] # <<>>
  BY <1>1 DEF BufferInv
<1>3. b \notin Stale
  <2>1. age[b] \in 0 .. Timeout
    BY <1>2 DEF BufferInv
  <2> QED BY <2>1, Limits DEF Stale
<1>4. ASSUME NEW gone, DropSets(gone) PROVE b \in gone /\ (a \in gone => sets'[a] = <<>>)
  <2>1. \A q \in FragmentKey : sets'[q] = IF q \in gone THEN <<>> ELSE sets[q]
    BY <1>4 DEF DropSets
  <2> QED BY <1>2, <2>1
<1>5. CASE ExpireStale
  BY <1>3, <1>4, <1>5 DEF ExpireStale
<1>6. CASE Tick
  BY <1>2, <1>6 DEF Tick
<1>7. ASSUME NEW k \in FragmentKey, NEW f \in Fragments[k], Refuse(k, f) PROVE FALSE
  <2>1. PICK gone \in {Stale, Stale \cup {k}} : DropSets(gone) /\ result' = Nothing(k)
    BY <1>7 DEF Refuse
  <2>2. b # k
    BY <2>1 DEF Nothing
  <2>3. b \in gone
    BY <1>4, <2>1
  <2> QED BY <1>3, <2>2, <2>3
<1>8. ASSUME NEW k \in FragmentKey, NEW f \in Fragments[k], Accept(k, f) PROVE sets'[a] = <<>>
  <2> DEFINE gone == Gone(k, f)
             entries == Insert(Held(k), f)
  <2>1. \/ DropSets(gone) /\ result' = Nothing(k)
        \/ DropSets(gone \cup {k}) /\ result' = [key |-> k, payload |-> Assemble(entries)]
        \/ /\ sets' = [q \in FragmentKey |-> IF q = k THEN entries ELSE IF q \in gone THEN <<>> ELSE sets[q]]
           /\ result' = Nothing(k)
    BY <1>8, AcceptCases
  <2> HIDE DEF gone, entries
  <2>2. result'.key = k
    BY <2>1 DEF Nothing
  <2>3. a # k /\ b # k
    BY <2>2
  <2>4. b \in gone /\ (a \in gone => sets'[a] = <<>>)
    <3>1. CASE DropSets(gone)
      BY <1>4, <3>1
    <3>2. CASE DropSets(gone \cup {k})
      BY <1>4, <2>3, <3>2
    <3>3. CASE sets' = [q \in FragmentKey |-> IF q = k THEN entries ELSE IF q \in gone THEN <<>> ELSE sets[q]]
      BY <1>2, <2>3, <3>3
    <3> QED BY <2>1, <3>1, <3>2, <3>3
  <2>5. a \in gone
    BY <1>3, <2>3, <2>4, GoneOldest DEF gone
  <2> QED BY <2>4, <2>5
<1>9. ASSUME NEW k \in FragmentKey, AddFragment(k) PROVE sets'[a] = <<>>
  <2>1. PICK f \in Fragments[k] : Refuse(k, f) \/ Accept(k, f)
    BY <1>9 DEF AddFragment
  <2> QED BY <1>7, <1>8, <2>1
<1> QED BY <1>5, <1>6, <1>9 DEF Next

\* Eviction takes the least recently used sets: no set that is still fresh goes for
\* another key's fragment while one that was used earlier stays (make_room_for).
THEOREM OldestGoesFirst == Spec => EvictsOldest
<1>1. BufferInv /\ [Next]_vars =>
         [\A i, j \in DOMAIN lru :
              /\ i < j /\ result'.key \notin {lru[i], lru[j]}
              /\ age[lru[j]] < Timeout /\ sets'[lru[j]] = <<>>
              => sets'[lru[i]] = <<>>]_vars
  <2> SUFFICES ASSUME BufferInv, Next, NEW i \in DOMAIN lru, NEW j \in DOMAIN lru, i < j,
                      result'.key \notin {lru[i], lru[j]}, age[lru[j]] < Timeout, sets'[lru[j]] = <<>>
               PROVE  sets'[lru[i]] = <<>>
    BY Zenon
  <2> QED BY EvictStep
<1> QED BY <1>1, AlwaysInv, PTL DEF Spec, EvictsOldest

-----------------------------------------------------------------------------
(* The pieces of one datagram.                                             *)

\* The place of a byte in a fragment.
LEMMA PlaceOf ==
    ASSUME NEW x \in Nat, NEW l \in Nat, NEW b \in Nat, x <= b, b < x + l
    PROVE  b - x + 1 \in 1 .. l /\ x + (b - x + 1) = b + 1
OBVIOUS

\* A number within a chunk is not in the next one.
LEMMA WithinChunk ==
    ASSUME NEW x \in Nat, NEW y \in Nat, NEW c \in Nat, c > 0, x < y + 1, y + 1 <= x + c
    PROVE  ~(y + c <= x) /\ ~(x + c <= y)
OBVIOUS

\* Slices of one datagram do not contradict each other.
LEMMA SlicesAgree ==
    ASSUME NEW d \in Seq(Nat), NEW e \in Entry, NEW f \in Entry, SliceOf(e, d), SliceOf(f, d)
    PROVE  /\ ~e.mf => (End(f) <= End(e) /\ (~f.mf => End(f) = End(e)))
           /\ ~f.mf => End(e) <= End(f)
           /\ SameBytes(e, f)
<1>1. Len(d) \in Nat
  BY SeqFacts
<1>2. /\ e.offset \in Nat /\ Len(e.data) \in Nat /\ End(e) \in Nat /\ End(e) = e.offset + Len(e.data)
      /\ f.offset \in Nat /\ Len(f.data) \in Nat /\ End(f) \in Nat /\ End(f) = f.offset + Len(f.data)
  BY EntryFields
<1>3. /\ End(e) <= Len(d) /\ (~e.mf => End(e) = Len(d))
      /\ \A i \in 1 .. Len(e.data) : e.data[i] = d[e.offset + i]
      /\ End(f) <= Len(d) /\ (~f.mf => End(f) = Len(d))
      /\ \A i \in 1 .. Len(f.data) : f.data[i] = d[f.offset + i]
  BY DEF SliceOf
<1>4. ASSUME NEW b \in Max({f.offset, e.offset}) .. Min({End(f), End(e)}) - 1
      PROVE  f.data[b - f.offset + 1] = e.data[b - e.offset + 1]
  <2>1. /\ Max({f.offset, e.offset}) \in Nat
        /\ Max({f.offset, e.offset}) = IF f.offset <= e.offset THEN e.offset ELSE f.offset
        /\ Min({End(f), End(e)}) \in Nat
        /\ Min({End(f), End(e)}) = IF End(f) <= End(e) THEN End(f) ELSE End(e)
    BY <1>2, MaxMinTwo
  <2>2. b \in Nat /\ f.offset <= b /\ e.offset <= b /\ b < End(f) /\ b < End(e)
    BY <1>2, <2>1
  <2>3. /\ b - f.offset + 1 \in 1 .. Len(f.data) /\ f.offset + (b - f.offset + 1) = b + 1
        /\ b - e.offset + 1 \in 1 .. Len(e.data) /\ e.offset + (b - e.offset + 1) = b + 1
    <3>1. b < f.offset + Len(f.data) /\ b < e.offset + Len(e.data)
      BY <1>2, <2>2
    <3> QED BY <1>2, <2>2, <3>1, PlaceOf
  <2>4. f.data[b - f.offset + 1] = d[f.offset + (b - f.offset + 1)]
    BY <1>3, <2>3
  <2>5. e.data[b - e.offset + 1] = d[e.offset + (b - e.offset + 1)]
    BY <1>3, <2>3
  <2> QED BY <2>3, <2>4, <2>5
<1>5. SameBytes(e, f)
  BY <1>4 DEF SameBytes
<1> QED BY <1>1, <1>2, <1>3, <1>5

\* A sorted listing of a finite set of fragments.
LEMMA SortedFacts ==
    ASSUME NEW some \in SUBSET Entry, IsFiniteSet(some), NEW s \in Sorted(some)
    PROVE  /\ s \in Seq(Entry) /\ InOrder(s) /\ Distinct(s)
           /\ Len(s) = Cardinality(some) /\ Range(s) = some
<1> DEFINE n == Cardinality(some)
<1>1. n \in Nat
  BY FS_CardinalityType
<1>2. s \in [1 .. n -> some] /\ (\A i, j \in 1 .. n : i # j => s[i] # s[j]) /\ InOrder(s)
  BY Zenon DEF Sorted, SetToSeqs
<1> HIDE DEF n
<1>3. DOMAIN s = 1 .. n /\ \A i \in 1 .. n : s[i] \in some
  BY <1>2
<1>4. s \in Seq(some) /\ s \in Seq(Entry) /\ Len(s) = n
  BY <1>1, <1>2
<1>5. Distinct(s)
  BY <1>2, <1>3 DEF Distinct
<1>6. Cardinality(Range(s)) = n
  BY <1>4, <1>5, DistinctCount
<1>7. Range(s) \in SUBSET some
  BY <1>3 DEF Range
<1>8. Range(s) = some
  BY <1>6, <1>7, FS_Subset DEF n
<1> QED BY <1>2, <1>4, <1>5, <1>8 DEF n

\* A further fragment is inserted at its place of the sorted listing.
LEMMA InsertSorted ==
    ASSUME NEW some \in SUBSET Entry, IsFiniteSet(some), NEW s \in Sorted(some),
           NEW p \in Entry, p \notin some
    PROVE  Insert(s, p) \in Sorted(some \cup {p})
<1> DEFINE n == Cardinality(some)
           t == Insert(s, p)
           more == some \cup {p}
<1>1. /\ s \in Seq(Entry) /\ InOrder(s) /\ Distinct(s) /\ Len(s) = n /\ Range(s) = some
  BY SortedFacts
<1>2. n \in Nat /\ DOMAIN s = 1 .. n
  BY <1>1, SeqFacts
<1>3. Cardinality(more) = n + 1
  BY FS_AddElement
<1>4. t \in Seq(Entry) /\ InOrder(t) /\ \E x \in 1 .. Len(s) + 1 : PutAt(s, x, p, t)
  BY <1>1, InsertKeeps
<1> HIDE DEF n, t
<1>5. PICK x \in 1 .. n + 1 : PutAt(s, x, p, t)
  BY <1>1, <1>4
<1>6. \A y : y \in Range(t) <=> y \in Range(s) \/ y = p
  BY <1>1, <1>5, PutRange
<1>7. /\ x \in Nat /\ DOMAIN t = 1 .. n + 1
      /\ \A i \in 1 .. n + 1 : t[i] = IF i < x THEN s[i] ELSE IF i = x THEN p ELSE s[i - 1]
  BY <1>1, <1>2, <1>5 DEF PutAt
<1>8. \A i \in 1 .. n + 1 : t[i] \in more
  <2>1. \A i \in 1 .. n + 1 : t[i] \in Range(t)
    BY <1>7 DEF Range
  <2> QED BY <1>1, <1>6, <2>1
<1>9. \A i \in 1 .. n : s[i] # p
  BY <1>1, <1>2 DEF Range
<1>10. ASSUME NEW i \in 1 .. n + 1, NEW j \in 1 .. n + 1, i < j PROVE t[i] # t[j]
  <2>1. CASE i < x /\ j < x
    <3>1. i \in 1 .. n /\ j \in 1 .. n /\ i # j
      BY <1>2, <1>7, <1>10, <2>1
    <3>2. t[i] = s[i] /\ t[j] = s[j]
      BY <1>7, <2>1
    <3> QED BY <1>1, <1>2, <3>1, <3>2 DEF Distinct
  <2>2. CASE i < x /\ j = x
    <3>1. i \in 1 .. n /\ t[i] = s[i] /\ t[j] = p
      BY <1>2, <1>7, <2>2
    <3> QED BY <1>9, <3>1
  <2>3. CASE i < x /\ j > x
    <3>1. i \in 1 .. n /\ j - 1 \in 1 .. n /\ i # j - 1 /\ ~(j < x) /\ j # x
      BY <1>2, <1>7, <2>3
    <3>2. t[i] = s[i] /\ t[j] = s[j - 1]
      BY <1>7, <2>3, <3>1
    <3> QED BY <1>1, <1>2, <3>1, <3>2 DEF Distinct
  <2>4. CASE i = x
    <3>1. j - 1 \in 1 .. n /\ ~(j < x) /\ j # x
      BY <1>2, <1>7, <1>10, <2>4
    <3>2. t[i] = p /\ t[j] = s[j - 1]
      BY <1>7, <2>4, <3>1
    <3> QED BY <1>9, <3>1, <3>2
  <2>5. CASE i > x
    <3>1. /\ i - 1 \in 1 .. n /\ j - 1 \in 1 .. n /\ i - 1 # j - 1
          /\ ~(i < x) /\ i # x /\ ~(j < x) /\ j # x
      BY <1>2, <1>7, <1>10, <2>5
    <3>2. t[i] = s[i - 1] /\ t[j] = s[j - 1]
      BY <1>7, <3>1
    <3> QED BY <1>1, <1>2, <3>1, <3>2 DEF Distinct
  <2> QED BY <1>2, <1>7, <1>10, <2>1, <2>2, <2>3, <2>4, <2>5
<1>11. \A i, j \in 1 .. n + 1 : i # j => t[i] # t[j]
  <2>1. \A i, j \in 1 .. n + 1 : i # j => i < j \/ j < i
    BY <1>2
  <2> QED BY <1>10, <2>1
<1>12. t \in [1 .. n + 1 -> more]
  <2>1. t = [i \in 1 .. n + 1 |-> t[i]]
    BY <1>4, <1>7, LenProperties
  <2> QED BY <1>8, <2>1
<1> HIDE DEF more
<1>13. t \in SetToSeqs(more)
  BY <1>3, <1>11, <1>12, Zenon DEF SetToSeqs
<1>14. t \in Sorted(more)
  BY <1>4, <1>13 DEF Sorted
<1> QED BY <1>14 DEF t, more

\* Multiples of a chunk are a chunk apart.
LEMMA ChunksApart ==
    ASSUME NEW a \in Nat, NEW b \in Nat, NEW c \in Nat, a < b
    PROVE  a * c + c <= b * c
<1> DEFINE r == b - a - 1
<1>1. r \in Nat /\ b = a + 1 + r
  OBVIOUS
<1> HIDE DEF r
<1>2. r * c \in Nat /\ a * c \in Nat
  BY <1>1
<1>3. b * c = a * c + c + r * c
  BY <1>1
<1> QED BY <1>2, <1>3

\* The chunk a byte is in.
LEMMA ChunkOf ==
    ASSUME NEW b \in Nat, NEW c \in Nat, c > 0
    PROVE  \E n \in 0 .. b : n * c <= b /\ b < n * c + c
<1> DEFINE n == b \div c
<1>1. n \in Nat /\ b = c * n + (b % c) /\ b % c \in Nat /\ b % c < c
  BY DivideFacts
<1> HIDE DEF n
<1>2. c * n = n * c /\ n * c \in Nat
  BY <1>1
<1>3. n * c <= b /\ b < n * c + c
  BY <1>1, <1>2
<1>4. n <= n * c
  <2>1. PICK e \in Nat : c = e + 1
    <3>1. c - 1 \in Nat /\ c = (c - 1) + 1
      OBVIOUS
    <3> QED BY <3>1
  <2>2. n * c = n * e + n /\ n * e \in Nat
    BY <1>1, <2>1
  <2> QED BY <1>1, <2>2
<1>5. n \in 0 .. b
  BY <1>1, <1>2, <1>3, <1>4
<1> QED BY <1>3, <1>5

\* All pieces for a chunk.
PiecesFor(c, d) == {Piece(c, d, n) : n \in Numbers(c, d)}

\* They are finitely many slices.
LEMMA PiecesAre ==
    ASSUME NEW d \in Seq(Nat), NEW c \in Nat, c > 0
    PROVE  /\ IsFiniteSet(PiecesFor(c, d)) /\ PiecesFor(c, d) \in SUBSET Entry
           /\ \A p \in PiecesFor(c, d) : SliceOf(p, d)
<1> DEFINE f == [n \in Numbers(c, d) |-> Piece(c, d, n)]
<1>1. IsFiniteSet(Numbers(c, d))
  <2>1. 0 \in Int /\ Len(d) - 1 \in Int
    BY SeqFacts
  <2>2. IsFiniteSet(0 .. Len(d) - 1)
    BY <2>1, FS_Interval
  <2>3. Numbers(c, d) \in SUBSET (0 .. Len(d) - 1)
    BY DEF Numbers
  <2> QED BY <2>2, <2>3, FS_Subset
<1>2. DOMAIN f = Numbers(c, d) /\ PiecesFor(c, d) = {f[n] : n \in Numbers(c, d)}
  BY DEF PiecesFor
<1> HIDE DEF f
<1>3. IsFiniteSet(PiecesFor(c, d))
  BY <1>1, <1>2, ImageFinite
<1>4. \A p \in PiecesFor(c, d) : p \in Entry /\ SliceOf(p, d)
  BY PieceFacts DEF PiecesFor
<1> QED BY <1>3, <1>4

\* Every byte of the payload is in a piece.
LEMMA PieceWith ==
    ASSUME NEW d \in Seq(Nat), NEW c \in Nat, c > 0, NEW b \in Nat, b < Len(d)
    PROVE  \E p \in PiecesFor(c, d) : p.offset <= b /\ b < End(p)
<1>1. Len(d) \in Nat
  BY SeqFacts
<1>2. PICK n \in 0 .. b : n * c <= b /\ b < n * c + c
  BY ChunkOf
<1>3. n \in Nat /\ n * c \in Nat /\ n * c < Len(d) /\ n \in 0 .. Len(d) - 1
  BY <1>1, <1>2
<1>4. n \in Numbers(c, d)
  BY <1>3 DEF Numbers
<1>5. /\ Piece(c, d, n).offset = n * c
      /\ End(Piece(c, d, n)) = IF n * c + c <= Len(d) THEN n * c + c ELSE Len(d)
  BY <1>4, PieceFacts
<1>6. Piece(c, d, n).offset <= b /\ b < End(Piece(c, d, n))
  BY <1>1, <1>2, <1>3, <1>5
<1> QED BY <1>4, <1>6 DEF PiecesFor

\* The byte a piece begins with is in no other piece.
LEMMA PieceAlone ==
    ASSUME NEW d \in Seq(Nat), NEW c \in Nat, c > 0, NEW p \in PiecesFor(c, d), NEW q \in PiecesFor(c, d),
           q.offset < p.offset + 1, p.offset + 1 <= End(q)
    PROVE  p = q
<1>1. PICK m \in Numbers(c, d) : p = Piece(c, d, m)
  BY DEF PiecesFor
<1>2. PICK n \in Numbers(c, d) : q = Piece(c, d, n)
  BY DEF PiecesFor
<1>3. m \in Nat /\ m * c \in Nat /\ p.offset = m * c
  BY <1>1, PieceFacts
<1>4. /\ n \in Nat /\ n * c \in Nat /\ q.offset = n * c
      /\ End(q) = IF n * c + c <= Len(d) THEN n * c + c ELSE Len(d)
  BY <1>2, PieceFacts
<1>5. Len(d) \in Nat
  BY SeqFacts
<1>6. n * c < m * c + 1 /\ m * c + 1 <= n * c + c
  BY <1>3, <1>4, <1>5
<1> DEFINE x == n * c
           y == m * c
<1>7. ~(y + c <= x) /\ ~(x + c <= y)
  <2>1. x \in Nat /\ y \in Nat /\ x < y + 1 /\ y + 1 <= x + c
    BY <1>3, <1>4, <1>6
  <2> HIDE DEF x, y
  <2> QED BY <2>1, WithinChunk
<1>8. ~(m < n)
  <2> SUFFICES ASSUME m < n PROVE FALSE
    OBVIOUS
  <2>1. m * c + c <= n * c
    BY <1>3, <1>4, ChunksApart
  <2> QED BY <1>7, <2>1
<1>9. ~(n < m)
  <2> SUFFICES ASSUME n < m PROVE FALSE
    OBVIOUS
  <2>1. n * c + c <= m * c
    BY <1>3, <1>4, ChunksApart
  <2> QED BY <1>7, <2>1
<1>10. m = n
  BY <1>3, <1>4, <1>8, <1>9
<1> QED BY <1>1, <1>2, <1>10

\* A sorted listing of some of the pieces: a missing piece is accepted, the listing
\* is complete when no piece is missing and not before, and then gives the payload.
LEMMA PiecesJoin ==
    ASSUME NEW d \in Seq(Nat), Len(d) >= 1, NEW c \in Nat, c > 0,
           NEW some \in SUBSET PiecesFor(c, d), NEW s \in Sorted(some)
    PROVE  /\ \A p \in PiecesFor(c, d) \ some :
                 ~Contradicts(s, p) /\ Insert(s, p) \in Sorted(some \cup {p})
           /\ Complete(s) <=> some = PiecesFor(c, d)
           /\ some = PiecesFor(c, d) => Assemble(s) = d
<1> DEFINE P == PiecesFor(c, d)
           L == EndBefore(s, Len(s) + 1)
<1>1. IsFiniteSet(P) /\ P \in SUBSET Entry /\ \A p \in P : SliceOf(p, d)
  BY PiecesAre
<1>2. IsFiniteSet(some) /\ some \in SUBSET Entry /\ \A p \in some : p \in Entry /\ SliceOf(p, d)
  BY <1>1, FS_Subset
<1>3. s \in Seq(Entry) /\ InOrder(s) /\ Range(s) = some
  BY <1>2, SortedFacts
<1>4. Len(d) \in Nat
  BY SeqFacts
<1>5. ASSUME NEW p \in P \ some PROVE ~Contradicts(s, p) /\ Insert(s, p) \in Sorted(some \cup {p})
  <2>1. p \in Entry /\ SliceOf(p, d)
    BY <1>1
  <2>2. ASSUME NEW e \in Range(s)
        PROVE  /\ ~e.mf => (End(p) <= End(e) /\ (~p.mf => End(p) = End(e)))
               /\ ~p.mf => End(e) <= End(p)
               /\ SameBytes(e, p)
    <3>1. e \in Entry /\ SliceOf(e, d)
      BY <1>2, <1>3
    <3> QED BY <2>1, <3>1, SlicesAgree
  <2>3. ~Contradicts(s, p)
    BY <1>3, <2>1, <2>2, NoContradiction
  <2> QED BY <1>2, <2>1, <2>3, InsertSorted
<1>6. ASSUME some = P PROVE Complete(s)
  <2>1. ASSUME NEW b \in Nat, b < Len(d) PROVE \E e \in Range(s) : e.offset <= b /\ b < End(e)
    BY <1>3, <1>6, <2>1, PieceWith
  <2>2. PICK t \in Range(s) : Len(d) - 1 < End(t)
    <3>1. Len(d) - 1 \in Nat /\ Len(d) - 1 < Len(d)
      BY <1>4
    <3> QED BY <2>1, <3>1
  <2>3. t \in Entry /\ SliceOf(t, d)
    BY <1>2, <1>3
  <2>4. End(t) \in Nat /\ End(t) <= Len(d)
    BY <2>3, EntryFields DEF SliceOf
  <2>5. End(t) = Len(d)
    BY <1>4, <2>2, <2>4
  <2>6. ~t.mf
    <3>1. PICK n \in Numbers(c, d) : t = Piece(c, d, n)
      BY <1>3 DEF PiecesFor
    <3>2. t.mf <=> End(t) < Len(d)
      BY <3>1, PieceFacts
    <3> QED BY <1>4, <2>5, <3>2
  <2>7. t \in Terminals(s)
    BY <2>6 DEF Terminals
  <2>8. \A e \in Range(s) : e.data # <<>> /\ End(e) <= End(t)
    BY <1>2, <1>3, <2>5 DEF SliceOf
  <2>9. \A b \in 0 .. End(t) - 1 : \E e \in Range(s) : e.offset <= b /\ b < End(e)
    <3> SUFFICES ASSUME NEW b \in 0 .. End(t) - 1 PROVE \E e \in Range(s) : e.offset <= b /\ b < End(e)
      OBVIOUS
    <3>1. b \in Nat /\ b < Len(d)
      BY <1>4, <2>5
    <3> QED BY <2>1, <3>1
  <2> QED BY <1>3, <2>7, <2>8, <2>9, CoveredComplete
<1>7. ASSUME Complete(s) PROVE L = Len(d)
  <2>1. PICK e \in Range(s) : ~e.mf /\ End(e) = L
    BY <1>3, <1>7, CompleteLength
  <2>2. SliceOf(e, d)
    BY <1>2, <1>3
  <2> QED BY <2>1, <2>2 DEF SliceOf
<1>8. ASSUME Complete(s) PROVE some = P
  <2> SUFFICES ASSUME NEW p \in P PROVE p \in some
    OBVIOUS
  <2>1. p \in Entry /\ SliceOf(p, d)
    BY <1>1
  <2>2. /\ p.offset \in Nat /\ Len(p.data) \in Nat /\ End(p) = p.offset + Len(p.data)
        /\ Len(p.data) # 0 /\ End(p) <= Len(d)
    BY <2>1, EntryFields DEF SliceOf
  <2>3. p.offset + 1 \in 1 .. L
    BY <1>4, <1>7, <1>8, <2>2
  <2>4. \A i \in DOMAIN s : s[i].offset <= EndBefore(s, i)
    BY <1>8 DEF Complete
  <2>5. PICK i \in 1 .. Len(s) : s[i].offset < p.offset + 1 /\ p.offset + 1 <= End(s[i])
    BY <1>3, <2>3, <2>4, CompleteCovers
  <2>6. s[i] \in Range(s)
    BY <1>3, SeqFacts
  <2>7. s[i] \in P
    BY <1>3, <2>6
  <2>8. p = s[i]
    <3> DEFINE q == s[i]
    <3>1. q \in P /\ q.offset < p.offset + 1 /\ p.offset + 1 <= End(q)
      BY <2>5, <2>7
    <3> HIDE DEF q
    <3>2. p = q
      BY <3>1, PieceAlone
    <3> QED BY <3>2 DEF q
  <2> QED BY <1>3, <2>6, <2>8
<1>9. ASSUME some = P PROVE Assemble(s) = d
  <2> DEFINE a == Assemble(s)
  <2>1. Complete(s)
    BY <1>6, <1>9
  <2>2. /\ a \in Seq(Nat) /\ Len(a) = L
        /\ \A b \in 1 .. L : \E e \in Range(s) :
              /\ e.offset < b /\ b <= End(e) /\ b - e.offset \in 1 .. Len(e.data)
              /\ a[b] = e.data[b - e.offset]
    BY <1>3, <2>1, AssembleBytes
  <2>3. L = Len(d)
    BY <1>7, <2>1
  <2> HIDE DEF a, L
  <2>4. ASSUME NEW b \in 1 .. Len(d) PROVE a[b] = d[b]
    <3>1. PICK e \in Range(s) : b - e.offset \in 1 .. Len(e.data) /\ a[b] = e.data[b - e.offset]
      BY <2>2, <2>3
    <3>2. e \in Entry /\ SliceOf(e, d)
      BY <1>2, <1>3
    <3>3. e.offset \in Nat
      BY <3>2, EntryFields
    <3>4. e.data[b - e.offset] = d[e.offset + (b - e.offset)]
      BY <3>1, <3>2 DEF SliceOf
    <3>5. e.offset + (b - e.offset) = b
      BY <1>4, <3>3
    <3> QED BY <3>1, <3>4, <3>5
  <2>5. a = d
    BY <2>2, <2>3, <2>4, SeqEqual
  <2> QED BY <2>5 DEF a
<1> QED BY <1>5, <1>6, <1>8, <1>9

\* fragment_payload and the buffer fit each other, for every payload and MTU.
LEMMA EveryPayloadReassembles == PiecesReassemble
<1> SUFFICES ASSUME NEW k \in FragmentKey, NEW d \in Datagrams[k], NEW mtu \in Mtus
             PROVE  LET pieces == FragmentPayload(mtu, d)
                    IN  /\ \A p \in pieces : Header + Len(p.data) <= mtu /\ (p.mf => Len(p.data) % Unit = 0)
                        /\ mtu >= Header + Unit =>
                              \A some \in SUBSET pieces : \A entries \in Sorted(some) :
                                  /\ \A p \in pieces \ some :
                                        ~Contradicts(entries, p) /\ Insert(entries, p) \in Sorted(some \cup {p})
                                  /\ Complete(entries) <=> some = pieces
                                  /\ some = pieces => Assemble(entries) = d
  BY Zenon DEF PiecesReassemble
<1> DEFINE pieces == FragmentPayload(mtu, d)
<1>1. d \in Seq(Nat) /\ Len(d) >= 1 /\ mtu \in Nat /\ Header \in Nat /\ Unit \in Nat /\ Unit > 0
  BY SentFacts, ReassemblyAssumption
<1>2. \A p \in pieces : Header + Len(p.data) <= mtu /\ (p.mf => Len(p.data) % Unit = 0)
  BY <1>1, PayloadFacts
<1>3. ASSUME mtu >= Header + Unit, NEW some \in SUBSET pieces, NEW s \in Sorted(some)
      PROVE  /\ \A p \in pieces \ some : ~Contradicts(s, p) /\ Insert(s, p) \in Sorted(some \cup {p})
             /\ Complete(s) <=> some = pieces
             /\ some = pieces => Assemble(s) = d
  <2>1. mtu > Header
    BY <1>1, <1>3
  <2>2. Room(mtu) \in Nat /\ Room(mtu) > 0
    BY <1>1, <1>3, <2>1, RoomFacts
  <2>3. ~(mtu <= Header) /\ Room(mtu) # 0
    BY <1>1, <2>1, <2>2
  <2>4. pieces = PiecesFor(Room(mtu), d)
    BY <1>1, <2>3, PayloadPieces DEF PiecesFor
  <2> HIDE DEF pieces
  <2> DEFINE c == Room(mtu)
  <2>5. c \in Nat /\ c > 0 /\ some \in SUBSET PiecesFor(c, d)
    BY <2>2, <2>4
  <2> HIDE DEF c
  <2>6. /\ \A p \in PiecesFor(c, d) \ some : ~Contradicts(s, p) /\ Insert(s, p) \in Sorted(some \cup {p})
        /\ Complete(s) <=> some = PiecesFor(c, d)
        /\ some = PiecesFor(c, d) => Assemble(s) = d
    BY <1>1, <2>5, PiecesJoin
  <2>7. PiecesFor(c, d) = pieces
    BY <2>4 DEF c
  <2> QED BY <2>6, <2>7
<1> QED BY <1>2, <1>3, Zenon

\* Every payload can be cut for every MTU and put together again from its pieces in
\* any order, and whatever is handed out was sent (fragment_payload, add_fragment).
THEOREM DatagramsAlwaysSurvive == Spec => []DatagramsSurvive
<1>1. ResultInv => DatagramsSurvive
  <2> SUFFICES ASSUME ResultInv PROVE AssembledIsSent
    BY EveryPayloadReassembles DEF DatagramsSurvive
  <2> QED BY Zenon DEF ResultInv, AssembledIsSent, Sound
<1> QED BY <1>1, AlwaysInv, PTL
====
