-------------------------- MODULE EvpnFabricProofs --------------------------
(***************************************************************************)
(* The fabric for any number of leaves and hosts, any limits and any order *)
(* of frames, moves, UPDATEs and lost sessions: the Adj-RIBs at the two    *)
(* ends of a session agree, and the mobility numbers do not run ahead of   *)
(* the moves.                                                              *)
(***************************************************************************)
EXTENDS EvpnFabric, TLAPS, FiniteSetTheorems, SequenceTheorems,
        WellFoundedInduction, NaturalsInduction

-----------------------------------------------------------------------------
(* Numbers and partial functions.                                          *)

\* Every nonempty set of naturals has a least element.
LEMMA LeastNat ==
    ASSUME NEW T \in SUBSET Nat, T # {}
    PROVE  \E x \in T : \A y \in T : x <= y
<1> DEFINE R == OpToRel(<, Nat)
<1>1. IsWellFoundedOn(R, Nat)
  BY NatLessThanWellFounded
<1>2. \E x \in T : \A y \in T : ~(<<y, x>> \in R)
  <2> HIDE DEF R
  <2> QED BY <1>1, WFMin
<1>3. \A x, y \in Nat : ~(<<y, x>> \in R) => x <= y
  BY DEF R, OpToRel
<1> QED BY <1>2, <1>3

\* Every finite nonempty set of naturals has a greatest element, so Max finds it.
LEMMA MaxIn ==
    ASSUME NEW S \in SUBSET Nat, S # {}, IsFiniteSet(S)
    PROVE  Max(S) \in S /\ \A y \in S : y <= Max(S)
<1> DEFINE Top(U) == \E x \in U : \A y \in U : x >= y
           Bad(n) == \E U \in SUBSET Nat : U # {} /\ IsFiniteSet(U) /\ Cardinality(U) = n /\ ~Top(U)
           T == {n \in Nat : Bad(n)}
<1>1. Top(S)
  <2> SUFFICES ASSUME ~Top(S) PROVE FALSE
    OBVIOUS
  <2>1. Cardinality(S) \in T
    BY FS_CardinalityType
  <2>2. PICK n \in T : \A k \in T : n <= k
    <3> HIDE DEF T
    <3> QED BY <2>1, LeastNat DEF T
  <2>3. PICK U \in SUBSET Nat : U # {} /\ IsFiniteSet(U) /\ Cardinality(U) = n /\ ~Top(U)
    BY <2>2
  <2>4. PICK x \in U : TRUE
    BY <2>3
  <2> DEFINE V == U \ {x}
  <2>5. IsFiniteSet(V) /\ Cardinality(V) = n - 1 /\ Cardinality(V) \in Nat /\ n \in Nat
    BY <2>2, <2>3, <2>4, FS_RemoveElement, FS_CardinalityType
  <2>6. CASE V = {}
    <3>1. U = {x} /\ x \in Nat
      BY <2>3, <2>4, <2>6
    <3> QED BY <2>3, <3>1
  <2>7. CASE V # {}
    <3>1. n - 1 \notin T
      BY <2>2, <2>5
    <3>2. V \in SUBSET Nat /\ V # {} /\ IsFiniteSet(V) /\ Cardinality(V) = n - 1 /\ n - 1 \in Nat
      BY <2>5, <2>7
    <3>3. Top(V)
      <4> HIDE DEF V, Top
      <4> QED BY <3>1, <3>2
    <3>4. PICK z \in V : \A y \in V : z >= y
      BY <3>3
    <3>5. x \in Nat /\ z \in Nat /\ U = V \cup {x} /\ V \subseteq Nat
      BY <2>4, <3>2, <3>4
    <3>6. CASE z >= x
      BY <2>3, <3>4, <3>5, <3>6
    <3>7. CASE ~(z >= x)
      <4>1. \A y \in V : x >= y
        BY <3>4, <3>5, <3>7
      <4> QED BY <2>3, <3>5, <4>1
    <3> QED BY <3>6, <3>7
  <2> QED BY <2>6, <2>7
<1>2. Max(S) \in S /\ \A y \in S : Max(S) >= y
  BY <1>1 DEF Max
<1> QED BY <1>2

\* What a finite partial function is.
LEMMA PartialDef ==
    ASSUME NEW K, NEW V, NEW f
    PROVE  f \in Partial(K, V) <=> /\ f = [k \in DOMAIN f |-> f[k]] /\ DOMAIN f \subseteq K
                                   /\ \A k \in DOMAIN f : f[k] \in V
<1>1. f \in Partial(K, V) => \E D \in SUBSET K : f \in [D -> V]
  BY DEF Partial
<1>2. ASSUME f = [k \in DOMAIN f |-> f[k]], DOMAIN f \subseteq K, \A k \in DOMAIN f : f[k] \in V
      PROVE  f \in Partial(K, V)
  <2>1. f \in [DOMAIN f -> V]
    BY <1>2
  <2> QED BY <1>2, <2>1 DEF Partial
<1> QED BY <1>1, <1>2

\* What a sequence holds, by position.
LEMMA SeqFacts ==
    ASSUME NEW S, NEW s \in Seq(S)
    PROVE  /\ Len(s) \in Nat /\ DOMAIN s = 1 .. Len(s)
           /\ \A i \in 1 .. Len(s) : s[i] \in S
BY LenProperties, ElementOfSeq

-----------------------------------------------------------------------------
(* Importing a sequence of UPDATEs.                                        *)

\* g lists the Adj-RIB-In after each of the first n UPDATEs of s.
Run(g, rib, s, n) ==
    g = [i \in 0 .. n |-> IF i = 0 THEN rib ELSE Imported(g[i - 1], s[i])]

\* There is such a list, whatever is imported.
LEMMA RunExists ==
    ASSUME NEW rib, NEW s, NEW n \in Nat
    PROVE  \E g : Run(g, rib, s, n)
<1> DEFINE T == {m \in Nat : ~ \E g : Run(g, rib, s, m)}
<1> SUFFICES ASSUME n \in T PROVE FALSE
  OBVIOUS
<1>1. PICK m \in T : \A k \in T : m <= k
  <2>1. T \in SUBSET Nat /\ T # {}
    OBVIOUS
  <2> HIDE DEF T
  <2> QED BY <2>1, LeastNat
<1>2. m \in Nat /\ ~ \E g : Run(g, rib, s, m)
  BY <1>1
<1>3. CASE m = 0
  <2> DEFINE g == [i \in 0 .. 0 |-> rib]
  <2>1. g = [i \in 0 .. 0 |-> IF i = 0 THEN rib ELSE Imported(g[i - 1], s[i])]
    OBVIOUS
  <2>2. Run(g, rib, s, 0)
    BY <2>1 DEF Run
  <2> QED BY <1>2, <1>3, <2>2
<1>4. CASE m # 0
  <2>1. m - 1 \in Nat /\ ~(m <= m - 1)
    BY <1>2, <1>4
  <2>2. PICK h : Run(h, rib, s, m - 1)
    BY <1>1, <2>1
  <2> DEFINE g == [i \in 0 .. m |-> IF i = m THEN Imported(h[m - 1], s[m]) ELSE h[i]]
  <2>3. \A i \in 0 .. m - 1 : h[i] = IF i = 0 THEN rib ELSE Imported(h[i - 1], s[i])
    BY <2>2 DEF Run
  <2>4. ASSUME NEW i \in 0 .. m
        PROVE  g[i] = IF i = 0 THEN rib ELSE Imported(g[i - 1], s[i])
    <3>1. CASE i = m
      <4>1. g[i] = Imported(h[m - 1], s[m]) /\ g[m - 1] = h[m - 1] /\ i # 0
        BY <1>2, <1>4, <2>1, <3>1
      <4> HIDE DEF g
      <4> QED BY <3>1, <4>1
    <3>2. CASE i # m /\ i = 0
      <4>1. 0 \in 0 .. m - 1
        BY <2>1
      <4> QED BY <2>3, <3>2, <4>1
    <3>3. CASE i # m /\ i # 0
      <4>1. i \in 0 .. m - 1 /\ i - 1 \in 0 .. m /\ i - 1 # m
        BY <1>2, <3>3
      <4>2. g[i] = h[i] /\ g[i - 1] = h[i - 1]
        BY <3>3, <4>1
      <4> HIDE DEF g
      <4> QED BY <2>3, <3>3, <4>1, <4>2
    <3> QED BY <3>1, <3>2, <3>3
  <2>5. g = [i \in 0 .. m |-> g[i]]
    OBVIOUS
  <2> HIDE DEF g
  <2>6. Run(g, rib, s, m)
    BY <2>4, <2>5 DEF Run
  <2> QED BY <1>2, <2>6
<1> QED BY <1>3, <1>4

\* What a run holds, position by position.
LEMMA RunSteps ==
    ASSUME NEW g, NEW rib, NEW s, NEW n \in Nat, Run(g, rib, s, n)
    PROVE  g[0] = rib /\ \A i \in 1 .. n : g[i] = Imported(g[i - 1], s[i])
<1>1. \A i \in 0 .. n : g[i] = IF i = 0 THEN rib ELSE Imported(g[i - 1], s[i])
  BY DEF Run
<1>2. 0 \in 0 .. n
  OBVIOUS
<1>3. \A i \in 1 .. n : i \in 0 .. n /\ i # 0
  OBVIOUS
<1> QED BY <1>1, <1>2, <1>3

\* ImportAll is the last entry of the list, however the list was found.
LEMMA ImportRun ==
    ASSUME NEW rib, NEW s, Len(s) \in Nat, NEW g, g[0] = rib,
           \A i \in 1 .. Len(s) : g[i] = Imported(g[i - 1], s[i])
    PROVE  ImportAll(rib, s) = g[Len(s)]
<1> DEFINE n == Len(s)
           a == CHOOSE f : f = [i \in 0 .. n |-> IF i = 0 THEN rib ELSE Imported(f[i - 1], s[i])]
<1>1. \E f : f = [i \in 0 .. n |-> IF i = 0 THEN rib ELSE Imported(f[i - 1], s[i])]
  <2>1. \E f : Run(f, rib, s, n)
    BY RunExists
  <2> HIDE DEF n
  <2> QED BY <2>1 DEF Run
<1>2. a = [i \in 0 .. n |-> IF i = 0 THEN rib ELSE Imported(a[i - 1], s[i])]
  <2> HIDE DEF n
  <2> QED BY <1>1
<1>3. ImportAll(rib, s) = a[n]
  BY DEF ImportAll
<1>4. Run(a, rib, s, n)
  BY <1>2 DEF Run
<1> HIDE DEF a, n
<1>5. n \in Nat /\ \A i \in 1 .. n : g[i] = Imported(g[i - 1], s[i])
  BY DEF n
<1>6. a[0] = rib /\ \A i \in 1 .. n : a[i] = Imported(a[i - 1], s[i])
  BY <1>4, <1>5, RunSteps
<1> DEFINE T == {i \in 0 .. n : a[i] # g[i]}
<1>7. T = {}
  <2> SUFFICES ASSUME T # {} PROVE FALSE
    OBVIOUS
  <2>1. PICK m \in T : \A k \in T : m <= k
    <3>1. T \in SUBSET Nat
      BY <1>5
    <3> HIDE DEF T
    <3> QED BY <3>1, LeastNat
  <2>2. m \in 0 .. n /\ a[m] # g[m]
    BY <2>1
  <2>3. m # 0
    BY <1>6, <2>2
  <2>4. m \in 1 .. n /\ m - 1 \in 0 .. n /\ ~(m <= m - 1)
    BY <1>5, <2>2, <2>3
  <2>5. a[m - 1] = g[m - 1]
    BY <2>1, <2>4
  <2> QED BY <1>5, <1>6, <2>2, <2>4, <2>5
<1>8. n \in 0 .. n
  BY <1>5
<1>9. a[n] = g[n]
  BY <1>7, <1>8
<1> QED BY <1>3, <1>9 DEF n

\* Nothing to import.
LEMMA ImportNone ==
    ASSUME NEW rib
    PROVE  ImportAll(rib, <<>>) = rib
<1> DEFINE s == <<>>
           g == [i \in {0} |-> rib]
<1>1. Len(s) = 0 /\ g[0] = rib /\ 1 .. Len(s) = {}
  OBVIOUS
<1>2. \A i \in 1 .. Len(s) : g[i] = Imported(g[i - 1], s[i])
  BY <1>1
<1> HIDE DEF g, s
<1>3. ImportAll(rib, s) = g[Len(s)]
  BY <1>1, <1>2, ImportRun
<1> QED BY <1>1, <1>3 DEF s

\* Importing what is imported in two parts, one after the other.
LEMMA ImportConcat ==
    ASSUME NEW rib, NEW S, NEW s \in Seq(S), NEW t \in Seq(S)
    PROVE  ImportAll(rib, s \o t) = ImportAll(ImportAll(rib, s), t)
<1> DEFINE u == s \o t
           m == Len(s)
           n == Len(t)
<1>1. /\ m \in Nat /\ n \in Nat /\ Len(u) = m + n
      /\ \A i \in 1 .. m + n : u[i] = IF i <= m THEN s[i] ELSE t[i - m]
  BY ConcatProperties, LenProperties
<1>2. PICK g : Run(g, rib, u, m + n)
  <2>1. m + n \in Nat
    BY <1>1
  <2> HIDE DEF u, m, n
  <2> QED BY <2>1, RunExists
<1> HIDE DEF u
<1>3. g[0] = rib /\ \A i \in 1 .. m + n : g[i] = Imported(g[i - 1], u[i])
  BY <1>1, <1>2, RunSteps
<1>4. ImportAll(rib, u) = g[m + n]
  <2> HIDE DEF m, n
  <2>1. Len(u) \in Nat /\ \A i \in 1 .. Len(u) : g[i] = Imported(g[i - 1], u[i])
    BY <1>1, <1>3
  <2>2. ImportAll(rib, u) = g[Len(u)]
    BY <1>3, <2>1, ImportRun
  <2> QED BY <1>1, <2>2
<1> DEFINE h == [i \in 0 .. n |-> g[m + i]]
<1> HIDE DEF m, n
<1>5. \A i \in 1 .. m : g[i] = Imported(g[i - 1], s[i])
  <2> SUFFICES ASSUME NEW i \in 1 .. m PROVE g[i] = Imported(g[i - 1], s[i])
    OBVIOUS
  <2>1. i \in 1 .. m + n /\ i <= m
    BY <1>1
  <2>2. u[i] = s[i]
    BY <1>1, <2>1
  <2> QED BY <1>3, <2>1, <2>2
<1>6. ImportAll(rib, s) = g[m]
  BY <1>1, <1>3, <1>5, ImportRun DEF m
<1>7. h[0] = g[m] /\ h[n] = g[m + n]
  BY <1>1
<1>8. ASSUME NEW i \in 1 .. n PROVE h[i] = Imported(h[i - 1], t[i])
  <2>1. i \in 0 .. n /\ i - 1 \in 0 .. n /\ m + i \in 1 .. m + n /\ ~(m + i <= m)
    BY <1>1
  <2>2. (m + i) - m = i /\ (m + i) - 1 = m + (i - 1)
    BY <1>1
  <2>3. u[m + i] = t[i]
    BY <1>1, <2>1, <2>2
  <2>4. h[i] = g[m + i] /\ h[i - 1] = g[m + (i - 1)]
    BY <2>1
  <2>5. g[m + i] = Imported(g[(m + i) - 1], u[m + i])
    BY <1>3, <2>1
  <2> QED BY <2>2, <2>3, <2>4, <2>5
<1> HIDE DEF h
<1>9. ImportAll(g[m], t) = h[n]
  BY <1>1, <1>7, <1>8, ImportRun DEF n
<1> QED BY <1>4, <1>6, <1>7, <1>9 DEF u

\* What every UPDATE keeps, all of them keep.
LEMMA ImportKeeps ==
    ASSUME NEW S, NEW s \in Seq(S), NEW G, NEW rib \in G,
           \A x \in G : \A i \in DOMAIN s : Imported(x, s[i]) \in G
    PROVE  ImportAll(rib, s) \in G
<1> DEFINE n == Len(s)
<1>1. n \in Nat /\ DOMAIN s = 1 .. n
  BY SeqFacts
<1>2. PICK g : Run(g, rib, s, n)
  BY <1>1, RunExists
<1>3. g[0] = rib /\ \A i \in 1 .. n : g[i] = Imported(g[i - 1], s[i])
  BY <1>1, <1>2, RunSteps
<1>4. ImportAll(rib, s) = g[n]
  BY <1>1, <1>3, ImportRun
<1> HIDE DEF n
<1> DEFINE T == {i \in 0 .. n : g[i] \notin G}
<1>5. T = {}
  <2> SUFFICES ASSUME T # {} PROVE FALSE
    OBVIOUS
  <2>1. PICK m \in T : \A k \in T : m <= k
    <3>1. T \in SUBSET Nat
      BY <1>1
    <3> HIDE DEF T
    <3> QED BY <3>1, LeastNat
  <2>2. m \in 0 .. n /\ g[m] \notin G
    BY <2>1
  <2>3. m # 0
    BY <1>3, <2>2
  <2>4. m \in 1 .. n /\ m - 1 \in 0 .. n /\ ~(m <= m - 1)
    BY <1>1, <2>2, <2>3
  <2>5. g[m - 1] \in G
    BY <2>1, <2>4
  <2> QED BY <1>1, <1>3, <2>2, <2>4, <2>5
<1>6. n \in 0 .. n
  BY <1>1
<1> QED BY <1>4, <1>5, <1>6

-----------------------------------------------------------------------------
(* The inductive invariant.                                                *)

\* A leaf p that claims m with number n does not claim more than the host's moves,
\* and less where the host is not; as long as there is one host.
ClaimOK(p, m, n) ==
    Cardinality(where[m]) = 1 => n <= moves[m] /\ (p \notin where[m] => n < moves[m])

\* Every claim, held, heard or under way.
LocalOK(l, v) == \A m \in DOMAIN v.local : ClaimOK(l, m, v.local[m])
RemoteOK(v) == \A m \in DOMAIN v.remote : ClaimOK(v.remote[m].vtep, m, v.remote[m].seq)
RibOK(p, rib) == \A m \in DOMAIN rib \cap Mac : ClaimOK(p, m, rib[m])
DupOK(v) == \A m \in v.dup : Cardinality(where[m]) = 1 => moves[m] > MoveLimit
QueueOK(p, s) == \A i \in DOMAIN s : \A m \in s[i].announce \cap Mac : ClaimOK(p, m, s[i].seq)

ClaimsOK ==
    /\ \A l \in Leaf : /\ LocalOK(l, leaf[l]) /\ RemoteOK(leaf[l]) /\ DupOK(leaf[l])
                       /\ \A p \in Leaf \ {l} : RibOK(p, leaf[l].ribIn[p])
    /\ \A c \in Leaf \X Leaf : QueueOK(c[1], channel[c])

\* An end that is down has nothing to read and counts nothing as told; what it heard
\* it may still retain.
DownForgets ==
    \A l \in Leaf : \A p \in Leaf \ {l} :
        <<l, p>> \notin up => leaf[l].ribOut[p] = None /\ channel[<<p, l>>] = <<>>

\* The fields of a leaf.
LeafType(l, v) ==
    /\ v = [local |-> v.local, remote |-> v.remote, flood |-> v.flood, dup |-> v.dup,
            ribIn |-> v.ribIn, ribOut |-> v.ribOut]
    /\ v.local \in Partial(Mac, Seqs)
    /\ v.remote \in Partial(Mac, [vtep : Leaf \ {l}, seq : Seqs])
    /\ v.flood \subseteq Leaf \ {l} /\ v.dup \subseteq Mac
    /\ v.ribIn \in [Leaf \ {l} -> Partial(Item, Seqs)]
    /\ v.ribOut \in [Leaf \ {l} -> Partial(Item, Seqs)]

FabricInv ==
    /\ TypeOK /\ leaf = [l \in Leaf |-> leaf[l]] /\ \A l \in Leaf : LeafType(l, leaf[l])
    /\ RibsAgree /\ DownForgets /\ ClaimsOK

-----------------------------------------------------------------------------
(* What advertise_evpn_to_peer sends.                                      *)

UpdateType == [withdraw : SUBSET Item, announce : SUBSET Item, seq : Seqs]

\* Nth numbers the elements of a finite set of naturals.
LEMMA NthFacts ==
    ASSUME NEW S \in SUBSET Nat, IsFiniteSet(S)
    PROVE  /\ Cardinality(S) \in Nat
           /\ \E f \in [S -> 1 .. Cardinality(S)] :
                 /\ \A i \in 1 .. Cardinality(S) : Nth(S, i) \in S /\ f[Nth(S, i)] = i
                 /\ \A x, y \in S : f[x] = f[y] => x = y
<1> DEFINE B(x) == {y \in S : y <= x}
           c == Cardinality(S)
           f == [x \in S |-> Cardinality(B(x))]
<1>1. c \in Nat
  BY FS_CardinalityType
<1>2. \A x \in S : /\ IsFiniteSet(B(x)) /\ Cardinality(B(x)) \in Nat
                   /\ Cardinality(B(x)) <= c
  <2> SUFFICES ASSUME NEW x \in S
               PROVE  IsFiniteSet(B(x)) /\ Cardinality(B(x)) \in Nat /\ Cardinality(B(x)) <= c
    OBVIOUS
  <2>1. B(x) \in SUBSET S
    OBVIOUS
  <2> HIDE DEF B
  <2> QED BY <2>1, FS_Subset, FS_CardinalityType
<1>3. \A x \in S : Cardinality(B(x)) >= 1
  <2> SUFFICES ASSUME NEW x \in S PROVE Cardinality(B(x)) >= 1
    OBVIOUS
  <2>1. x \in B(x)
    OBVIOUS
  <2> HIDE DEF B
  <2>2. Cardinality(B(x)) # 0
    BY <1>2, <2>1, FS_EmptySet
  <2> QED BY <1>2, <2>2
<1>4. ASSUME NEW x \in S, NEW y \in S, x < y PROVE Cardinality(B(x)) < Cardinality(B(y))
  <2>1. x \in Nat /\ y \in Nat /\ S \subseteq Nat
    OBVIOUS
  <2>2. \A z \in S : z <= x => z <= y
    BY <1>4, <2>1
  <2>3. B(x) \in SUBSET B(y)
    BY <2>2
  <2>4. y \in B(y) /\ y \notin B(x)
    BY <1>4, <2>1
  <2> HIDE DEF B
  <2>5. Cardinality(B(x)) <= Cardinality(B(y)) /\ Cardinality(B(y)) # Cardinality(B(x))
    BY <1>2, <2>3, <2>4, FS_Subset
  <2> QED BY <1>2, <2>5
<1>5. \A x \in S : f[x] = Cardinality(B(x)) /\ f[x] \in 1 .. c
  <2> HIDE DEF B
  <2> QED BY <1>1, <1>2, <1>3
<1>6. f \in [S -> 1 .. c]
  <2> HIDE DEF B
  <2> QED BY <1>5
<1>7. \A i : Nth(S, i) = CHOOSE x \in S : Cardinality(B(x)) = i
  BY DEF Nth
<1> HIDE DEF f, B, c
<1>8. \A x, y \in S : f[x] = f[y] => x = y
  <2> SUFFICES ASSUME NEW x \in S, NEW y \in S, x # y PROVE f[x] # f[y]
    OBVIOUS
  <2>1. x \in Nat /\ y \in Nat
    OBVIOUS
  <2>2. x < y \/ y < x
    BY <2>1
  <2>3. Cardinality(B(x)) < Cardinality(B(y)) \/ Cardinality(B(y)) < Cardinality(B(x))
    BY <1>4, <2>2
  <2> QED BY <1>2, <1>5, <2>3
<1>9. f \in Injection(S, 1 .. c)
  BY <1>6, <1>8 DEF Injection, IsInjective
<1>10. IsFiniteSet(1 .. c) /\ Cardinality(1 .. c) = c /\ Cardinality(S) = c
  BY <1>1, FS_Interval DEF c
<1>11. f \in Surjection(S, 1 .. c)
  BY <1>9, <1>10, FS_Injection
<1>12. \A i \in 1 .. c : \E x \in S : Cardinality(B(x)) = i
  BY <1>5, <1>11 DEF Surjection
<1>13. \A i \in 1 .. c : Nth(S, i) \in S /\ f[Nth(S, i)] = i
  BY <1>5, <1>7, <1>12
<1> QED BY <1>1, <1>6, <1>8, <1>13 DEF c

\* One UPDATE: withdrawn keys go, announced ones have its number.
LEMMA ImportedFacts ==
    ASSUME NEW rib, NEW u
    PROVE  LET r == Imported(rib, u)
           IN  /\ r = [k \in DOMAIN r |-> r[k]]
               /\ DOMAIN r = (DOMAIN rib \ u.withdraw) \cup u.announce
               /\ \A k \in DOMAIN r : r[k] = IF k \in u.announce THEN u.seq ELSE rib[k]
BY DEF Imported, With, Without, Restrict

\* The announcements, imported after whatever was to be withdrawn, bring the
\* desired routes.
LEMMA AnnouncementsBring ==
    ASSUME NEW desired \in Partial(Item, Seqs), NEW out \in Partial(Item, Seqs),
           NEW rib \in Partial(Item, Seqs), DOMAIN rib = DOMAIN out \cap DOMAIN desired,
           \A k \in DOMAIN rib : rib[k] = out[k]
    PROVE  /\ Announcements(desired, out) \in Seq(UpdateType)
           /\ ImportAll(rib, Announcements(desired, out)) = desired
           /\ \A i \in DOMAIN Announcements(desired, out) :
                 \A k \in Announcements(desired, out)[i].announce :
                    /\ k \in DOMAIN desired
                    /\ desired[k] = Announcements(desired, out)[i].seq
<1> DEFINE C == Changed(desired, out)
           N == {desired[k] : k \in C}
           c == Cardinality(N)
           s == Announcements(desired, out)
<1>1. /\ desired = [k \in DOMAIN desired |-> desired[k]] /\ DOMAIN desired \subseteq Item
      /\ \A k \in DOMAIN desired : desired[k] \in Seqs
  BY PartialDef
<1>2. rib = [k \in DOMAIN rib |-> rib[k]]
  BY PartialDef
<1>3. C \subseteq DOMAIN desired /\ \A k \in DOMAIN desired : k \notin C => k \in DOMAIN out /\ out[k] = desired[k]
  BY DEF Changed
<1>4. N \subseteq Seqs /\ N \in SUBSET Nat /\ IsFiniteSet(N)
  <2>1. Seqs \subseteq Nat /\ IsFiniteSet(Seqs)
    BY FabricAssumption, FS_Interval DEF Seqs
  <2>2. N \subseteq Seqs
    BY <1>1, <1>3
  <2> HIDE DEF N
  <2> QED BY <2>1, <2>2, FS_Subset
<1>5. c \in Nat
  <2> HIDE DEF N
  <2> QED BY <1>4, NthFacts
<1>6. PICK f \in [N -> 1 .. c] : /\ \A i \in 1 .. c : Nth(N, i) \in N /\ f[Nth(N, i)] = i
                                 /\ \A x, y \in N : f[x] = f[y] => x = y
  <2> HIDE DEF N
  <2> QED BY <1>4, NthFacts
<1>7. s = [i \in 1 .. c |-> Update({}, {k \in C : desired[k] = Nth(N, i)}, Nth(N, i))]
  BY DEF Announcements
<1>8. \A k \in C : desired[k] \in N
  OBVIOUS
<1> HIDE DEF N, C, c, s
<1>9. \A i \in 1 .. c : /\ s[i].withdraw = {} /\ s[i].seq = Nth(N, i)
                        /\ s[i].announce = {k \in C : desired[k] = Nth(N, i)}
                        /\ s[i] \in UpdateType
  <2> SUFFICES ASSUME NEW i \in 1 .. c
               PROVE  /\ s[i].withdraw = {} /\ s[i].seq = Nth(N, i)
                      /\ s[i].announce = {k \in C : desired[k] = Nth(N, i)}
                      /\ s[i] \in UpdateType
    OBVIOUS
  <2>1. s[i] = Update({}, {k \in C : desired[k] = Nth(N, i)}, Nth(N, i))
    BY <1>7
  <2>2. {k \in C : desired[k] = Nth(N, i)} \in SUBSET Item /\ Nth(N, i) \in Seqs
    BY <1>1, <1>3, <1>4, <1>6
  <2> QED BY <2>1, <2>2 DEF Update, UpdateType
<1>10. s \in [1 .. c -> UpdateType]
  BY <1>7, <1>9
<1>11. s \in Seq(UpdateType) /\ Len(s) = c /\ DOMAIN s = 1 .. c
  BY <1>5, <1>10
<1> DEFINE In(k, i) == k \in C /\ f[desired[k]] <= i
           D(i) == DOMAIN rib \cup {k \in C : In(k, i)}
           g == [i \in 0 .. c |-> [k \in D(i) |-> IF In(k, i) THEN desired[k] ELSE rib[k]]]
<1>12. \A k \in C : f[desired[k]] \in 1 .. c
  BY <1>6, <1>8
<1>13. g[0] = rib
  <2>1. 0 \in 0 .. c /\ \A k : ~In(k, 0)
    BY <1>5, <1>12
  <2>2. D(0) = DOMAIN rib
    BY <2>1
  <2>3. g[0] = [k \in D(0) |-> IF In(k, 0) THEN desired[k] ELSE rib[k]]
    BY <2>1
  <2> HIDE DEF g, In, D
  <2> QED BY <1>2, <2>1, <2>2, <2>3
<1>14. ASSUME NEW i \in 1 .. c PROVE g[i] = Imported(g[i - 1], s[i])
  <2>1. i \in 0 .. c /\ i - 1 \in 0 .. c /\ i \in Nat
    BY <1>5
  <2>2. \A k : k \in s[i].announce <=> k \in C /\ f[desired[k]] = i
    BY <1>6, <1>8, <1>9
  <2>3. \A k \in C : f[desired[k]] <= i <=> f[desired[k]] <= i - 1 \/ f[desired[k]] = i
    BY <1>12, <2>1
  <2>4. \A k \in C : f[desired[k]] = i => ~(f[desired[k]] <= i - 1)
    BY <1>12, <2>1
  <2>5. \A k : In(k, i) <=> In(k, i - 1) \/ k \in s[i].announce
    BY <2>2, <2>3
  <2>6. /\ g[i] = [k \in D(i) |-> IF In(k, i) THEN desired[k] ELSE rib[k]]
        /\ g[i - 1] = [k \in D(i - 1) |-> IF In(k, i - 1) THEN desired[k] ELSE rib[k]]
    BY <2>1
  <2>7. D(i) = D(i - 1) \cup s[i].announce
    BY <2>2, <2>5
  <2>8. \A k \in s[i].announce : In(k, i) /\ desired[k] = s[i].seq
    BY <1>9, <2>5
  <2> DEFINE r == Imported(g[i - 1], s[i])
  <2> HIDE DEF g, In, D
  <2>9. /\ r = [k \in DOMAIN r |-> r[k]]
        /\ DOMAIN r = (DOMAIN g[i - 1] \ s[i].withdraw) \cup s[i].announce
        /\ \A k \in DOMAIN r : r[k] = IF k \in s[i].announce THEN s[i].seq ELSE g[i - 1][k]
    BY ImportedFacts
  <2> HIDE DEF r
  <2>10. DOMAIN r = D(i)
    BY <1>9, <2>6, <2>7, <2>9
  <2>11. ASSUME NEW k \in D(i) PROVE r[k] = IF In(k, i) THEN desired[k] ELSE rib[k]
    <3>1. CASE k \in s[i].announce
      BY <2>8, <2>9, <2>10, <3>1
    <3>2. CASE k \notin s[i].announce
      <4>1. k \in D(i - 1) /\ r[k] = g[i - 1][k]
        BY <2>7, <2>9, <2>10, <3>2
      <4>2. g[i - 1][k] = IF In(k, i - 1) THEN desired[k] ELSE rib[k]
        BY <2>6, <4>1
      <4> QED BY <2>5, <3>2, <4>1, <4>2
    <3> QED BY <3>1, <3>2
  <2> QED BY <2>6, <2>9, <2>10, <2>11 DEF r
<1>15. g[c] = desired
  <2>1. c \in 0 .. c
    BY <1>5
  <2>2. g[c] = [k \in D(c) |-> IF In(k, c) THEN desired[k] ELSE rib[k]]
    BY <2>1
  <2>3. \A k : In(k, c) <=> k \in C
    BY <1>5, <1>12
  <2>4. D(c) = DOMAIN rib \cup C
    BY <2>3
  <2> HIDE DEF g, In, D
  <2>5. D(c) = DOMAIN desired
    BY <1>3, <2>4
  <2>6. \A k \in DOMAIN desired : (IF In(k, c) THEN desired[k] ELSE rib[k]) = desired[k]
    BY <1>3, <2>3
  <2> QED BY <1>1, <2>2, <2>5, <2>6
<1> HIDE DEF g
<1>16. ImportAll(rib, s) = g[c]
  <2>1. Len(s) \in Nat /\ \A i \in 1 .. Len(s) : g[i] = Imported(g[i - 1], s[i])
    BY <1>5, <1>11, <1>14
  <2>2. ImportAll(rib, s) = g[Len(s)]
    BY <1>13, <2>1, ImportRun
  <2> QED BY <1>11, <2>2
<1>17. \A i \in DOMAIN s : \A k \in s[i].announce : k \in DOMAIN desired /\ desired[k] = s[i].seq
  BY <1>3, <1>9, <1>11
<1> QED BY <1>11, <1>15, <1>16, <1>17 DEF s

\* What is sent takes the peer from what it was told before to the desired routes,
\* and announces nothing else.
LEMMA UpdatesBring ==
    ASSUME NEW desired \in Partial(Item, Seqs), NEW out \in Partial(Item, Seqs)
    PROVE  /\ Updates(desired, out) \in Seq(UpdateType)
           /\ ImportAll(out, Updates(desired, out)) = desired
           /\ \A i \in DOMAIN Updates(desired, out) :
                 \A k \in Updates(desired, out)[i].announce :
                    k \in DOMAIN desired /\ desired[k] = Updates(desired, out)[i].seq
<1> DEFINE gone == DOMAIN out \ DOMAIN desired
           rib == Without(out, gone)
           w == Withdrawal(desired, out)
           a == Announcements(desired, out)
           s == w \o a
           u == Update(gone, {}, 0)
<1>1. /\ out = [k \in DOMAIN out |-> out[k]] /\ DOMAIN out \subseteq Item
      /\ \A k \in DOMAIN out : out[k] \in Seqs
  BY PartialDef
<1>2. /\ rib = [k \in DOMAIN rib |-> rib[k]] /\ DOMAIN rib = DOMAIN out \cap DOMAIN desired
      /\ \A k \in DOMAIN rib : rib[k] = out[k]
  BY DEF Without, Restrict
<1>3. u \in UpdateType /\ u.announce = {} /\ u.withdraw = gone
  <2>1. gone \in SUBSET Item /\ {} \in SUBSET Item
    BY <1>1
  <2>2. 0 \in Seqs
    BY FabricAssumption DEF Seqs
  <2> HIDE DEF gone
  <2> QED BY <2>1, <2>2 DEF Update, UpdateType
<1> HIDE DEF rib
<1>4. rib \in Partial(Item, Seqs)
  BY <1>1, <1>2, PartialDef
<1>5. /\ a \in Seq(UpdateType) /\ ImportAll(rib, a) = desired
      /\ \A i \in DOMAIN a : \A k \in a[i].announce : k \in DOMAIN desired /\ desired[k] = a[i].seq
  BY <1>2, <1>4, AnnouncementsBring
<1>6. /\ w \in Seq(UpdateType) /\ ImportAll(out, w) = rib
      /\ \A i \in DOMAIN w : w[i].announce = {}
  <2>1. CASE gone = {}
    <3>1. w = <<>>
      BY <2>1 DEF Withdrawal
    <3>2. rib = out
      BY <1>1, <1>2, <2>1
    <3>3. ImportAll(out, <<>>) = out
      BY ImportNone
    <3> QED BY <3>1, <3>2, <3>3
  <2>2. CASE gone # {}
    <3>1. w = <<u>>
      BY <2>2 DEF Withdrawal
    <3> DEFINE t == <<u>>
               r == Imported(out, u)
               g == [i \in 0 .. 1 |-> IF i = 0 THEN out ELSE r]
    <3>2. /\ r = [k \in DOMAIN r |-> r[k]]
          /\ DOMAIN r = (DOMAIN out \ u.withdraw) \cup u.announce
          /\ \A k \in DOMAIN r : r[k] = IF k \in u.announce THEN u.seq ELSE out[k]
      <4> HIDE DEF u
      <4> QED BY ImportedFacts
    <3>3. DOMAIN r = DOMAIN out \cap DOMAIN desired /\ \A k \in DOMAIN r : r[k] = out[k]
      <4> HIDE DEF u, r
      <4> QED BY <1>3, <3>2
    <3>4. r = rib
      <4> HIDE DEF u, r
      <4> QED BY <1>2, <3>2, <3>3
    <3> HIDE DEF u
    <3>5. Len(t) = 1 /\ t[1] = u /\ DOMAIN t = {1} /\ t \in Seq(UpdateType)
      BY <1>3
    <3>6. g[0] = out /\ g[1] = r
      OBVIOUS
    <3> HIDE DEF g, r, t
    <3>7. \A i \in 1 .. 1 : i = 1 /\ i - 1 = 0
      OBVIOUS
    <3>8. \A i \in 1 .. Len(t) : g[i] = Imported(g[i - 1], t[i])
      BY <3>5, <3>6, <3>7 DEF r
    <3>9. ImportAll(out, t) = g[Len(t)]
      <4>1. Len(t) \in Nat /\ g[0] = out
        BY <3>5, <3>6
      <4> QED BY <3>8, <4>1, ImportRun
    <3> QED BY <1>3, <3>1, <3>4, <3>5, <3>6, <3>9 DEF t
  <2> QED BY <2>1, <2>2
<1> HIDE DEF w, a, u
<1>7. ImportAll(out, s) = desired
  BY <1>5, <1>6, ImportConcat
<1>8. /\ s \in Seq(UpdateType) /\ Len(s) = Len(w) + Len(a) /\ Len(w) \in Nat /\ Len(a) \in Nat
      /\ \A i \in 1 .. Len(w) + Len(a) : s[i] = IF i <= Len(w) THEN w[i] ELSE a[i - Len(w)]
  BY <1>5, <1>6, ConcatProperties, LenProperties
<1>9. DOMAIN w = 1 .. Len(w) /\ DOMAIN a = 1 .. Len(a) /\ DOMAIN s = 1 .. Len(w) + Len(a)
  BY <1>5, <1>6, <1>8, SeqFacts
<1> HIDE DEF s
<1>10. ASSUME NEW i \in DOMAIN s, NEW k \in s[i].announce
       PROVE  k \in DOMAIN desired /\ desired[k] = s[i].seq
  <2>1. CASE i <= Len(w)
    <3>1. i \in DOMAIN w /\ s[i] = w[i]
      BY <1>8, <1>9, <2>1
    <3> QED BY <1>6, <1>10, <3>1
  <2>2. CASE ~(i <= Len(w))
    <3>1. i - Len(w) \in DOMAIN a /\ s[i] = a[i - Len(w)]
      BY <1>8, <1>9, <2>2
    <3> QED BY <1>5, <1>10, <3>1
  <2> QED BY <2>1, <2>2
<1>11. Updates(desired, out) = s
  BY DEF Updates, s, w, a
<1> QED BY <1>7, <1>8, <1>10, <1>11

-----------------------------------------------------------------------------
(* The VTEP.                                                               *)

\* A set with one element is what any of its elements says.
LEMMA OneHost ==
    ASSUME NEW S, IsFiniteSet(S), Cardinality(S) = 1, NEW x \in S
    PROVE  S = {x}
<1>1. \E y : S = {y}
  BY FS_Singleton
<1> QED BY <1>1

\* Maps with entries set and removed.
LEMMA WithFacts ==
    ASSUME NEW f, NEW S, NEW v
    PROVE  /\ With(f, S, v) = [k \in DOMAIN f \cup S |-> IF k \in S THEN v ELSE f[k]]
           /\ DOMAIN With(f, S, v) = DOMAIN f \cup S
           /\ \A k \in DOMAIN f \cup S : With(f, S, v)[k] = IF k \in S THEN v ELSE f[k]
           /\ Without(f, S) = [k \in DOMAIN f \ S |-> f[k]]
           /\ DOMAIN Without(f, S) = DOMAIN f \ S
           /\ \A k \in DOMAIN f \ S : Without(f, S)[k] = f[k]
BY DEF With, Without, Restrict

\* A map keeps its type when entries are set or removed.
LEMMA WithType ==
    ASSUME NEW K, NEW V, NEW f \in Partial(K, V), NEW S, NEW v \in V
    PROVE  /\ S \subseteq K => With(f, S, v) \in Partial(K, V)
           /\ Without(f, S) \in Partial(K, V)
<1>1. DOMAIN f \subseteq K /\ \A k \in DOMAIN f : f[k] \in V
  BY PartialDef
<1> DEFINE g == With(f, S, v)
           h == Without(f, S)
<1>2. g = [k \in DOMAIN f \cup S |-> IF k \in S THEN v ELSE f[k]]
  BY WithFacts
<1>3. h = [k \in DOMAIN f \ S |-> f[k]]
  BY WithFacts
<1> HIDE DEF g, h
<1>4. g = [k \in DOMAIN g |-> g[k]] /\ DOMAIN g = DOMAIN f \cup S /\ \A k \in DOMAIN g : g[k] \in V
  BY <1>1, <1>2
<1>5. h = [k \in DOMAIN h |-> h[k]] /\ DOMAIN h = DOMAIN f \ S /\ \A k \in DOMAIN h : h[k] \in V
  BY <1>1, <1>3
<1>6. S \subseteq K => g \in Partial(K, V)
  BY <1>1, <1>4, PartialDef
<1>7. h \in Partial(K, V)
  BY <1>1, <1>5, PartialDef
<1> QED BY <1>6, <1>7 DEF g, h

\* The numbers are naturals.
LEMMA SeqsNat == Seqs \subseteq Nat /\ 0 \in Seqs /\ MoveLimit \in Nat /\ \A n \in Nat : n <= MoveLimit => n \in Seqs
BY FabricAssumption DEF Seqs

\* The number learn_local gives to a host that is there does not exceed its moves:
\* what it outbids was claimed by a leaf where the host is not.
LEMMA SequenceBounded ==
    ASSUME NEW l \in Leaf, NEW v, LeafType(l, v), LocalOK(l, v), RemoteOK(v),
           NEW m \in Mac, l \in where[m], where[m] \subseteq Leaf, moves[m] \in Nat
    PROVE  SequenceFor(v, m) \in Nat /\ ClaimOK(l, m, SequenceFor(v, m))
<1> DEFINE a == IF m \in DOMAIN v.local THEN v.local[m] ELSE 0
           b == IF m \in DOMAIN v.remote THEN v.remote[m].seq + 1 ELSE 0
<1>1. /\ m \in DOMAIN v.local => v.local[m] \in Nat
      /\ m \in DOMAIN v.remote => v.remote[m].seq \in Nat /\ v.remote[m].vtep \in Leaf \ {l}
  <2>1. v.local \in Partial(Mac, Seqs) /\ v.remote \in Partial(Mac, [vtep : Leaf \ {l}, seq : Seqs])
    BY DEF LeafType
  <2>2. m \in DOMAIN v.local => v.local[m] \in Seqs
    BY <2>1, PartialDef
  <2>3. m \in DOMAIN v.remote => v.remote[m] \in [vtep : Leaf \ {l}, seq : Seqs]
    <3> DEFINE V == [vtep : Leaf \ {l}, seq : Seqs]
    <3> HIDE DEF V
    <3>1. v.remote \in Partial(Mac, V)
      BY <2>1 DEF V
    <3>2. m \in DOMAIN v.remote => v.remote[m] \in V
      BY <3>1, PartialDef
    <3> QED BY <3>2 DEF V
  <2> QED BY <2>2, <2>3, SeqsNat
<1>2. a \in Nat /\ b \in Nat
  BY <1>1
<1>3. SequenceFor(v, m) = Max({a} \cup {b})
  BY DEF SequenceFor
<1>4. ASSUME Cardinality(where[m]) = 1 PROVE a <= moves[m] /\ b <= moves[m]
  <2>1. where[m] = {l}
    <3>1. IsFiniteSet(where[m])
      BY FabricAssumption, FS_Subset
    <3> QED BY <1>4, <3>1, OneHost
  <2>2. a <= moves[m]
    BY <1>1, <1>4 DEF LocalOK, ClaimOK
  <2>3. m \in DOMAIN v.remote => v.remote[m].seq < moves[m]
    BY <1>1, <1>4, <2>1 DEF RemoteOK, ClaimOK
  <2>4. b <= moves[m]
    BY <1>1, <2>3
  <2> QED BY <2>2, <2>4
<1> HIDE DEF a, b
<1>5. Max({a} \cup {b}) \in {a} \cup {b}
  <2>1. IsFiniteSet({a} \cup {b}) /\ {a} \cup {b} \in SUBSET Nat /\ {a} \cup {b} # {}
    <3>1. IsFiniteSet({a}) /\ IsFiniteSet({b})
      BY FS_Singleton
    <3> QED BY <1>2, <3>1, FS_Union
  <2> QED BY <2>1, MaxIn
<1> QED BY <1>2, <1>3, <1>4, <1>5 DEF ClaimOK

\* learn_local.
LEMMA LearnKeeps ==
    ASSUME NEW l \in Leaf, NEW v, LeafType(l, v), LocalOK(l, v), RemoteOK(v), DupOK(v),
           NEW m \in Mac, l \in where[m], where[m] \subseteq Leaf, moves[m] \in Nat
    PROVE  LET w == LearnLocal(v, m)
           IN  /\ LeafType(l, w) /\ LocalOK(l, w) /\ DupOK(w)
               /\ w.remote = v.remote /\ w.ribIn = v.ribIn /\ w.ribOut = v.ribOut
<1> DEFINE n == SequenceFor(v, m)
           w == LearnLocal(v, m)
<1>1. n \in Nat /\ ClaimOK(l, m, n)
  BY SequenceBounded
<1> HIDE DEF n
<1>2. v.local \in Partial(Mac, Seqs) /\ v.dup \subseteq Mac
  BY DEF LeafType
<1>3. v = [local |-> v.local, remote |-> v.remote, flood |-> v.flood, dup |-> v.dup,
           ribIn |-> v.ribIn, ribOut |-> v.ribOut]
  BY DEF LeafType
<1>4. w = v \/ (n > MoveLimit /\ w = Declare(v, m))
            \/ (n <= MoveLimit /\ w = [v EXCEPT !.local = With(@, {m}, n)])
  BY <1>1, SeqsNat DEF LearnLocal, n
<1> HIDE DEF w
<1>5. CASE w = v
  BY <1>5 DEF w
<1>6. CASE n > MoveLimit /\ w = Declare(v, m)
  <2> DEFINE f == Without(v.local, {m})
  <2>1. w = [local |-> f, remote |-> v.remote, flood |-> v.flood, dup |-> v.dup \cup {m},
             ribIn |-> v.ribIn, ribOut |-> v.ribOut]
    BY <1>3, <1>6 DEF Declare
  <2>2. f \in Partial(Mac, Seqs)
    BY <1>2, SeqsNat, WithType
  <2>3. DOMAIN f = DOMAIN v.local \ {m} /\ \A k \in DOMAIN f : f[k] = v.local[k]
    BY DEF Without, Restrict
  <2> HIDE DEF f
  <2>4. LeafType(l, w)
    BY <1>2, <2>1, <2>2 DEF LeafType
  <2>5. LocalOK(l, w)
    BY <2>1, <2>3 DEF LocalOK
  <2>6. Cardinality(where[m]) = 1 => moves[m] > MoveLimit
    BY <1>1, <1>6, SeqsNat DEF ClaimOK
  <2>7. DupOK(w)
    BY <2>1, <2>6 DEF DupOK
  <2> QED BY <2>1, <2>4, <2>5, <2>7 DEF w
<1>7. CASE n <= MoveLimit /\ w = [v EXCEPT !.local = With(@, {m}, n)]
  <2> DEFINE f == With(v.local, {m}, n)
  <2>1. w = [local |-> f, remote |-> v.remote, flood |-> v.flood, dup |-> v.dup,
             ribIn |-> v.ribIn, ribOut |-> v.ribOut]
    BY <1>3, <1>7
  <2>2. f \in Partial(Mac, Seqs)
    BY <1>1, <1>2, <1>7, SeqsNat, WithType
  <2>3. DOMAIN f = DOMAIN v.local \cup {m} /\ \A k \in DOMAIN f : f[k] = IF k = m THEN n ELSE v.local[k]
    BY DEF With
  <2> HIDE DEF f
  <2>4. LeafType(l, w)
    BY <1>2, <2>1, <2>2 DEF LeafType
  <2>5. LocalOK(l, w)
    BY <1>1, <2>1, <2>3 DEF LocalOK
  <2>6. DupOK(w)
    BY <2>1 DEF DupOK
  <2> QED BY <2>1, <2>4, <2>5, <2>6 DEF w
<1> QED BY <1>4, <1>5, <1>6, <1>7

\* program_from_rib takes each tunnel from a claim that was heard.
LEMMA ProgramKeeps ==
    ASSUME NEW l \in Leaf, NEW v, LeafType(l, v), LocalOK(l, v), DupOK(v),
           \A p \in Leaf \ {l} : RibOK(p, v.ribIn[p])
    PROVE  LET w == Program(v)
           IN  /\ LeafType(l, w) /\ LocalOK(l, w) /\ RemoteOK(w) /\ DupOK(w)
               /\ w.ribIn = v.ribIn /\ w.ribOut = v.ribOut
<1> DEFINE claims(m) == {p \in DOMAIN v.ribIn : m \in DOMAIN v.ribIn[p]}
           M == {m \in Mac : claims(m) # {}}
           remote == [m \in M |-> [vtep |-> Max(claims(m)), seq |-> v.ribIn[Max(claims(m))][m]]]
           moved == {m \in DOMAIN v.local \cap DOMAIN remote : remote[m].seq > v.local[m]}
           flood == {p \in DOMAIN v.ribIn : DOMAIN v.ribIn[p] # {}}
           f == Without(v.local, moved)
           w == Program(v)
<1>1. /\ v = [local |-> v.local, remote |-> v.remote, flood |-> v.flood, dup |-> v.dup,
              ribIn |-> v.ribIn, ribOut |-> v.ribOut]
      /\ v.local \in Partial(Mac, Seqs) /\ v.dup \subseteq Mac
      /\ v.ribIn \in [Leaf \ {l} -> Partial(Item, Seqs)]
      /\ v.ribOut \in [Leaf \ {l} -> Partial(Item, Seqs)]
  BY DEF LeafType
<1>2. w = [local |-> f, remote |-> remote, flood |-> flood, dup |-> v.dup,
           ribIn |-> v.ribIn, ribOut |-> v.ribOut]
  <2>1. w = [v EXCEPT !.remote = remote, !.flood = flood, !.local = Without(@, moved)]
    BY DEF Program
  <2> HIDE DEF w, remote, flood, moved
  <2> QED BY <1>1, <2>1
<1>3. f \in Partial(Mac, Seqs) /\ DOMAIN f \subseteq DOMAIN v.local /\ \A k \in DOMAIN f : f[k] = v.local[k]
  <2> HIDE DEF moved
  <2>1. f \in Partial(Mac, Seqs)
    BY <1>1, SeqsNat, WithType
  <2>2. DOMAIN f \subseteq DOMAIN v.local /\ \A k \in DOMAIN f : f[k] = v.local[k]
    BY DEF Without, Restrict
  <2> QED BY <2>1, <2>2
<1>4. flood \subseteq Leaf \ {l} /\ DOMAIN v.ribIn = Leaf \ {l}
  BY <1>1
<1>5. ASSUME NEW m \in M
      PROVE  /\ Max(claims(m)) \in Leaf \ {l} /\ m \in DOMAIN v.ribIn[Max(claims(m))]
             /\ v.ribIn[Max(claims(m))][m] \in Seqs
             /\ ClaimOK(Max(claims(m)), m, v.ribIn[Max(claims(m))][m])
  <2> DEFINE p == Max(claims(m))
  <2>1. claims(m) \in SUBSET Nat /\ IsFiniteSet(claims(m)) /\ claims(m) # {} /\ m \in Mac
    <3>1. claims(m) \subseteq Leaf
      BY <1>4
    <3>2. claims(m) # {} /\ m \in Mac
      OBVIOUS
    <3> HIDE DEF claims
    <3> QED BY <3>1, <3>2, FabricAssumption, FS_Subset
  <2>2. p \in claims(m)
    <3> HIDE DEF claims
    <3> QED BY <2>1, MaxIn
  <2>3. p \in Leaf \ {l} /\ m \in DOMAIN v.ribIn[p]
    <3> HIDE DEF p
    <3> QED BY <1>4, <2>2
  <2> HIDE DEF p
  <2>4. v.ribIn[p] \in Partial(Item, Seqs)
    BY <1>1, <2>3
  <2>5. v.ribIn[p][m] \in Seqs
    BY <2>3, <2>4, PartialDef
  <2>6. ClaimOK(p, m, v.ribIn[p][m])
    BY <2>1, <2>3 DEF RibOK
  <2> QED BY <2>3, <2>5, <2>6 DEF p
<1> HIDE DEF claims
<1>6. /\ DOMAIN remote = M /\ M \subseteq Mac /\ remote = [m \in M |-> remote[m]]
      /\ \A m \in M : /\ remote[m] \in [vtep : Leaf \ {l}, seq : Seqs]
                      /\ ClaimOK(remote[m].vtep, m, remote[m].seq)
  <2>1. DOMAIN remote = M /\ M \subseteq Mac /\ remote = [m \in M |-> remote[m]]
    OBVIOUS
  <2>2. ASSUME NEW m \in M
        PROVE  /\ remote[m] \in [vtep : Leaf \ {l}, seq : Seqs]
               /\ ClaimOK(remote[m].vtep, m, remote[m].seq)
    <3>1. remote[m] = [vtep |-> Max(claims(m)), seq |-> v.ribIn[Max(claims(m))][m]]
      OBVIOUS
    <3> HIDE DEF remote, M
    <3>2. remote[m].vtep = Max(claims(m)) /\ remote[m].seq = v.ribIn[Max(claims(m))][m]
      BY <3>1
    <3> QED BY <1>5, <3>1, <3>2
  <2> HIDE DEF remote, M
  <2> QED BY <2>1, <2>2
<1> HIDE DEF remote, M, flood, f, w
<1>7. remote \in Partial(Mac, [vtep : Leaf \ {l}, seq : Seqs])
  BY <1>6, PartialDef
<1>8. LeafType(l, w)
  BY <1>1, <1>2, <1>3, <1>4, <1>7 DEF LeafType
<1>9. LocalOK(l, w)
  BY <1>2, <1>3 DEF LocalOK
<1>10. RemoteOK(w)
  BY <1>2, <1>6 DEF RemoteOK
<1>11. DupOK(w)
  BY <1>2 DEF DupOK
<1> QED BY <1>2, <1>8, <1>9, <1>10, <1>11 DEF w

-----------------------------------------------------------------------------
(* The invariant holds in every state.                                     *)

\* What the invariant says of one leaf and of one direction of a session.
LEMMA InvParts ==
    ASSUME FabricInv
    PROVE  /\ leaf = [l \in Leaf |-> leaf[l]]
           /\ \A l \in Leaf : /\ LeafType(l, leaf[l]) /\ LocalOK(l, leaf[l])
                              /\ RemoteOK(leaf[l]) /\ DupOK(leaf[l])
                              /\ \A p \in Leaf \ {l} : /\ RibOK(p, leaf[l].ribIn[p])
                                                       /\ leaf[l].ribIn[p] \in Partial(Item, Seqs)
                                                       /\ leaf[l].ribOut[p] \in Partial(Item, Seqs)
           /\ channel \in [Leaf \X Leaf -> Seq(UpdateType)]
           /\ \A l, p \in Leaf : /\ channel[<<l, p>>] \in Seq(UpdateType)
                                 /\ QueueOK(l, channel[<<l, p>>])
           /\ up \subseteq Ends /\ where \in [Mac -> SUBSET Leaf] /\ moves \in [Mac -> Nat]
           /\ losses \in 0 .. MaxLosses
<1>1. /\ leaf = [l \in Leaf |-> leaf[l]]
      /\ channel \in [Leaf \X Leaf -> Seq(UpdateType)]
      /\ up \subseteq Ends /\ where \in [Mac -> SUBSET Leaf] /\ moves \in [Mac -> Nat]
      /\ losses \in 0 .. MaxLosses
  BY DEF FabricInv, TypeOK, UpdateType
<1>2. ASSUME NEW l \in Leaf
      PROVE  /\ LeafType(l, leaf[l]) /\ LocalOK(l, leaf[l])
             /\ RemoteOK(leaf[l]) /\ DupOK(leaf[l])
             /\ \A p \in Leaf \ {l} : RibOK(p, leaf[l].ribIn[p])
  BY DEF FabricInv, ClaimsOK
<1>3. ASSUME NEW l \in Leaf, NEW p \in Leaf \ {l}
      PROVE  leaf[l].ribIn[p] \in Partial(Item, Seqs) /\ leaf[l].ribOut[p] \in Partial(Item, Seqs)
  <2>1. LeafType(l, leaf[l])
    BY <1>2
  <2> QED BY <2>1 DEF LeafType
<1>4. ASSUME NEW l \in Leaf, NEW p \in Leaf
      PROVE  channel[<<l, p>>] \in Seq(UpdateType) /\ QueueOK(l, channel[<<l, p>>])
  <2>1. <<l, p>> \in Leaf \X Leaf /\ <<l, p>>[1] = l
    OBVIOUS
  <2>2. \A c \in Leaf \X Leaf : QueueOK(c[1], channel[c])
    BY DEF FabricInv, ClaimsOK
  <2>3. QueueOK(<<l, p>>[1], channel[<<l, p>>])
    BY <2>1, <2>2
  <2> QED BY <1>1, <2>1, <2>3
<1> QED BY <1>1, <1>2, <1>3, <1>4

\* The parts of the invariant after a step that moves no host.
LEMMA InvNextParts ==
    ASSUME FabricInv, UNCHANGED <<where, moves>>,
           leaf' = [l \in Leaf |-> leaf'[l]],
           \A l \in Leaf : /\ LeafType(l, leaf'[l]) /\ LocalOK(l, leaf'[l])
                           /\ RemoteOK(leaf'[l]) /\ DupOK(leaf'[l])
                           /\ \A p \in Leaf \ {l} : RibOK(p, leaf'[l].ribIn[p]),
           channel' \in [Leaf \X Leaf -> Seq(UpdateType)],
           \A c \in Leaf \X Leaf : QueueOK(c[1], channel'[c]),
           up' \subseteq Ends, losses' \in 0 .. MaxLosses,
           RibsAgree', DownForgets'
    PROVE  FabricInv'
<1>1. where' = where /\ moves' = moves
  OBVIOUS
<1>2. TypeOK'
  BY <1>1 DEF FabricInv, TypeOK, LeafType, UpdateType
<1>3. ClaimsOK'
  BY <1>1 DEF ClaimsOK, LocalOK, RemoteOK, DupOK, RibOK, QueueOK, ClaimOK
<1> QED BY <1>2, <1>3 DEF FabricInv

\* Init.
LEMMA InvInit == Init => FabricInv
<1> SUFFICES ASSUME Init PROVE FabricInv
  OBVIOUS
<1>1. /\ leaf = [l \in Leaf |-> NewLeaf(l)]
      /\ channel = [c \in Leaf \X Leaf |-> <<>>]
      /\ up = Ends
      /\ where \in [Mac -> {{l} : l \in Leaf}]
      /\ moves = [m \in Mac |-> 0]
      /\ losses = 0
  BY DEF Init
<1>2. \A K, V : None \in Partial(K, V) /\ DOMAIN None = {}
  <2> SUFFICES ASSUME NEW K, NEW V PROVE None \in Partial(K, V) /\ DOMAIN None = {}
    OBVIOUS
  <2>1. DOMAIN None = {} /\ None = [k \in DOMAIN None |-> None[k]]
    BY DEF None
  <2> QED BY <2>1, PartialDef
<1>3. leaf = [l \in Leaf |-> leaf[l]] /\ \A l \in Leaf : leaf[l] = NewLeaf(l)
  BY <1>1
<1>4. ASSUME NEW l \in Leaf
      PROVE  /\ LeafType(l, leaf[l]) /\ LocalOK(l, leaf[l]) /\ RemoteOK(leaf[l]) /\ DupOK(leaf[l])
             /\ \A p \in Leaf \ {l} : RibOK(p, leaf[l].ribIn[p])
             /\ \A p \in Leaf \ {l} : leaf[l].ribIn[p] = None /\ leaf[l].ribOut[p] = None
  <2>1. leaf[l] = [local |-> None, remote |-> None, flood |-> {}, dup |-> {},
                   ribIn |-> [p \in Leaf \ {l} |-> None], ribOut |-> [p \in Leaf \ {l} |-> None]]
    BY <1>3 DEF NewLeaf
  <2>2. \A p \in Leaf \ {l} : leaf[l].ribIn[p] = None /\ leaf[l].ribOut[p] = None
    BY <2>1
  <2>3. LeafType(l, leaf[l])
    BY <1>2, <2>1 DEF LeafType
  <2>4. LocalOK(l, leaf[l]) /\ RemoteOK(leaf[l]) /\ DupOK(leaf[l])
    BY <1>2, <2>1 DEF LocalOK, RemoteOK, DupOK
  <2>5. \A p \in Leaf \ {l} : RibOK(p, leaf[l].ribIn[p])
    BY <1>2, <2>2 DEF RibOK
  <2> QED BY <2>2, <2>3, <2>4, <2>5
<1>5. channel \in [Leaf \X Leaf -> Seq(UpdateType)] /\ \A c \in Leaf \X Leaf : channel[c] = <<>>
  BY <1>1
<1>6. where \in [Mac -> SUBSET Leaf] /\ moves \in [Mac -> Nat] /\ losses \in 0 .. MaxLosses
  <2>1. {{l} : l \in Leaf} \subseteq SUBSET Leaf
    OBVIOUS
  <2>2. where \in [Mac -> SUBSET Leaf]
    BY <1>1, <2>1
  <2> QED BY <1>1, <2>2, FabricAssumption
<1>7. TypeOK
  BY <1>1, <1>4, <1>5, <1>6 DEF TypeOK, LeafType, UpdateType
<1>8. RibsAgree
  <2> SUFFICES ASSUME NEW l \in Leaf, NEW p \in Peers(l)
               PROVE  ImportAll(leaf[l].ribIn[p], channel[<<p, l>>]) = leaf[p].ribOut[l]
    BY DEF RibsAgree
  <2>1. p \in Leaf \ {l} /\ l \in Leaf \ {p} /\ <<p, l>> \in Leaf \X Leaf
    BY DEF Peers
  <2>2. leaf[l].ribIn[p] = None /\ leaf[p].ribOut[l] = None /\ channel[<<p, l>>] = <<>>
    BY <1>4, <1>5, <2>1
  <2> QED BY <2>2, ImportNone
<1>9. DownForgets
  BY <1>4, <1>5 DEF DownForgets
<1>10. ClaimsOK
  BY <1>4, <1>5 DEF ClaimsOK, QueueOK
<1> QED BY <1>3, <1>4, <1>7, <1>8, <1>9, <1>10 DEF FabricInv

-----------------------------------------------------------------------------
(* A call of step_timers.                                                  *)

\* What leaf l sends to p brings the Adj-RIB-In there from the Adj-RIB-Out to what
\* is desired, and claims what l claims.
LEMMA SentOK ==
    ASSUME FabricInv, NEW l \in Leaf, NEW p \in Leaf \ {l}
    PROVE  /\ Desired(l) \in Partial(Item, Seqs)
           /\ Sent(l, p) \in Seq(UpdateType) /\ QueueOK(l, Sent(l, p))
           /\ p \in Peers(l) => ImportAll(leaf[l].ribOut[p], Sent(l, p)) = Desired(l)
           /\ p \notin Peers(l) => Sent(l, p) = <<>>
<1> DEFINE d == Desired(l)
           o == leaf[l].ribOut[p]
           f == leaf[l].local
<1>1. /\ o \in Partial(Item, Seqs) /\ f \in Partial(Mac, Seqs) /\ LocalOK(l, leaf[l])
  <2>1. LeafType(l, leaf[l]) /\ LocalOK(l, leaf[l]) /\ o \in Partial(Item, Seqs)
    BY InvParts
  <2> QED BY <2>1 DEF LeafType
<1>2. f \in Partial(Item, Seqs)
  <2>1. Mac \subseteq Item
    BY DEF Item
  <2> HIDE DEF f
  <2> QED BY <1>1, <2>1, PartialDef
<1>3. d = With(f, {Imet}, 0)
  BY DEF Desired
<1>4. d \in Partial(Item, Seqs)
  <2>1. {Imet} \subseteq Item /\ 0 \in Seqs
    BY SeqsNat DEF Item
  <2> HIDE DEF d, f
  <2> QED BY <1>2, <1>3, <2>1, WithType
<1>5. ASSUME NEW m \in DOMAIN d \cap Mac PROVE ClaimOK(l, m, d[m])
  <2>1. m # Imet
    BY FabricAssumption
  <2>2. m \in DOMAIN f /\ d[m] = f[m]
    <3> HIDE DEF d, f
    <3>1. DOMAIN d = DOMAIN f \cup {Imet} /\ \A k \in DOMAIN f \cup {Imet} : d[k] = IF k \in {Imet} THEN 0 ELSE f[k]
      BY <1>3, WithFacts
    <3> QED BY <2>1, <3>1
  <2> QED BY <1>1, <2>2 DEF LocalOK
<1> HIDE DEF d, o, f
<1>6. /\ Updates(d, o) \in Seq(UpdateType)
      /\ ImportAll(o, Updates(d, o)) = d
      /\ \A i \in DOMAIN Updates(d, o) :
            \A k \in Updates(d, o)[i].announce : k \in DOMAIN d /\ d[k] = Updates(d, o)[i].seq
  BY <1>1, <1>4, UpdatesBring
<1>7. QueueOK(l, Updates(d, o))
  BY <1>5, <1>6 DEF QueueOK
<1>8. <<>> \in Seq(UpdateType) /\ QueueOK(l, <<>>)
  BY DEF QueueOK
<1>9. Sent(l, p) = IF p \in Peers(l) THEN Updates(d, o) ELSE <<>>
  BY DEF Sent, d, o
<1> QED BY <1>4, <1>6, <1>7, <1>8, <1>9 DEF d, o

\* A queue is what was read of it and the rest.
LEMMA QueueSplit ==
    ASSUME NEW S, NEW s \in Seq(S), NEW k \in 0 .. Len(s)
    PROVE  LET a == SubSeq(s, 1, k)
               b == SubSeq(s, k + 1, Len(s))
           IN  /\ a \in Seq(S) /\ b \in Seq(S) /\ a \o b = s
               /\ \A i \in DOMAIN a : \E j \in DOMAIN s : a[i] = s[j]
               /\ \A i \in DOMAIN b : \E j \in DOMAIN s : b[i] = s[j]
<1> DEFINE a == SubSeq(s, 1, k)
           b == SubSeq(s, k + 1, Len(s))
           n == Len(s)
<1>1. n \in Nat /\ k \in Nat /\ k <= n /\ DOMAIN s = 1 .. n /\ \A i \in 1 .. n : s[i] \in S
  BY SeqFacts
<1> DEFINE a2 == [i \in 1 .. k |-> s[i]]
           b2 == [i \in 1 .. n - k |-> s[k + i]]
<1>2. a = a2
  BY <1>1
<1>3. b = b2
  <2>1. n - (k + 1) + 1 = n - k
    BY <1>1
  <2>2. b = [i \in 1 .. n - (k + 1) + 1 |-> s[(k + 1) + i - 1]]
    BY <1>1
  <2>3. \A i \in 1 .. n - k : (k + 1) + i - 1 = k + i
    BY <1>1
  <2> QED BY <2>1, <2>2, <2>3
<1>4. a2 \in Seq(S) /\ Len(a2) = k /\ DOMAIN a2 = 1 .. k /\ \A i \in 1 .. k : a2[i] = s[i] /\ i \in 1 .. n
  <2>1. \A i \in 1 .. k : i \in 1 .. n
    BY <1>1
  <2>2. a2 \in [1 .. k -> S]
    BY <1>1, <2>1
  <2> QED BY <1>1, <2>1, <2>2
<1>5. b2 \in Seq(S) /\ Len(b2) = n - k /\ DOMAIN b2 = 1 .. n - k
      /\ \A i \in 1 .. n - k : b2[i] = s[k + i] /\ k + i \in 1 .. n
  <2>1. n - k \in Nat /\ \A i \in 1 .. n - k : k + i \in 1 .. n
    BY <1>1
  <2>2. b2 \in [1 .. n - k -> S]
    BY <1>1, <2>1
  <2> QED BY <2>1, <2>2
<1> HIDE DEF a, b, a2, b2, n
<1> DEFINE c == a2 \o b2
<1>6. /\ c \in Seq(S) /\ Len(c) = k + (n - k)
      /\ \A i \in 1 .. k + (n - k) : c[i] = IF i <= k THEN a2[i] ELSE b2[i - k]
  <2>1. /\ c \in Seq(S) /\ Len(c) = Len(a2) + Len(b2)
        /\ \A i \in 1 .. Len(a2) + Len(b2) : c[i] = IF i <= Len(a2) THEN a2[i] ELSE b2[i - Len(a2)]
    BY <1>4, <1>5, ConcatProperties
  <2> HIDE DEF c
  <2> QED BY <1>4, <1>5, <2>1
<1>7. k + (n - k) = n
  BY <1>1
<1> HIDE DEF c
<1>8. \A i \in 1 .. n : c[i] = s[i]
  <2> SUFFICES ASSUME NEW i \in 1 .. n PROVE c[i] = s[i]
    OBVIOUS
  <2>1. CASE i <= k
    <3>1. i \in 1 .. k
      BY <1>1, <2>1
    <3> QED BY <1>4, <1>6, <1>7, <2>1, <3>1
  <2>2. CASE ~(i <= k)
    <3>1. i - k \in 1 .. n - k /\ k + (i - k) = i
      BY <1>1, <2>2
    <3> QED BY <1>5, <1>6, <1>7, <2>2, <3>1
  <2> QED BY <2>1, <2>2
<1>9. c = s
  BY <1>6, <1>7, <1>8, SeqEqual DEF n
<1>10. (\A i \in DOMAIN a2 : \E j \in DOMAIN s : a2[i] = s[j]) /\ \A i \in DOMAIN b2 : \E j \in DOMAIN s : b2[i] = s[j]
  BY <1>1, <1>4, <1>5
<1> QED BY <1>2, <1>3, <1>4, <1>5, <1>9, <1>10 DEF a, b, c, n

\* Importing claims that are in order keeps the Adj-RIB-In in order.
LEMMA ImportOK ==
    ASSUME NEW p \in Leaf, NEW rib \in Partial(Item, Seqs), RibOK(p, rib),
           NEW s \in Seq(UpdateType), QueueOK(p, s)
    PROVE  ImportAll(rib, s) \in Partial(Item, Seqs) /\ RibOK(p, ImportAll(rib, s))
<1> DEFINE G == {x \in Partial(Item, Seqs) : RibOK(p, x)}
<1>1. ASSUME NEW x \in G, NEW i \in DOMAIN s PROVE Imported(x, s[i]) \in G
  <2> DEFINE u == s[i]
             r == Imported(x, u)
  <2>1. u \in UpdateType
    BY SeqFacts
  <2>2. u.announce \subseteq Item /\ u.seq \in Seqs
    BY <2>1 DEF UpdateType
  <2>3. \A m \in u.announce \cap Mac : ClaimOK(p, m, u.seq)
    BY DEF QueueOK
  <2> HIDE DEF u
  <2>4. /\ r = [k \in DOMAIN r |-> r[k]]
        /\ DOMAIN r = (DOMAIN x \ u.withdraw) \cup u.announce
        /\ \A k \in DOMAIN r : r[k] = IF k \in u.announce THEN u.seq ELSE x[k]
    BY ImportedFacts
  <2> HIDE DEF r
  <2>5. DOMAIN x \subseteq Item /\ \A k \in DOMAIN x : x[k] \in Seqs
    BY PartialDef
  <2>6. RibOK(p, x)
    OBVIOUS
  <2> HIDE DEF G
  <2>7. DOMAIN r \subseteq Item /\ \A k \in DOMAIN r : r[k] \in Seqs
    BY <2>2, <2>4, <2>5
  <2>8. r \in Partial(Item, Seqs)
    BY <2>4, <2>7, PartialDef
  <2>9. RibOK(p, r)
    BY <2>3, <2>4, <2>6 DEF RibOK
  <2> QED BY <2>8, <2>9 DEF G, r, u
<1>2. rib \in G
  OBVIOUS
<1> HIDE DEF G
<1>3. ImportAll(rib, s) \in G
  BY <1>1, <1>2, ImportKeeps
<1> QED BY <1>3 DEF G

\* An empty Adj-RIB is in order.
LEMMA NoneFacts ==
    None \in Partial(Item, Seqs) /\ DOMAIN None = {} /\ \A p : RibOK(p, None)
<1>1. DOMAIN None = {} /\ None = [k \in DOMAIN None |-> None[k]]
  BY DEF None
<1>2. None \in Partial(Item, Seqs)
  BY <1>1, PartialDef
<1> QED BY <1>1, <1>2 DEF RibOK

\* The leaf after the call.
LEMMA SteppedOK ==
    ASSUME FabricInv, NEW l \in Leaf, NEW taken \in Arrived(l), NEW expired
    PROVE  LET w == Stepped(l, taken, expired)
           IN  /\ LeafType(l, w) /\ LocalOK(l, w) /\ RemoteOK(w) /\ DupOK(w)
               /\ \A p \in Leaf \ {l} :
                     /\ RibOK(p, w.ribIn[p])
                     /\ taken[p] \in 0 .. Len(channel[<<p, l>>])
                     /\ w.ribIn[p] = IF p \in expired THEN None
                                      ELSE ImportAll(leaf[l].ribIn[p], SubSeq(channel[<<p, l>>], 1, taken[p]))
                     /\ w.ribOut[p] = IF p \in Peers(l) THEN Desired(l) ELSE leaf[l].ribOut[p]
<1> DEFINE v == leaf[l]
           in == [p \in Leaf \ {l} |-> IF p \in expired THEN None
                                       ELSE ImportAll(v.ribIn[p], SubSeq(channel[<<p, l>>], 1, taken[p]))]
           out == [p \in Leaf \ {l} |-> IF p \in Peers(l) THEN Desired(l) ELSE v.ribOut[p]]
           x == [local |-> v.local, remote |-> v.remote, flood |-> v.flood, dup |-> v.dup,
                 ribIn |-> in, ribOut |-> out]
           w == Stepped(l, taken, expired)
<1>1. /\ LeafType(l, v) /\ LocalOK(l, v) /\ DupOK(v)
      /\ v = [local |-> v.local, remote |-> v.remote, flood |-> v.flood, dup |-> v.dup,
              ribIn |-> v.ribIn, ribOut |-> v.ribOut]
  <2>1. LeafType(l, v) /\ LocalOK(l, v) /\ DupOK(v)
    BY InvParts
  <2> QED BY <2>1 DEF LeafType
<1>2. w = Program(x)
  <2>1. w = Program([[v EXCEPT !.ribIn = in] EXCEPT !.ribOut = out])
    <3>1. Heard(l, taken, expired) = [v EXCEPT !.ribIn = in]
      BY DEF Heard
    <3>2. [v EXCEPT !.ribIn = in].ribOut = v.ribOut
      <4> HIDE DEF in, v
      <4> QED BY <1>1
    <3>3. [Heard(l, taken, expired) EXCEPT !.ribOut = [p \in Leaf \ {l} |-> IF p \in Peers(l) THEN Desired(l) ELSE @[p]]]
          = [[v EXCEPT !.ribIn = in] EXCEPT !.ribOut = out]
      <4>1. Heard(l, taken, expired).ribOut = v.ribOut
        BY <3>1, <3>2
      <4> HIDE DEF in, v
      <4> QED BY <3>1, <4>1
    <3> HIDE DEF in, v, out
    <3> QED BY <3>3 DEF Stepped
  <2>2. [[v EXCEPT !.ribIn = in] EXCEPT !.ribOut = out] = x
    <3> HIDE DEF in, v, out
    <3> DEFINE y == [local |-> v.local, remote |-> v.remote, flood |-> v.flood, dup |-> v.dup,
                     ribIn |-> in, ribOut |-> v.ribOut]
    <3>1. [v EXCEPT !.ribIn = in] = y
      BY <1>1
    <3>2. [y EXCEPT !.ribOut = out] = x
      OBVIOUS
    <3> HIDE DEF x, y
    <3> QED BY <3>1, <3>2
  <2> QED BY <2>1, <2>2
<1>3. ASSUME NEW p \in Leaf \ {l}
      PROVE  /\ taken[p] \in 0 .. Len(channel[<<p, l>>])
             /\ in[p] \in Partial(Item, Seqs) /\ RibOK(p, in[p]) /\ out[p] \in Partial(Item, Seqs)
  <2> DEFINE s == channel[<<p, l>>]
             k == taken[p]
             a == SubSeq(s, 1, k)
  <2>1. s \in Seq(UpdateType) /\ QueueOK(p, s)
    BY InvParts
  <2>2. k \in 0 .. Len(s)
    <3>1. Len(s) \in Nat
      BY <2>1, SeqFacts
    <3>2. k \in 0 .. Max({Len(channel[c]) : c \in Leaf \X Leaf}) /\ k <= Len(s)
      BY DEF Arrived
    <3> DEFINE X == Max({Len(channel[c]) : c \in Leaf \X Leaf})
    <3> HIDE DEF X, k, s
    <3>3. k \in 0 .. X /\ k <= Len(s)
      BY <3>2 DEF X
    <3> QED BY <3>1, <3>3
  <2> HIDE DEF s, k
  <2>3. a \in Seq(UpdateType) /\ \A i \in DOMAIN a : \E j \in DOMAIN s : a[i] = s[j]
    BY <2>1, <2>2, QueueSplit
  <2> HIDE DEF a
  <2>4. QueueOK(p, a)
    BY <2>1, <2>3 DEF QueueOK
  <2>5. v.ribIn[p] \in Partial(Item, Seqs) /\ v.ribOut[p] \in Partial(Item, Seqs) /\ RibOK(p, v.ribIn[p])
    BY InvParts
  <2>6. in[p] = IF p \in expired THEN None ELSE ImportAll(v.ribIn[p], a)
    BY DEF a, s, k
  <2> HIDE DEF v, in
  <2>7. in[p] \in Partial(Item, Seqs) /\ RibOK(p, in[p])
    <3>1. ImportAll(v.ribIn[p], a) \in Partial(Item, Seqs) /\ RibOK(p, ImportAll(v.ribIn[p], a))
      BY <2>3, <2>4, <2>5, ImportOK
    <3> QED BY <2>6, <3>1, NoneFacts
  <2>8. Desired(l) \in Partial(Item, Seqs)
    BY SentOK
  <2> QED BY <2>2, <2>5, <2>7, <2>8 DEF s, k
<1>4. /\ DOMAIN in = Leaf \ {l} /\ DOMAIN out = Leaf \ {l}
      /\ in = [p \in Leaf \ {l} |-> in[p]] /\ out = [p \in Leaf \ {l} |-> out[p]]
      /\ \A p \in Leaf \ {l} : /\ in[p] = IF p \in expired THEN None
                                          ELSE ImportAll(v.ribIn[p], SubSeq(channel[<<p, l>>], 1, taken[p]))
                               /\ out[p] = IF p \in Peers(l) THEN Desired(l) ELSE v.ribOut[p]
  OBVIOUS
<1> HIDE DEF in, out, w, v
<1>5. in \in [Leaf \ {l} -> Partial(Item, Seqs)] /\ out \in [Leaf \ {l} -> Partial(Item, Seqs)]
  BY <1>3, <1>4
<1>6. LeafType(l, x) /\ x.ribIn = in /\ x.ribOut = out
  BY <1>1, <1>5 DEF LeafType
<1>7. LocalOK(l, x) /\ DupOK(x)
  BY <1>1 DEF LocalOK, DupOK
<1>8. \A p \in Leaf \ {l} : RibOK(p, x.ribIn[p])
  BY <1>3, <1>6
<1> HIDE DEF x
<1>9. LeafType(l, w) /\ LocalOK(l, w) /\ RemoteOK(w) /\ DupOK(w) /\ w.ribIn = x.ribIn /\ w.ribOut = x.ribOut
  BY <1>2, <1>6, <1>7, <1>8, ProgramKeeps
<1> QED BY <1>3, <1>4, <1>6, <1>9 DEF w, v

\* Claims in order, one queue after the other.
LEMMA QueueConcat ==
    ASSUME NEW p, NEW s \in Seq(UpdateType), NEW t \in Seq(UpdateType), QueueOK(p, s), QueueOK(p, t)
    PROVE  s \o t \in Seq(UpdateType) /\ QueueOK(p, s \o t)
<1> DEFINE u == s \o t
           n == Len(s)
           k == Len(t)
<1>1. /\ u \in Seq(UpdateType) /\ n \in Nat /\ k \in Nat /\ Len(u) = n + k
      /\ \A i \in 1 .. n + k : u[i] = IF i <= n THEN s[i] ELSE t[i - n]
  BY ConcatProperties, LenProperties
<1> HIDE DEF u
<1>2. DOMAIN u = 1 .. n + k /\ DOMAIN s = 1 .. n /\ DOMAIN t = 1 .. k
  BY <1>1, SeqFacts
<1> HIDE DEF n, k
<1>3. ASSUME NEW i \in DOMAIN u, NEW m \in u[i].announce \cap Mac
      PROVE  ClaimOK(p, m, u[i].seq)
  <2>1. CASE i <= n
    <3>1. i \in DOMAIN s /\ u[i] = s[i]
      BY <1>1, <1>2, <2>1
    <3> QED BY <1>3, <3>1 DEF QueueOK
  <2>2. CASE ~(i <= n)
    <3>1. i - n \in DOMAIN t /\ u[i] = t[i - n]
      BY <1>1, <1>2, <2>2
    <3> QED BY <1>3, <3>1 DEF QueueOK
  <2> QED BY <2>1, <2>2
<1> QED BY <1>1, <1>3 DEF QueueOK, u

\* StepTimers.
LEMMA InvStep ==
    ASSUME FabricInv, NEW l \in Leaf, NEW taken \in Arrived(l), NEW expired \in SUBSET Retained(l),
           StepTimers(l, taken, expired)
    PROVE  FabricInv'
<1> DEFINE w == Stepped(l, taken, expired)
           rest(p) == SubSeq(channel[<<p, l>>], taken[p] + 1, Len(channel[<<p, l>>]))
           read(p) == SubSeq(channel[<<p, l>>], 1, taken[p])
<1>1. /\ leaf' = [leaf EXCEPT ![l] = w]
      /\ channel' = [c \in Leaf \X Leaf |->
                        CASE c[1] = l /\ l \in Peers(c[2]) -> channel[c] \o Sent(l, c[2])
                          [] c[2] = l /\ c[1] # l -> SubSeq(channel[c], taken[c[1]] + 1, Len(channel[c]))
                          [] OTHER -> channel[c]]
      /\ up' = up /\ where' = where /\ moves' = moves /\ losses' = losses
  BY DEF StepTimers
<1>2. /\ LeafType(l, w) /\ LocalOK(l, w) /\ RemoteOK(w) /\ DupOK(w)
      /\ \A p \in Leaf \ {l} :
            /\ RibOK(p, w.ribIn[p])
            /\ taken[p] \in 0 .. Len(channel[<<p, l>>])
            /\ w.ribIn[p] = IF p \in expired THEN None ELSE ImportAll(leaf[l].ribIn[p], read(p))
            /\ w.ribOut[p] = IF p \in Peers(l) THEN Desired(l) ELSE leaf[l].ribOut[p]
  BY SteppedOK
<1> HIDE DEF w
<1>3. /\ leaf' = [a \in Leaf |-> leaf'[a]] /\ leaf'[l] = w
      /\ \A a \in Leaf \ {l} : leaf'[a] = leaf[a]
  <2>1. leaf = [a \in Leaf |-> leaf[a]]
    BY InvParts
  <2> QED BY <1>1, <2>1
<1>4. ASSUME NEW p \in Leaf \ {l}
      PROVE  /\ read(p) \in Seq(UpdateType) /\ rest(p) \in Seq(UpdateType)
             /\ read(p) \o rest(p) = channel[<<p, l>>] /\ QueueOK(p, rest(p))
             /\ channel[<<p, l>>] = <<>> => read(p) = <<>> /\ rest(p) = <<>>
  <2> DEFINE s == channel[<<p, l>>]
             k == taken[p]
  <2>1. s \in Seq(UpdateType) /\ QueueOK(p, s) /\ k \in 0 .. Len(s)
    BY <1>2, InvParts
  <2>2. /\ read(p) = SubSeq(s, 1, k) /\ rest(p) = SubSeq(s, k + 1, Len(s))
    OBVIOUS
  <2> HIDE DEF s, k, read, rest
  <2>3. /\ read(p) \in Seq(UpdateType) /\ rest(p) \in Seq(UpdateType) /\ read(p) \o rest(p) = s
        /\ \A i \in DOMAIN rest(p) : \E j \in DOMAIN s : rest(p)[i] = s[j]
    <3> DEFINE A == SubSeq(s, 1, k)
               B == SubSeq(s, k + 1, Len(s))
    <3>1. /\ A \in Seq(UpdateType) /\ B \in Seq(UpdateType) /\ A \o B = s
          /\ \A i \in DOMAIN B : \E j \in DOMAIN s : B[i] = s[j]
      BY <2>1, QueueSplit
    <3> HIDE DEF A, B
    <3>2. read(p) = A /\ rest(p) = B
      BY <2>2 DEF A, B
    <3> QED BY <3>1, <3>2
  <2>4. QueueOK(p, rest(p))
    BY <2>1, <2>3 DEF QueueOK
  <2>5. s = <<>> => k = 0
    BY <2>1
  <2>6. s = <<>> => read(p) = <<>> /\ rest(p) = <<>>
    BY <2>2, <2>5
  <2> QED BY <2>3, <2>4, <2>6 DEF s
<1>5. ASSUME NEW p \in Leaf \ {l}
      PROVE  /\ channel'[<<l, p>>] = IF l \in Peers(p) THEN channel[<<l, p>>] \o Sent(l, p) ELSE channel[<<l, p>>]
             /\ channel'[<<p, l>>] = rest(p)
  <2>1. <<l, p>> \in Leaf \X Leaf /\ <<p, l>> \in Leaf \X Leaf /\ p # l
    OBVIOUS
  <2>2. <<l, p>>[1] = l /\ <<l, p>>[2] = p /\ <<p, l>>[1] = p /\ <<p, l>>[2] = l
    OBVIOUS
  <2>3. channel'[<<l, p>>] = IF l \in Peers(p) THEN channel[<<l, p>>] \o Sent(l, p) ELSE channel[<<l, p>>]
    BY <1>1, <2>1, <2>2
  <2>4. channel'[<<p, l>>] = rest(p)
    BY <1>1, <2>1, <2>2
  <2> QED BY <2>3, <2>4
<1>6. ASSUME NEW a \in Leaf, NEW b \in Leaf, a = l <=> b = l
      PROVE  channel'[<<a, b>>] = channel[<<a, b>>]
  <2>1. <<a, b>> \in Leaf \X Leaf /\ <<a, b>>[1] = a /\ <<a, b>>[2] = b
    OBVIOUS
  <2>2. l \notin Peers(l)
    BY DEF Peers
  <2> QED BY <1>1, <1>6, <2>1, <2>2
<1>7. ASSUME NEW p \in Leaf \ {l}
      PROVE  /\ Sent(l, p) \in Seq(UpdateType) /\ QueueOK(l, Sent(l, p))
             /\ p \in Peers(l) => ImportAll(leaf[l].ribOut[p], Sent(l, p)) = Desired(l)
             /\ p \notin Peers(l) => Sent(l, p) = <<>>
  BY SentOK
<1> HIDE DEF rest, read
<1>8. ASSUME NEW a \in Leaf, NEW b \in Leaf
      PROVE  channel'[<<a, b>>] \in Seq(UpdateType) /\ QueueOK(a, channel'[<<a, b>>])
  <2>1. channel[<<a, b>>] \in Seq(UpdateType) /\ QueueOK(a, channel[<<a, b>>])
    BY InvParts
  <2>2. CASE a = l <=> b = l
    BY <1>6, <2>1, <2>2
  <2>3. CASE a # l /\ b = l
    BY <1>4, <1>5, <2>3
  <2>4. CASE a = l /\ b # l
    <3> DEFINE s == channel[<<l, b>>]
               t == Sent(l, b)
               u == s \o t
    <3>1. s \in Seq(UpdateType) /\ t \in Seq(UpdateType) /\ QueueOK(l, s) /\ QueueOK(l, t)
      BY <1>7, <2>1, <2>4
    <3>2. channel'[<<a, b>>] = IF l \in Peers(b) THEN u ELSE s
      BY <1>5, <2>4
    <3> HIDE DEF s, t
    <3>3. QueueOK(l, u) /\ u \in Seq(UpdateType)
      BY <3>1, QueueConcat
    <3> HIDE DEF u
    <3> QED BY <2>4, <3>1, <3>2, <3>3
  <2> QED BY <2>2, <2>3, <2>4
<1>9. channel' \in [Leaf \X Leaf -> Seq(UpdateType)] /\ \A c \in Leaf \X Leaf : QueueOK(c[1], channel'[c])
  <2>1. channel' = [c \in Leaf \X Leaf |-> channel'[c]]
    BY <1>1
  <2>2. \A c \in Leaf \X Leaf : channel'[c] \in Seq(UpdateType) /\ QueueOK(c[1], channel'[c])
    BY <1>8
  <2> QED BY <2>1, <2>2
<1>10. ASSUME NEW a \in Leaf
       PROVE  /\ LeafType(a, leaf'[a]) /\ LocalOK(a, leaf'[a]) /\ RemoteOK(leaf'[a]) /\ DupOK(leaf'[a])
              /\ \A p \in Leaf \ {a} : RibOK(p, leaf'[a].ribIn[p])
  <2>1. CASE a = l
    BY <1>2, <1>3, <2>1
  <2>2. CASE a # l
    BY <1>3, <2>2, InvParts
  <2> QED BY <2>1, <2>2
<1>11. RibsAgree'
  <2>1. \A a : Peers(a)' = Peers(a)
    BY <1>1 DEF Peers
  <2>2. ASSUME NEW a \in Leaf, NEW b \in Peers(a), a \in Peers(b)
        PROVE  ImportAll(leaf'[a].ribIn[b], channel'[<<b, a>>]) = leaf'[b].ribOut[a]
    <3>1. b \in Leaf \ {a} /\ a \in Leaf \ {b} /\ a \in Peers(b)
      BY <2>2 DEF Peers
    <3>2. ImportAll(leaf[a].ribIn[b], channel[<<b, a>>]) = leaf[b].ribOut[a]
      BY <2>2 DEF FabricInv, RibsAgree
    <3>3. CASE a = l
      <4>1. /\ leaf'[a].ribIn[b] = ImportAll(leaf[l].ribIn[b], read(b)) /\ leaf'[b] = leaf[b]
            /\ channel'[<<b, a>>] = rest(b)
        <5>1. b \notin expired
          BY <3>3 DEF Retained
        <5> QED BY <1>2, <1>3, <1>5, <3>1, <3>3, <5>1
      <4>2. ImportAll(ImportAll(leaf[l].ribIn[b], read(b)), rest(b)) = ImportAll(leaf[l].ribIn[b], read(b) \o rest(b))
        <5> DEFINE A == read(b)
                   B == rest(b)
        <5>1. A \in Seq(UpdateType) /\ B \in Seq(UpdateType)
          BY <1>4, <3>1, <3>3
        <5> HIDE DEF A, B
        <5>2. ImportAll(leaf[l].ribIn[b], A \o B) = ImportAll(ImportAll(leaf[l].ribIn[b], A), B)
          BY <5>1, ImportConcat
        <5> QED BY <5>2 DEF A, B
      <4>3. read(b) \o rest(b) = channel[<<b, a>>]
        BY <1>4, <3>1, <3>3
      <4> QED BY <3>2, <3>3, <4>1, <4>2, <4>3
    <3>4. CASE b = l
      <4>1. /\ leaf'[a] = leaf[a] /\ leaf'[b].ribOut[a] = Desired(l)
            /\ channel'[<<b, a>>] = channel[<<l, a>>] \o Sent(l, a)
        BY <1>2, <1>3, <1>5, <3>1, <3>4
      <4>2. channel[<<l, a>>] \in Seq(UpdateType) /\ Sent(l, a) \in Seq(UpdateType)
        BY <1>7, <3>1, <3>4, InvParts
      <4>3. ImportAll(leaf[a].ribIn[l], channel[<<l, a>>] \o Sent(l, a))
            = ImportAll(ImportAll(leaf[a].ribIn[l], channel[<<l, a>>]), Sent(l, a))
        BY <4>2, ImportConcat
      <4>4. ImportAll(leaf[l].ribOut[a], Sent(l, a)) = Desired(l)
        BY <1>7, <3>1, <3>4
      <4> QED BY <3>2, <3>4, <4>1, <4>3, <4>4
    <3>5. CASE a # l /\ b # l
      <4>1. leaf'[a] = leaf[a] /\ leaf'[b] = leaf[b] /\ channel'[<<b, a>>] = channel[<<b, a>>]
        BY <1>3, <1>6, <3>1, <3>5
      <4> QED BY <3>2, <4>1
    <3> QED BY <3>3, <3>4, <3>5
  <2> QED BY <2>1, <2>2 DEF RibsAgree
<1>12. DownForgets'
  <2> SUFFICES ASSUME NEW a \in Leaf, NEW b \in Leaf \ {a}, <<a, b>> \notin up
               PROVE  leaf'[a].ribOut[b] = None /\ channel'[<<b, a>>] = <<>>
    BY <1>1 DEF DownForgets
  <2>1. leaf[a].ribOut[b] = None /\ channel[<<b, a>>] = <<>>
    BY DEF FabricInv, DownForgets
  <2>2. b \notin Peers(a) /\ b \in Leaf /\ a \in Leaf \ {b}
    BY DEF Peers
  <2>3. CASE a = l
    BY <1>2, <1>3, <1>4, <1>5, <2>1, <2>2, <2>3
  <2>4. CASE b = l
    BY <1>3, <1>5, <2>1, <2>2, <2>4
  <2>5. CASE a # l /\ b # l
    BY <1>3, <1>6, <2>1, <2>2, <2>5
  <2> QED BY <2>3, <2>4, <2>5
<1>13. up' \subseteq Ends /\ losses' \in 0 .. MaxLosses /\ UNCHANGED <<where, moves>>
  BY <1>1, InvParts
<1> QED BY <1>3, <1>9, <1>10, <1>11, <1>12, <1>13, InvNextParts

-----------------------------------------------------------------------------
(* Hosts and sessions.                                                     *)

\* A step of one leaf that leaves its Adj-RIBs and its tunnels alone.
LEMMA InvOneLeaf ==
    ASSUME FabricInv, NEW l \in Leaf, NEW w, leaf' = [leaf EXCEPT ![l] = w],
           UNCHANGED <<channel, up, where, moves, losses>>,
           LeafType(l, w), LocalOK(l, w), DupOK(w),
           w.remote = leaf[l].remote, w.ribIn = leaf[l].ribIn, w.ribOut = leaf[l].ribOut
    PROVE  FabricInv'
<1>1. /\ leaf' = [a \in Leaf |-> leaf'[a]] /\ leaf'[l] = w
      /\ \A a \in Leaf \ {l} : leaf'[a] = leaf[a]
  <2>1. leaf = [a \in Leaf |-> leaf[a]]
    BY InvParts
  <2> QED BY <2>1
<1>2. channel' = channel /\ up' = up /\ where' = where /\ moves' = moves /\ losses' = losses
  OBVIOUS
<1>3. ASSUME NEW a \in Leaf
      PROVE  /\ LeafType(a, leaf'[a]) /\ LocalOK(a, leaf'[a]) /\ RemoteOK(leaf'[a]) /\ DupOK(leaf'[a])
             /\ \A p \in Leaf \ {a} : RibOK(p, leaf'[a].ribIn[p])
             /\ leaf'[a].ribIn = leaf[a].ribIn /\ leaf'[a].ribOut = leaf[a].ribOut
  <2>1. /\ LeafType(a, leaf[a]) /\ LocalOK(a, leaf[a]) /\ RemoteOK(leaf[a]) /\ DupOK(leaf[a])
        /\ \A p \in Leaf \ {a} : RibOK(p, leaf[a].ribIn[p])
    BY InvParts
  <2>2. CASE a = l
    <3>1. RemoteOK(w)
      BY <2>1, <2>2 DEF RemoteOK
    <3> QED BY <1>1, <2>1, <2>2, <3>1
  <2>3. CASE a # l
    BY <1>1, <2>1, <2>3
  <2> QED BY <2>2, <2>3
<1>4. RibsAgree'
  <2>1. \A a : Peers(a)' = Peers(a)
    BY <1>2 DEF Peers
  <2>2. ASSUME NEW a \in Leaf, NEW b \in Peers(a), a \in Peers(b)
        PROVE  ImportAll(leaf'[a].ribIn[b], channel'[<<b, a>>]) = leaf'[b].ribOut[a]
    <3>1. ImportAll(leaf[a].ribIn[b], channel[<<b, a>>]) = leaf[b].ribOut[a] /\ b \in Leaf
      BY <2>2 DEF FabricInv, RibsAgree, Peers
    <3> QED BY <1>2, <1>3, <3>1
  <2> QED BY <2>1, <2>2 DEF RibsAgree
<1>5. DownForgets'
  <2>1. DownForgets
    BY DEF FabricInv
  <2> QED BY <1>2, <1>3, <2>1 DEF DownForgets
<1>6. channel' \in [Leaf \X Leaf -> Seq(UpdateType)] /\ \A c \in Leaf \X Leaf : QueueOK(c[1], channel'[c])
  <2>1. \A c \in Leaf \X Leaf : QueueOK(c[1], channel[c])
    BY DEF FabricInv, ClaimsOK
  <2> QED BY <1>2, <2>1, InvParts
<1>7. up' \subseteq Ends /\ losses' \in 0 .. MaxLosses /\ UNCHANGED <<where, moves>>
  BY <1>2, InvParts
<1> QED BY <1>1, <1>3, <1>4, <1>5, <1>6, <1>7, InvNextParts

\* Frame.
LEMMA InvFrame ==
    ASSUME FabricInv, NEW l \in Leaf, NEW m \in Mac, Frame(l, m)
    PROVE  FabricInv'
<1> DEFINE v == leaf[l]
           w == LearnLocal(v, m)
<1>1. /\ l \in where[m] /\ leaf' = [leaf EXCEPT ![l] = w]
      /\ UNCHANGED <<channel, up, where, moves, losses>>
  BY DEF Frame
<1>2. LeafType(l, v) /\ LocalOK(l, v) /\ RemoteOK(v) /\ DupOK(v) /\ where[m] \subseteq Leaf /\ moves[m] \in Nat
  BY InvParts
<1> HIDE DEF v
<1>3. /\ LeafType(l, w) /\ LocalOK(l, w) /\ DupOK(w)
      /\ w.remote = v.remote /\ w.ribIn = v.ribIn /\ w.ribOut = v.ribOut
  BY <1>1, <1>2, LearnKeeps
<1> HIDE DEF w
<1> QED BY <1>1, <1>3, InvOneLeaf DEF v

\* ForgetLocal.
LEMMA InvForget ==
    ASSUME FabricInv, NEW l \in Leaf, NEW m \in Mac, ForgetLocal(l, m)
    PROVE  FabricInv'
<1> DEFINE v == leaf[l]
           f == Without(v.local, {m})
           w == [local |-> f, remote |-> v.remote, flood |-> v.flood, dup |-> v.dup,
                 ribIn |-> v.ribIn, ribOut |-> v.ribOut]
<1>1. LeafType(l, v) /\ LocalOK(l, v) /\ DupOK(v) /\ leaf = [a \in Leaf |-> leaf[a]]
  BY InvParts
<1>2. /\ v = [local |-> v.local, remote |-> v.remote, flood |-> v.flood, dup |-> v.dup,
              ribIn |-> v.ribIn, ribOut |-> v.ribOut]
      /\ v.local \in Partial(Mac, Seqs)
  BY <1>1 DEF LeafType
<1>3. leaf' = [leaf EXCEPT ![l] = w] /\ UNCHANGED <<channel, up, where, moves, losses>>
  <2>1. leaf' = [leaf EXCEPT ![l] = [leaf[l] EXCEPT !.local = Without(leaf[l].local, {m})]]
    BY <1>1 DEF ForgetLocal
  <2>2. [v EXCEPT !.local = f] = w
    <3> HIDE DEF v, f
    <3> QED BY <1>2
  <2>3. UNCHANGED <<channel, up, where, moves, losses>>
    BY DEF ForgetLocal
  <2> QED BY <2>1, <2>2, <2>3
<1>4. f \in Partial(Mac, Seqs) /\ DOMAIN f \subseteq DOMAIN v.local /\ \A k \in DOMAIN f : f[k] = v.local[k]
  <2> HIDE DEF v
  <2>1. f \in Partial(Mac, Seqs)
    BY <1>2, SeqsNat, WithType
  <2>2. DOMAIN f \subseteq DOMAIN v.local /\ \A k \in DOMAIN f : f[k] = v.local[k]
    BY DEF Without, Restrict
  <2> QED BY <2>1, <2>2
<1> HIDE DEF v, f
<1>5. LeafType(l, w) /\ w.remote = v.remote /\ w.ribIn = v.ribIn /\ w.ribOut = v.ribOut
  BY <1>1, <1>4 DEF LeafType
<1>6. LocalOK(l, w) /\ DupOK(w)
  BY <1>1, <1>4 DEF LocalOK, DupOK
<1> HIDE DEF w
<1> QED BY <1>3, <1>5, <1>6, InvOneLeaf DEF v

\* A step that moves hosts and takes nothing away from what a claim may be.
LEMMA InvHosts ==
    ASSUME FabricInv, UNCHANGED <<leaf, channel, up, losses>>,
           where' \in [Mac -> SUBSET Leaf], moves' \in [Mac -> Nat],
           \A p \in Leaf, m \in Mac : \A n \in Seqs : ClaimOK(p, m, n) => ClaimOK(p, m, n)',
           \A m \in Mac : (Cardinality(where[m]) = 1 => moves[m] > MoveLimit)
                              => (Cardinality(where'[m]) = 1 => moves'[m] > MoveLimit)
    PROVE  FabricInv'
<1>1. leaf' = leaf /\ channel' = channel /\ up' = up /\ losses' = losses
  OBVIOUS
<1>2. TypeOK' /\ RibsAgree' /\ DownForgets' /\ leaf' = [l \in Leaf |-> leaf'[l]]
  <2>1. TypeOK'
    BY <1>1 DEF FabricInv, TypeOK
  <2>2. RibsAgree'
    BY <1>1 DEF FabricInv, RibsAgree, Peers
  <2>3. DownForgets'
    BY <1>1 DEF FabricInv, DownForgets
  <2> QED BY <1>1, <2>1, <2>2, <2>3, InvParts
<1>3. \A l \in Leaf : LeafType(l, leaf[l])'
  <2>1. \A l \in Leaf : LeafType(l, leaf[l])
    BY InvParts
  <2> QED BY <1>1, <2>1 DEF LeafType
<1>4. ASSUME NEW l \in Leaf
      PROVE  /\ LocalOK(l, leaf[l])' /\ RemoteOK(leaf[l])' /\ DupOK(leaf[l])'
             /\ \A p \in Leaf \ {l} : RibOK(p, leaf[l].ribIn[p])'
  <2> DEFINE v == leaf[l]
  <2>1. /\ LeafType(l, v) /\ LocalOK(l, v) /\ RemoteOK(v) /\ DupOK(v)
        /\ \A p \in Leaf \ {l} : RibOK(p, v.ribIn[p]) /\ v.ribIn[p] \in Partial(Item, Seqs)
    BY InvParts
  <2>2. LocalOK(l, leaf[l])'
    <3>1. v.local \in Partial(Mac, Seqs)
      BY <2>1 DEF LeafType
    <3>2. \A m \in DOMAIN v.local : m \in Mac /\ v.local[m] \in Seqs
      BY <3>1, PartialDef
    <3>3. \A m \in DOMAIN v.local : ClaimOK(l, m, v.local[m])
      BY <2>1 DEF LocalOK
    <3>4. ASSUME NEW m \in DOMAIN leaf'[l].local PROVE ClaimOK(l, m, leaf[l].local[m])'
      <4>1. leaf'[l] = v /\ m \in DOMAIN v.local
        BY <1>1, <3>4
      <4> DEFINE n == v.local[m]
      <4>2. n \in Seqs /\ m \in Mac /\ ClaimOK(l, m, n) /\ leaf'[l].local[m] = n
        BY <3>2, <3>3, <4>1
      <4> HIDE DEF n, v
      <4>3. Cardinality(where'[m]) = 1 => n <= moves'[m] /\ (l \notin where'[m] => n < moves'[m])
        BY <4>2 DEF ClaimOK
      <4> QED BY <4>2, <4>3 DEF ClaimOK
    <3> QED BY <3>4 DEF LocalOK
  <2>3. RemoteOK(leaf[l])'
    <3> DEFINE V == [vtep : Leaf \ {l}, seq : Seqs]
    <3>1. v.remote \in Partial(Mac, V)
      BY <2>1 DEF LeafType
    <3> HIDE DEF V
    <3>2. \A m \in DOMAIN v.remote : m \in Mac /\ v.remote[m] \in V
      BY <3>1, PartialDef
    <3>3. \A m \in DOMAIN v.remote : ClaimOK(v.remote[m].vtep, m, v.remote[m].seq)
      BY <2>1 DEF RemoteOK
    <3>4. ASSUME NEW m \in DOMAIN leaf'[l].remote
          PROVE  ClaimOK(leaf[l].remote[m].vtep, m, leaf[l].remote[m].seq)'
      <4>1. leaf'[l] = v /\ m \in DOMAIN v.remote
        BY <1>1, <3>4
      <4> DEFINE n == v.remote[m].seq
                 p == v.remote[m].vtep
      <4>2. /\ n \in Seqs /\ p \in Leaf /\ m \in Mac /\ ClaimOK(p, m, n)
            /\ leaf'[l].remote[m].seq = n /\ leaf'[l].remote[m].vtep = p
        BY <3>2, <3>3, <4>1 DEF V
      <4> HIDE DEF n, p, v
      <4>3. Cardinality(where'[m]) = 1 => n <= moves'[m] /\ (p \notin where'[m] => n < moves'[m])
        BY <4>2 DEF ClaimOK
      <4> QED BY <4>2, <4>3 DEF ClaimOK
    <3> QED BY <3>4 DEF RemoteOK
  <2>4. DupOK(leaf[l])'
    <3>1. v.dup \subseteq Mac
      BY <2>1 DEF LeafType
    <3> QED BY <1>1, <2>1, <3>1 DEF DupOK
  <2>5. ASSUME NEW p \in Leaf \ {l} PROVE RibOK(p, leaf[l].ribIn[p])'
    <3> DEFINE r == v.ribIn[p]
    <3>1. \A m \in DOMAIN r : r[m] \in Seqs
      <4>1. r \in Partial(Item, Seqs)
        BY <2>1
      <4> HIDE DEF r
      <4> QED BY <4>1, PartialDef
    <3>2. \A m \in DOMAIN r \cap Mac : ClaimOK(p, m, r[m])
      BY <2>1 DEF RibOK
    <3>3. leaf'[l].ribIn[p] = r
      BY <1>1
    <3> HIDE DEF r, v
    <3>4. \A m \in DOMAIN r \cap Mac :
             Cardinality(where'[m]) = 1 => r[m] <= moves'[m] /\ (p \notin where'[m] => r[m] < moves'[m])
      BY <3>1, <3>2 DEF ClaimOK
    <3> QED BY <3>3, <3>4 DEF RibOK, ClaimOK
  <2> QED BY <2>2, <2>3, <2>4, <2>5
<1>5. ASSUME NEW c \in Leaf \X Leaf PROVE QueueOK(c[1], channel[c])'
  <2> DEFINE s == channel[c]
             p == c[1]
  <2>1. s \in Seq(UpdateType) /\ p \in Leaf
    BY InvParts
  <2>2. QueueOK(p, s)
    BY DEF FabricInv, ClaimsOK
  <2>3. channel'[c] = s
    BY <1>1
  <2> HIDE DEF s
  <2>4. \A i \in DOMAIN s : s[i].seq \in Seqs
    <3>1. \A i \in DOMAIN s : s[i] \in UpdateType
      BY <2>1, SeqFacts
    <3> QED BY <3>1 DEF UpdateType
  <2>5. \A i \in DOMAIN s : \A m \in s[i].announce \cap Mac : ClaimOK(p, m, s[i].seq)
    BY <2>2 DEF QueueOK
  <2> HIDE DEF p
  <2>6. \A i \in DOMAIN s : \A m \in s[i].announce \cap Mac :
           Cardinality(where'[m]) = 1 => s[i].seq <= moves'[m] /\ (p \notin where'[m] => s[i].seq < moves'[m])
    BY <2>1, <2>4, <2>5 DEF ClaimOK
  <2> QED BY <2>3, <2>6 DEF QueueOK, ClaimOK, p
<1>6. ClaimsOK'
  BY <1>4, <1>5 DEF ClaimsOK
<1> QED BY <1>2, <1>3, <1>6 DEF FabricInv

\* Move.
LEMMA InvMove ==
    ASSUME FabricInv, NEW l \in Leaf, NEW m \in Mac, Move(l, m)
    PROVE  FabricInv'
<1>1. /\ where' = [where EXCEPT ![m] = {l}] /\ moves' = [moves EXCEPT ![m] = @ + 1]
      /\ UNCHANGED <<leaf, channel, up, losses>> /\ Cardinality(where[m]) = 1
  BY DEF Move
<1>2. where \in [Mac -> SUBSET Leaf] /\ moves \in [Mac -> Nat] /\ MoveLimit \in Nat /\ Seqs \subseteq Nat
  BY InvParts, SeqsNat
<1>3. where' \in [Mac -> SUBSET Leaf] /\ moves' \in [Mac -> Nat]
  BY <1>1, <1>2
<1>4. /\ moves'[m] = moves[m] + 1 /\ moves[m] \in Nat
      /\ \A k \in Mac \ {m} : where'[k] = where[k] /\ moves'[k] = moves[k]
  BY <1>1, <1>2
<1>5. ASSUME NEW p \in Leaf, NEW k \in Mac, NEW n \in Seqs, ClaimOK(p, k, n)
      PROVE  ClaimOK(p, k, n)'
  <2>1. CASE k = m
    <3>1. n <= moves[m] /\ n \in Nat
      BY <1>1, <1>2, <1>5, <2>1 DEF ClaimOK
    <3>2. n < moves'[m] /\ n <= moves'[m]
      BY <1>4, <3>1
    <3> QED BY <2>1, <3>2 DEF ClaimOK
  <2>2. CASE k # m
    BY <1>4, <1>5, <2>2 DEF ClaimOK
  <2> QED BY <2>1, <2>2
<1>6. ASSUME NEW k \in Mac, Cardinality(where[k]) = 1 => moves[k] > MoveLimit
      PROVE  Cardinality(where'[k]) = 1 => moves'[k] > MoveLimit
  <2>1. CASE k = m
    BY <1>1, <1>2, <1>4, <1>6, <2>1
  <2>2. CASE k # m
    BY <1>4, <1>6, <2>2
  <2> QED BY <2>1, <2>2
<1> QED BY <1>1, <1>3, <1>5, <1>6, InvHosts

\* Clone: of two hosts with one address nothing is claimed.
LEMMA InvClone ==
    ASSUME FabricInv, NEW l \in Leaf, NEW m \in Mac, Clone(l, m)
    PROVE  FabricInv'
<1>1. /\ where' = [where EXCEPT ![m] = @ \cup {l}] /\ moves' = moves
      /\ UNCHANGED <<leaf, channel, up, losses>> /\ Cardinality(where[m]) = 1 /\ l \notin where[m]
  BY DEF Clone
<1>2. where \in [Mac -> SUBSET Leaf] /\ moves \in [Mac -> Nat]
  BY InvParts
<1>3. where' \in [Mac -> SUBSET Leaf] /\ moves' \in [Mac -> Nat]
  BY <1>1, <1>2
<1>4. where'[m] = where[m] \cup {l} /\ \A k \in Mac \ {m} : where'[k] = where[k]
  BY <1>1, <1>2
<1>5. Cardinality(where'[m]) # 1
  <2>1. IsFiniteSet(where[m])
    BY <1>2, FabricAssumption, FS_Subset
  <2>2. Cardinality(where[m] \cup {l}) = 1 + 1
    BY <1>1, <2>1, FS_AddElement
  <2> QED BY <1>4, <2>2
<1>6. ASSUME NEW p \in Leaf, NEW k \in Mac, NEW n \in Seqs, ClaimOK(p, k, n)
      PROVE  ClaimOK(p, k, n)'
  <2>1. CASE k = m
    BY <1>5, <2>1 DEF ClaimOK
  <2>2. CASE k # m
    BY <1>1, <1>4, <1>6, <2>2 DEF ClaimOK
  <2> QED BY <2>1, <2>2
<1>7. ASSUME NEW k \in Mac, Cardinality(where[k]) = 1 => moves[k] > MoveLimit
      PROVE  Cardinality(where'[k]) = 1 => moves'[k] > MoveLimit
  <2>1. CASE k = m
    BY <1>5, <2>1
  <2>2. CASE k # m
    BY <1>1, <1>4, <1>7, <2>2
  <2> QED BY <2>1, <2>2
<1> QED BY <1>1, <1>3, <1>6, <1>7, InvHosts

\* A leaf whose Adj-RIBs are replaced by others in order.
LEMMA RibsReplaced ==
    ASSUME FabricInv, NEW a \in Leaf,
           NEW in \in [Leaf \ {a} -> Partial(Item, Seqs)], \A b \in Leaf \ {a} : RibOK(b, in[b]),
           NEW out \in [Leaf \ {a} -> Partial(Item, Seqs)]
    PROVE  LET v == leaf[a]
               w == [local |-> v.local, remote |-> v.remote, flood |-> v.flood, dup |-> v.dup,
                     ribIn |-> in, ribOut |-> out]
           IN  /\ LeafType(a, w) /\ LocalOK(a, w) /\ RemoteOK(w) /\ DupOK(w)
               /\ \A b \in Leaf \ {a} : RibOK(b, w.ribIn[b])
               /\ w.ribIn = in /\ w.ribOut = out
<1> DEFINE v == leaf[a]
           w == [local |-> v.local, remote |-> v.remote, flood |-> v.flood, dup |-> v.dup,
                 ribIn |-> in, ribOut |-> out]
<1>1. LeafType(a, v) /\ LocalOK(a, v) /\ RemoteOK(v) /\ DupOK(v)
  BY InvParts
<1> HIDE DEF v
<1>2. LeafType(a, w) /\ w.ribIn = in /\ w.ribOut = out
  BY <1>1 DEF LeafType
<1>3. LocalOK(a, w) /\ RemoteOK(w) /\ DupOK(w)
  BY <1>1 DEF LocalOK, RemoteOK, DupOK
<1> QED BY <1>2, <1>3 DEF v

\* teardown at one end: nothing counts as told, and what was heard stays or goes.
LEMMA TornDownOK ==
    ASSUME FabricInv, NEW a \in Leaf, NEW q \in Leaf \ {a}, NEW retain \in BOOLEAN
    PROVE  LET w == TornDown(leaf[a], q, retain)
           IN  /\ LeafType(a, w) /\ LocalOK(a, w) /\ RemoteOK(w) /\ DupOK(w)
               /\ \A b \in Leaf \ {a} : RibOK(b, w.ribIn[b])
               /\ w.ribOut[q] = None
               /\ \A b \in Leaf \ {a, q} : w.ribIn[b] = leaf[a].ribIn[b] /\ w.ribOut[b] = leaf[a].ribOut[b]
<1> DEFINE v == leaf[a]
           in == [v.ribIn EXCEPT ![q] = IF retain THEN @ ELSE None]
           out == [v.ribOut EXCEPT ![q] = None]
           w == [local |-> v.local, remote |-> v.remote, flood |-> v.flood, dup |-> v.dup,
                 ribIn |-> in, ribOut |-> out]
<1>1. /\ LeafType(a, v) /\ \A b \in Leaf \ {a} : RibOK(b, v.ribIn[b])
  BY InvParts
<1>2. /\ v = [local |-> v.local, remote |-> v.remote, flood |-> v.flood, dup |-> v.dup,
              ribIn |-> v.ribIn, ribOut |-> v.ribOut]
      /\ v.ribIn \in [Leaf \ {a} -> Partial(Item, Seqs)]
      /\ v.ribOut \in [Leaf \ {a} -> Partial(Item, Seqs)]
  <2> HIDE DEF v
  <2> QED BY <1>1 DEF LeafType
<1>3. TornDown(v, q, retain) = w
  <2> HIDE DEF v
  <2> DEFINE u == [local |-> v.local, remote |-> v.remote, flood |-> v.flood, dup |-> v.dup,
                   ribIn |-> v.ribIn, ribOut |-> out]
  <2>1. [v EXCEPT !.ribOut[q] = None] = u
    BY <1>2
  <2>2. TornDown(v, q, retain) = [[v EXCEPT !.ribOut[q] = None] EXCEPT !.ribIn[q] = IF retain THEN @ ELSE None]
    BY DEF TornDown
  <2>3. [u EXCEPT !.ribIn[q] = IF retain THEN @ ELSE None] = w
    <3> HIDE DEF out
    <3> QED OBVIOUS
  <2> HIDE DEF u, w
  <2> QED BY <2>1, <2>2, <2>3
<1> HIDE DEF v
<1>4. /\ in \in [Leaf \ {a} -> Partial(Item, Seqs)] /\ out \in [Leaf \ {a} -> Partial(Item, Seqs)]
      /\ out[q] = None /\ in[q] = (IF retain THEN v.ribIn[q] ELSE None)
      /\ \A b \in Leaf \ {a, q} : in[b] = v.ribIn[b] /\ out[b] = v.ribOut[b]
  BY <1>2, NoneFacts
<1> HIDE DEF in, out
<1>5. \A b \in Leaf \ {a} : RibOK(b, in[b])
  BY <1>1, <1>4, NoneFacts
<1>6. /\ LeafType(a, w) /\ LocalOK(a, w) /\ RemoteOK(w) /\ DupOK(w)
      /\ \A b \in Leaf \ {a} : RibOK(b, w.ribIn[b])
      /\ w.ribIn = in /\ w.ribOut = out
  BY <1>4, <1>5, RibsReplaced DEF v
<1> HIDE DEF w
<1> QED BY <1>3, <1>4, <1>6 DEF v

\* SessionDown.
LEMMA InvDown ==
    ASSUME FabricInv, NEW l \in Leaf, NEW p \in Leaf, NEW retain \in BOOLEAN, SessionDown(l, p, retain)
    PROVE  FabricInv'
<1> DEFINE w == TornDown(leaf[l], p, retain)
<1>1. /\ <<l, p>> \in up /\ up' = up \ {<<l, p>>}
      /\ IF <<p, l>> \in up THEN losses < MaxLosses /\ losses' = losses + 1 ELSE losses' = losses
      /\ leaf' = [leaf EXCEPT ![l] = w] /\ channel' = [channel EXCEPT ![<<p, l>>] = <<>>]
      /\ where' = where /\ moves' = moves
  BY DEF SessionDown
<1>2. p \in Leaf \ {l}
  BY <1>1, InvParts DEF Ends
<1>3. /\ LeafType(l, w) /\ LocalOK(l, w) /\ RemoteOK(w) /\ DupOK(w)
      /\ \A b \in Leaf \ {l} : RibOK(b, w.ribIn[b])
      /\ w.ribOut[p] = None
      /\ \A b \in Leaf \ {l, p} : w.ribIn[b] = leaf[l].ribIn[b] /\ w.ribOut[b] = leaf[l].ribOut[b]
  BY <1>2, TornDownOK
<1> HIDE DEF w
<1>4. /\ leaf' = [a \in Leaf |-> leaf'[a]] /\ leaf'[l] = w
      /\ \A a \in Leaf \ {l} : leaf'[a] = leaf[a]
  <2>1. leaf = [a \in Leaf |-> leaf[a]]
    BY InvParts
  <2> QED BY <1>1, <2>1
<1>5. ASSUME NEW a \in Leaf
      PROVE  /\ LeafType(a, leaf'[a]) /\ LocalOK(a, leaf'[a]) /\ RemoteOK(leaf'[a]) /\ DupOK(leaf'[a])
             /\ \A b \in Leaf \ {a} : RibOK(b, leaf'[a].ribIn[b])
  <2>1. CASE a = l
    BY <1>3, <1>4, <2>1
  <2>2. CASE a # l
    BY <1>4, <2>2, InvParts
  <2> QED BY <2>1, <2>2
<1>6. ASSUME NEW a \in Leaf, NEW b \in Leaf
      PROVE  channel'[<<a, b>>] = IF a = p /\ b = l THEN <<>> ELSE channel[<<a, b>>]
  <2>1. channel \in [Leaf \X Leaf -> Seq(UpdateType)] /\ <<a, b>> \in Leaf \X Leaf
    BY InvParts
  <2> QED BY <1>1, <2>1
<1>7. channel' \in [Leaf \X Leaf -> Seq(UpdateType)] /\ \A c \in Leaf \X Leaf : QueueOK(c[1], channel'[c])
  <2>1. channel \in [Leaf \X Leaf -> Seq(UpdateType)] /\ <<>> \in Seq(UpdateType)
    BY InvParts
  <2>2. \A c \in Leaf \X Leaf : channel'[c] = <<>> \/ channel'[c] = channel[c]
    BY <1>1, <2>1
  <2>3. \A c \in Leaf \X Leaf : QueueOK(c[1], channel[c]) /\ QueueOK(c[1], <<>>)
    BY DEF FabricInv, ClaimsOK, QueueOK
  <2>4. channel' \in [Leaf \X Leaf -> Seq(UpdateType)]
    BY <1>1, <2>1
  <2> QED BY <2>2, <2>3, <2>4
<1>8. RibsAgree'
  <2> SUFFICES ASSUME NEW a \in Leaf, NEW b \in Peers(a)', a \in Peers(b)'
               PROVE  ImportAll(leaf'[a].ribIn[b], channel'[<<b, a>>]) = leaf'[b].ribOut[a]
    BY DEF RibsAgree
  <2>1. /\ b \in Leaf \ {a} /\ a \in Leaf \ {b} /\ b \in Peers(a) /\ a \in Peers(b)
        /\ ~(a = l /\ b = p) /\ ~(a = p /\ b = l)
    BY <1>1 DEF Peers
  <2>2. ImportAll(leaf[a].ribIn[b], channel[<<b, a>>]) = leaf[b].ribOut[a]
    BY <2>1 DEF FabricInv, RibsAgree
  <2>3. leaf'[a].ribIn[b] = leaf[a].ribIn[b] /\ leaf'[b].ribOut[a] = leaf[b].ribOut[a]
    BY <1>3, <1>4, <2>1
  <2>4. channel'[<<b, a>>] = channel[<<b, a>>]
    BY <1>6, <2>1
  <2> QED BY <2>2, <2>3, <2>4
<1>9. DownForgets'
  <2> SUFFICES ASSUME NEW a \in Leaf, NEW b \in Leaf \ {a}, <<a, b>> \notin up'
               PROVE  leaf'[a].ribOut[b] = None /\ channel'[<<b, a>>] = <<>>
    BY DEF DownForgets
  <2>1. CASE a = l /\ b = p
    BY <1>3, <1>4, <1>6, <2>1
  <2>2. CASE ~(a = l /\ b = p)
    <3>1. <<a, b>> \notin up
      BY <1>1, <2>2
    <3>2. leaf[a].ribOut[b] = None /\ channel[<<b, a>>] = <<>>
      BY <3>1 DEF FabricInv, DownForgets
    <3>3. leaf'[a].ribOut[b] = leaf[a].ribOut[b]
      BY <1>3, <1>4, <2>2
    <3> QED BY <1>6, <3>2, <3>3
  <2> QED BY <2>1, <2>2
<1>10. up' \subseteq Ends /\ losses' \in 0 .. MaxLosses /\ UNCHANGED <<where, moves>>
  <2>1. up \subseteq Ends /\ losses \in 0 .. MaxLosses /\ MaxLosses \in Nat
    BY InvParts, FabricAssumption
  <2> QED BY <1>1, <2>1
<1> QED BY <1>4, <1>5, <1>7, <1>8, <1>9, <1>10, InvNextParts

\* What the OPEN of q leaves of a leaf.
LEMMA FlushedOK ==
    ASSUME FabricInv, NEW a \in Leaf, NEW q \in Leaf \ {a}
    PROVE  LET w == Flushed(leaf[a], q)
           IN  /\ LeafType(a, w) /\ LocalOK(a, w) /\ RemoteOK(w) /\ DupOK(w)
               /\ \A b \in Leaf \ {a} : RibOK(b, w.ribIn[b])
               /\ w.ribIn[q] = None /\ w.ribOut = leaf[a].ribOut
               /\ \A b \in Leaf \ {a, q} : w.ribIn[b] = leaf[a].ribIn[b]
<1> DEFINE v == leaf[a]
           in == [v.ribIn EXCEPT ![q] = None]
           w == [local |-> v.local, remote |-> v.remote, flood |-> v.flood, dup |-> v.dup,
                 ribIn |-> in, ribOut |-> v.ribOut]
<1>1. /\ LeafType(a, v) /\ \A b \in Leaf \ {a} : RibOK(b, v.ribIn[b])
  BY InvParts
<1> HIDE DEF v
<1>2. /\ v = [local |-> v.local, remote |-> v.remote, flood |-> v.flood, dup |-> v.dup,
              ribIn |-> v.ribIn, ribOut |-> v.ribOut]
      /\ v.ribIn \in [Leaf \ {a} -> Partial(Item, Seqs)]
      /\ v.ribOut \in [Leaf \ {a} -> Partial(Item, Seqs)]
  BY <1>1 DEF LeafType
<1>3. Flushed(v, q) = w
  BY <1>2 DEF Flushed
<1>4. /\ in \in [Leaf \ {a} -> Partial(Item, Seqs)] /\ in[q] = None
      /\ \A b \in Leaf \ {a, q} : in[b] = v.ribIn[b]
  BY <1>2, NoneFacts
<1> HIDE DEF in
<1>5. \A b \in Leaf \ {a} : RibOK(b, in[b])
  BY <1>1, <1>4, NoneFacts
<1>6. /\ LeafType(a, w) /\ LocalOK(a, w) /\ RemoteOK(w) /\ DupOK(w)
      /\ \A b \in Leaf \ {a} : RibOK(b, w.ribIn[b])
      /\ w.ribIn = in /\ w.ribOut = v.ribOut
  BY <1>2, <1>4, <1>5, RibsReplaced DEF v
<1> HIDE DEF w
<1> QED BY <1>3, <1>4, <1>6 DEF v

\* SessionUp: both ends start from nothing, whatever they retained.
LEMMA InvUp ==
    ASSUME FabricInv, NEW l \in Leaf, NEW p \in Leaf, SessionUp(l, p)
    PROVE  FabricInv'
<1> DEFINE x == Flushed(leaf[l], p)
           y == Flushed(leaf[p], l)
<1>1. /\ <<l, p>> \in Ends \ up /\ <<p, l>> \notin up /\ up' = up \cup {<<l, p>>, <<p, l>>}
      /\ channel' = channel /\ losses' = losses /\ where' = where /\ moves' = moves
  BY DEF SessionUp
<1>2. p \in Leaf \ {l} /\ l \in Leaf \ {p} /\ <<p, l>> \in Ends
  BY <1>1 DEF Ends
<1>3. leaf' = [leaf EXCEPT ![l] = x, ![p] = y]
  BY <1>2, InvParts DEF SessionUp
<1>4. /\ LeafType(l, x) /\ LocalOK(l, x) /\ RemoteOK(x) /\ DupOK(x)
      /\ \A b \in Leaf \ {l} : RibOK(b, x.ribIn[b])
      /\ x.ribIn[p] = None /\ x.ribOut = leaf[l].ribOut
      /\ \A b \in Leaf \ {l, p} : x.ribIn[b] = leaf[l].ribIn[b]
  BY <1>2, FlushedOK
<1>5. /\ LeafType(p, y) /\ LocalOK(p, y) /\ RemoteOK(y) /\ DupOK(y)
      /\ \A b \in Leaf \ {p} : RibOK(b, y.ribIn[b])
      /\ y.ribIn[l] = None /\ y.ribOut = leaf[p].ribOut
      /\ \A b \in Leaf \ {p, l} : y.ribIn[b] = leaf[p].ribIn[b]
  BY <1>2, FlushedOK
<1> HIDE DEF x, y
<1>6. /\ leaf' = [a \in Leaf |-> leaf'[a]] /\ leaf'[l] = x /\ leaf'[p] = y
      /\ \A a \in Leaf \ {l, p} : leaf'[a] = leaf[a]
  <2>1. leaf = [a \in Leaf |-> leaf[a]]
    BY InvParts
  <2> QED BY <1>2, <1>3, <2>1
<1>7. ASSUME NEW a \in Leaf
      PROVE  /\ LeafType(a, leaf'[a]) /\ LocalOK(a, leaf'[a]) /\ RemoteOK(leaf'[a]) /\ DupOK(leaf'[a])
             /\ \A b \in Leaf \ {a} : RibOK(b, leaf'[a].ribIn[b])
  <2>1. CASE a = l
    BY <1>4, <1>6, <2>1
  <2>2. CASE a = p
    BY <1>5, <1>6, <2>2
  <2>3. CASE a # l /\ a # p
    BY <1>6, <2>3, InvParts
  <2> QED BY <2>1, <2>2, <2>3
<1>8. ASSUME NEW a \in Leaf, NEW b \in Leaf \ {a}
      PROVE  /\ leaf'[a].ribOut[b] = leaf[a].ribOut[b]
             /\ leaf'[a].ribIn[b] = IF {a, b} = {l, p} THEN None ELSE leaf[a].ribIn[b]
  <2>1. {a, b} = {l, p} <=> (a = l /\ b = p) \/ (a = p /\ b = l)
    BY <1>2
  <2>2. CASE a = l
    BY <1>2, <1>4, <1>6, <2>1, <2>2
  <2>3. CASE a = p
    BY <1>2, <1>5, <1>6, <2>1, <2>3
  <2>4. CASE a # l /\ a # p
    BY <1>6, <2>1, <2>4
  <2> QED BY <2>2, <2>3, <2>4
<1>9. channel' \in [Leaf \X Leaf -> Seq(UpdateType)] /\ \A c \in Leaf \X Leaf : QueueOK(c[1], channel'[c])
  <2>1. \A c \in Leaf \X Leaf : QueueOK(c[1], channel[c])
    BY DEF FabricInv, ClaimsOK
  <2> QED BY <1>1, <2>1, InvParts
<1>10. RibsAgree'
  <2> SUFFICES ASSUME NEW a \in Leaf, NEW b \in Peers(a)', a \in Peers(b)'
               PROVE  ImportAll(leaf'[a].ribIn[b], channel'[<<b, a>>]) = leaf'[b].ribOut[a]
    BY DEF RibsAgree
  <2>1. b \in Leaf \ {a} /\ a \in Leaf \ {b} /\ <<a, b>> \in up' /\ <<b, a>> \in up'
    BY DEF Peers
  <2>2. {a, b} = {l, p} <=> (a = l /\ b = p) \/ (a = p /\ b = l)
    BY <1>2
  <2>3. leaf'[b].ribOut[a] = leaf[b].ribOut[a] /\ channel'[<<b, a>>] = channel[<<b, a>>]
    BY <1>1, <1>8, <2>1
  <2>4. CASE {a, b} = {l, p}
    <3>1. <<b, a>> \notin up /\ <<a, b>> \notin up
      BY <1>1, <2>2, <2>4
    <3>2. leaf[b].ribOut[a] = None /\ channel[<<b, a>>] = <<>>
      BY <2>1, <3>1 DEF FabricInv, DownForgets
    <3>3. leaf'[a].ribIn[b] = None
      BY <1>8, <2>1, <2>4
    <3> QED BY <2>3, <3>2, <3>3, ImportNone
  <2>5. CASE {a, b} # {l, p}
    <3>1. <<b, a>> \in up /\ <<a, b>> \in up
      BY <1>1, <2>1, <2>2, <2>5
    <3>2. b \in Peers(a) /\ a \in Peers(b)
      BY <2>1, <3>1 DEF Peers
    <3>3. ImportAll(leaf[a].ribIn[b], channel[<<b, a>>]) = leaf[b].ribOut[a]
      BY <3>2 DEF FabricInv, RibsAgree
    <3>4. leaf'[a].ribIn[b] = leaf[a].ribIn[b]
      BY <1>8, <2>1, <2>5
    <3> QED BY <2>3, <3>3, <3>4
  <2> QED BY <2>4, <2>5
<1>11. DownForgets'
  <2> SUFFICES ASSUME NEW a \in Leaf, NEW b \in Leaf \ {a}, <<a, b>> \notin up'
               PROVE  leaf'[a].ribOut[b] = None /\ channel'[<<b, a>>] = <<>>
    BY DEF DownForgets
  <2>1. leaf[a].ribOut[b] = None /\ channel[<<b, a>>] = <<>>
    BY <1>1 DEF FabricInv, DownForgets
  <2> QED BY <1>1, <1>8, <2>1
<1>12. up' \subseteq Ends /\ losses' \in 0 .. MaxLosses /\ UNCHANGED <<where, moves>>
  BY <1>1, <1>2, InvParts
<1> QED BY <1>6, <1>7, <1>9, <1>10, <1>11, <1>12, InvNextParts

\* Every step.
LEMMA InvNext == FabricInv /\ [Next]_vars => FabricInv'
<1> SUFFICES ASSUME FabricInv, [Next]_vars PROVE FabricInv'
  OBVIOUS
<1>1. ASSUME NEW l \in Leaf, NEW taken \in Arrived(l), NEW expired \in SUBSET Retained(l),
             StepTimers(l, taken, expired)
      PROVE  FabricInv'
  BY <1>1, InvStep
<1>2. ASSUME NEW l \in Leaf, NEW m \in Mac, Frame(l, m) \/ Move(l, m) \/ Clone(l, m) \/ ForgetLocal(l, m)
      PROVE  FabricInv'
  BY <1>2, InvFrame, InvMove, InvClone, InvForget
<1>3. ASSUME NEW l \in Leaf, NEW p \in Leaf, NEW retain \in BOOLEAN, SessionDown(l, p, retain)
      PROVE  FabricInv'
  BY <1>3, InvDown
<1>4. ASSUME NEW l \in Leaf, NEW p \in Leaf, SessionUp(l, p) PROVE FabricInv'
  BY <1>4, InvUp
<1>5. CASE UNCHANGED vars
  BY <1>5 DEF vars, FabricInv, TypeOK, LeafType, RibsAgree, Peers, DownForgets, ClaimsOK,
              LocalOK, RemoteOK, DupOK, RibOK, QueueOK, ClaimOK
<1> QED BY <1>1, <1>2, <1>3, <1>4, <1>5 DEF Next

\* FabricInv is an invariant of the fabric: every claim to a MAC, held, heard or under
\* way or retained from a lost session, stays within the moves of its host, the
\* Adj-RIBs at two ends that are both up agree, and an end that is down has nothing to
\* read and counts nothing as told (learn_local, advertise_evpn_to_peer, teardown).
THEOREM FabricInductive == Spec => []FabricInv
BY InvInit, InvNext, PTL DEF Spec

\* Whenever a session is Established at both ends, the Adj-RIB-In with what is under way
\* is the Adj-RIB-Out of the other end, also after losses that left routes retained at
\* one end or both, as long as no leaf announces a restart of its own; and every number
\* stays within the limit of moves (advertise_evpn_to_peer, import_evpn_update,
\* teardown, reconcile_graceful_restart_open).
THEOREM RibsAlwaysSound == Spec => []RibsSound
<1>1. FabricInv => RibsSound
  BY DEF FabricInv, RibsSound
<1> QED BY <1>1, FabricInductive, PTL

\* No MAC is declared duplicate in learn_local unless its host moved more often than
\* MAX_MAC_MOVES or there are two hosts.
THEOREM NoFalseDuplicateEver == Spec => []NoFalseDuplicate
<1>1. FabricInv => NoFalseDuplicate
  BY DEF FabricInv, ClaimsOK, DupOK, NoFalseDuplicate
<1> QED BY <1>1, FabricInductive, PTL
====
