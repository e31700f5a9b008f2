--------------------------- MODULE Ipv6HostProofs ----------------------------
(***************************************************************************)
(* The IPv6 host for every set of routers, every advertisement they may    *)
(* send and every length of its timers: the routing table says what the    *)
(* lists say, a timer call leaves the best router in use and does not lose *)
(* the last one silently, and an address is neither cut short by a frame   *)
(* nor adopted while somebody else uses it.                                *)
(***************************************************************************)
EXTENDS Ipv6Host, TLAPS, FiniteSetTheorems, SequenceTheorems,
        WellFoundedInduction, NaturalsInduction

-----------------------------------------------------------------------------
(* The state of the host as a set of records.                              *)

RouterEntry == [router : Router, until : Life, pref : 0 .. 2]
Lists == Seq(RouterEntry)
Rio == [Scope -> [Router -> Seq(Entry)]]
Cache == [Router -> Neighbour]
Redirect == [router : Hop, target : Hop]
Discovery == [status : {"idle", "soliciting", "exhausted"}, sent : 0 .. MaxSolicits - 1, due : Nat]
AddressKind == {"none", "manual", "auto"}
Dad == [due : Nat, valid : Life, gateway : Hop, until : Life, on : BOOLEAN]
Slaac == [on : BOOLEAN, valid : Life]

HostState ==
    [gateway : Hop, static : Hop, raRoute : Hop, routers : Lists, rio : Rio,
     failed : SUBSET Router, ndp : Cache, parked : SUBSET Hop, redirect : Redirect,
     discovery : Discovery, address : AddressKind, dad : Dad, duplicate : BOOLEAN, slaac : Slaac]

-----------------------------------------------------------------------------
(* Sequences and sets of numbers.                                          *)

\* Every nonempty set of naturals has a least element.
LEMMA LeastNat ==
    ASSUME NEW T \in SUBSET Nat, T # {}
    PROVE  \E x \in T : \A y \in T : x <= y
<1> DEFINE R == OpToRel(<, Nat)
<1>1. IsWellFoundedOn(R, Nat)
  BY NatLessThanWellFounded
<1>2. \E x \in T : \A y \in T : ~(<<y, x>> \in R)
  <2> HIDE DEF R
  <2> QED BY <1>1, WFMin
<1>3. \A x, y \in Nat : ~(<<y, x>> \in R) => x <= y
  BY DEF R, OpToRel
<1> QED BY <1>2, <1>3

\* Min is the least element.
LEMMA MinIs ==
    ASSUME NEW T \in SUBSET Nat, T # {}
    PROVE  Min(T) \in T /\ \A y \in T : Min(T) <= y
<1>1. \E x \in T : \A y \in T : x =< y
  BY LeastNat
<1> QED BY <1>1 DEF Min

\* A set of numbers below a bound has a greatest element, which is its Max.
LEMMA MaxIs ==
    ASSUME NEW n \in Nat, NEW T \in SUBSET (0 .. n), T # {}
    PROVE  Max(T) \in T /\ \A y \in T : y <= Max(T)
<1> DEFINE B == {b \in Nat : \A y \in T : y <= b}
<1>1. B \in SUBSET Nat /\ n \in B
  OBVIOUS
<1>2. PICK b \in B : \A y \in B : b <= y
  <2> HIDE DEF B
  <2> QED BY <1>1, LeastNat
<1>3. b \in Nat /\ \A y \in T : y \in Nat /\ y <= b
  OBVIOUS
<1>4. b \in T
  <2> SUFFICES ASSUME b \notin T PROVE FALSE
    OBVIOUS
  <2>1. \A y \in T : y < b
    BY <1>3
  <2>2. PICK y \in T : TRUE
    OBVIOUS
  <2>3. b - 1 \in Nat /\ \A z \in T : z <= b - 1
    BY <1>3, <2>1, <2>2
  <2>4. b - 1 \in B
    BY <2>3
  <2> QED BY <1>2, <1>3, <2>4
<1>5. \E x \in T : \A y \in T : x >= y
  BY <1>3, <1>4
<1>6. Max(T) \in T /\ \A y \in T : Max(T) >= y
  BY <1>5 DEF Max
<1> QED BY <1>3, <1>6

\* A score bounded on a nonempty set is largest somewhere.
LEMMA BestExists ==
    ASSUME NEW S, S # {}, NEW n \in Nat, NEW f \in [S -> 0 .. n]
    PROVE  \E r \in S : \A q \in S : f[q] <= f[r]
<1> DEFINE T == {f[r] : r \in S}
<1>1. T \in SUBSET (0 .. n) /\ T # {}
  OBVIOUS
<1>2. Max(T) \in T /\ \A y \in T : y <= Max(T)
  <2> HIDE DEF T
  <2> QED BY <1>1, MaxIs
<1> QED BY <1>2

\* What a sequence holds, by position.
LEMMA SeqFacts ==
    ASSUME NEW S, NEW s \in Seq(S)
    PROVE  Len(s) \in Nat /\ DOMAIN s = 1 .. Len(s) /\ \A i \in 1 .. Len(s) : s[i] \in S
BY LenProperties, ElementOfSeq

\* A longer stretch of positions holds more of the kept ones.
LEMMA RankGrows ==
    ASSUME NEW m \in Nat, NEW keep \in SUBSET (1 .. m)
    PROVE  /\ IsFiniteSet(keep) /\ Cardinality(keep) \in Nat
           /\ \A i \in keep : Rank(keep, i) \in 1 .. Cardinality(keep)
           /\ \A i, j \in keep : i < j => Rank(keep, i) < Rank(keep, j)
<1> DEFINE B(i) == {j \in keep : j <= i}
<1>1. IsFiniteSet(keep)
  <2>1. IsFiniteSet(1 .. m)
    BY FS_Interval
  <2> QED BY <2>1, FS_Subset
<1>2. Cardinality(keep) \in Nat
  BY <1>1, FS_CardinalityType
<1>3. \A i \in keep : /\ IsFiniteSet(B(i)) /\ Cardinality(B(i)) \in Nat
                      /\ Cardinality(B(i)) <= Cardinality(keep)
  <2> SUFFICES ASSUME NEW i \in keep
               PROVE  /\ IsFiniteSet(B(i)) /\ Cardinality(B(i)) \in Nat
                      /\ Cardinality(B(i)) <= Cardinality(keep)
    OBVIOUS
  <2>1. B(i) \in SUBSET keep
    OBVIOUS
  <2> HIDE DEF B
  <2> QED BY <1>1, <2>1, FS_Subset, FS_CardinalityType
<1>4. \A i \in keep : Cardinality(B(i)) >= 1
  <2> SUFFICES ASSUME NEW i \in keep PROVE Cardinality(B(i)) >= 1
    OBVIOUS
  <2>1. i \in B(i)
    OBVIOUS
  <2> HIDE DEF B
  <2>2. Cardinality(B(i)) # 0
    BY <1>3, <2>1, FS_EmptySet
  <2> QED BY <1>3, <2>2
<1>5. \A i, j \in keep : i < j => Cardinality(B(i)) < Cardinality(B(j))
  <2> SUFFICES ASSUME NEW i \in keep, NEW j \in keep, i < j
               PROVE  Cardinality(B(i)) < Cardinality(B(j))
    OBVIOUS
  <2>1. B(i) \in SUBSET B(j) /\ j \in B(j) /\ j \notin B(i)
    <3>1. keep \subseteq Int /\ i \in Int /\ j \in Int
      OBVIOUS
    <3>2. \A x \in Int : x <= i => x <= j
      BY <3>1
    <3>3. j <= j /\ ~(j <= i)
      BY <3>1
    <3>4. \A x \in keep : x <= i => x <= j
      BY <3>1, <3>2
    <3>5. B(i) \in SUBSET B(j)
      BY <3>4
    <3>6. j \in B(j) /\ j \notin B(i)
      BY <3>3
    <3> QED BY <3>5, <3>6
  <2> HIDE DEF B
  <2>2. Cardinality(B(i)) <= Cardinality(B(j)) /\ Cardinality(B(j)) # Cardinality(B(i))
    BY <1>3, <2>1, FS_Subset
  <2> QED BY <1>3, <2>2
<1>6. \A i : Rank(keep, i) = Cardinality(B(i))
  BY DEF Rank
<1> HIDE DEF B
<1> QED BY <1>1, <1>2, <1>3, <1>4, <1>5, <1>6

\* retain leaves entries of the sequence.
LEMMA RetainType ==
    ASSUME NEW S, NEW table \in Seq(S), NEW keep \in SUBSET (DOMAIN table)
    PROVE  Retain(table, keep) \in Seq(S)
<1> DEFINE m == Len(table)
           c == Cardinality(keep)
           u(n) == CHOOSE i \in keep : Rank(keep, i) = n
           t == Retain(table, keep)
           f == [i \in keep |-> Rank(keep, i)]
<1>1. m \in Nat /\ DOMAIN table = 1 .. m /\ \A i \in 1 .. m : table[i] \in S
  BY SeqFacts
<1>2. keep \in SUBSET (1 .. m)
  BY <1>1
<1> HIDE DEF m
<1>3. /\ IsFiniteSet(keep) /\ c \in Nat
      /\ \A i \in keep : Rank(keep, i) \in 1 .. c
      /\ \A i, j \in keep : i < j => Rank(keep, i) < Rank(keep, j)
  BY <1>1, <1>2, RankGrows
<1>4. keep \subseteq Nat
  BY <1>1, <1>2
<1>5. f \in [keep -> 1 .. c] /\ DOMAIN f = keep /\ \A i \in keep : f[i] = Rank(keep, i)
  BY <1>3
<1> HIDE DEF f, c
<1>6. \A i, j \in keep : f[i] = f[j] => i = j
  BY <1>3, <1>4, <1>5
<1>7. f \in Injection(keep, 1 .. c)
  BY <1>5, <1>6 DEF Injection, IsInjective
<1>8. IsFiniteSet(1 .. c) /\ Cardinality(1 .. c) = c /\ Cardinality(keep) = c
  BY <1>3, FS_Interval DEF c
<1>9. f \in Surjection(keep, 1 .. c)
  BY <1>7, <1>8, FS_Injection
<1>10. \A n \in 1 .. c : \E i \in keep : Rank(keep, i) = n
  BY <1>5, <1>9 DEF Surjection
<1>11. \A n \in 1 .. c : u(n) \in keep /\ Rank(keep, u(n)) = n
  BY <1>10
<1>12. t = [n \in 1 .. c |-> table[u(n)]]
  BY DEF Retain, c
<1> HIDE DEF u, t
<1>13. t \in [1 .. c -> S]
  BY <1>1, <1>2, <1>11, <1>12
<1> QED BY <1>3, <1>13 DEF t

-----------------------------------------------------------------------------
(* Scores, and the choice of a router.                                     *)

\* The constants are numbers, and no router is numbered like no router.
LEMMA Numbers ==
    /\ Router \subseteq Nat /\ None \notin Router /\ None \in Hop /\ Router \subseteq Hop
    /\ Hop \subseteq Nat /\ IsFiniteSet(Router)
    /\ MaxLife \in Nat /\ Inf \in Nat /\ Inf \in Life /\ 0 \in Life /\ Life \subseteq Nat
    /\ TwoHours \in Nat /\ MaxEvents \in Nat /\ MaxProbes \in Nat /\ MaxProbes >= 1
    /\ MaxSolicits \in Nat /\ MaxSolicits >= 2
    /\ Reachable \in Nat /\ Delay \in Nat /\ Retrans \in Nat /\ Interval \in Nat /\ DadTime \in Nat
BY HostAssumption DEF None, Hop, Inf, Life

\* The fields of a host.
LEMMA Fields ==
    ASSUME NEW h \in HostState
    PROVE  /\ h.gateway \in Hop /\ h.static \in Hop /\ h.raRoute \in Hop /\ h.routers \in Lists
           /\ h.rio \in Rio /\ h.failed \in SUBSET Router /\ h.ndp \in Cache
           /\ h.parked \in SUBSET Hop /\ h.redirect \in Redirect /\ h.discovery \in Discovery
           /\ h.address \in AddressKind /\ h.dad \in Dad /\ h.duplicate \in BOOLEAN
           /\ h.slaac \in Slaac
BY DEF HostState

\* Advertised routes and neighbours, router by router.
LEMMA PerRouter ==
    ASSUME NEW h \in HostState, NEW r \in Router
    PROVE  /\ h.rio["inner"][r] \in Seq(Entry) /\ h.rio["default"][r] \in Seq(Entry)
           /\ h.ndp[r] \in Neighbour
<1>1. h.rio \in Rio /\ h.ndp \in Cache
  BY Fields
<1>2. "inner" \in Scope /\ "default" \in Scope
  BY DEF Scope
<1> QED BY <1>1, <1>2 DEF Rio, Cache

\* The first entry of what is advertised.
LEMMA HeadEntry ==
    ASSUME NEW s \in Seq(Entry), s # <<>>
    PROVE  Head(s) \in Entry /\ Head(s).until \in Life /\ Head(s).pref \in 0 .. 2
<1>1. Head(s) \in Entry
  OBVIOUS
<1> QED BY <1>1 DEF Entry

\* What a candidate default router offers.
LEMMA TermsType ==
    ASSUME NEW h \in HostState, NEW r \in Router, Candidate(h, r)
    PROVE  Terms(h, r).until \in Life /\ Terms(h, r).pref \in 0 .. 2
<1>1. CASE h.rio["default"][r] # <<>>
  <2>1. h.rio["default"][r] \in Seq(Entry)
    BY PerRouter
  <2>2. Terms(h, r) = Head(h.rio["default"][r])
    BY <1>1 DEF Terms
  <2> QED BY <1>1, <2>1, <2>2, HeadEntry
<1>2. CASE ~(h.rio["default"][r] # <<>>)
  <2> DEFINE L == Listed(h, r)
             m == Len(h.routers)
  <2>1. h.routers \in Seq(RouterEntry)
    BY Fields DEF Lists
  <2>2. m \in Nat /\ DOMAIN h.routers = 1 .. m /\ \A i \in 1 .. m : h.routers[i] \in RouterEntry
    BY <2>1, SeqFacts
  <2> HIDE DEF m
  <2>3. L \in SUBSET (1 .. m) /\ L # {}
    BY <1>2, <2>2 DEF Candidate, Listed
  <2>4. L \in SUBSET (0 .. m)
    BY <2>2, <2>3
  <2> HIDE DEF L
  <2>5. Max(L) \in L
    BY <2>2, <2>3, <2>4, MaxIs
  <2>6. h.routers[Max(L)] \in RouterEntry
    BY <2>2, <2>3, <2>5
  <2>7. Terms(h, r) = h.routers[Max(L)]
    BY <1>2 DEF Terms, L
  <2> QED BY <2>6, <2>7 DEF RouterEntry
<1> QED BY <1>1, <1>2

\* Scores are small numbers, and order first by reachability.
LEMMA ScoreFacts ==
    ASSUME NEW h, NEW r, NEW q, NEW p \in 0 .. 2, NEW o \in 0 .. 2
    PROVE  /\ Score(h, r, p) \in 0 .. 8 /\ ReachabilityRank(h, r) \in 0 .. 2
           /\ Score(h, q, o) <= Score(h, r, p) =>
                 ~(\/ ReachabilityRank(h, q) > ReachabilityRank(h, r)
                   \/ ReachabilityRank(h, q) = ReachabilityRank(h, r) /\ o > p)
<1>1. \A x : ReachabilityRank(h, x) \in {0, 1, 2}
  BY DEF ReachabilityRank
<1>2. /\ Score(h, r, p) = 3 * ReachabilityRank(h, r) + p
      /\ Score(h, q, o) = 3 * ReachabilityRank(h, q) + o
  BY DEF Score
<1> DEFINE a == ReachabilityRank(h, r)
           b == ReachabilityRank(h, q)
<1>3. a \in {0, 1, 2} /\ b \in {0, 1, 2}
  BY <1>1
<1> HIDE DEF a, b
<1>4. /\ 3 * a + p \in 0 .. 8 /\ a \in 0 .. 2
      /\ 3 * b + o <= 3 * a + p => ~(b > a \/ (b = a /\ o > p))
  BY <1>3
<1> QED BY <1>2, <1>4 DEF a, b

-----------------------------------------------------------------------------
(* Routes of RFC 4191.                                                     *)

InnerPref(h, r) == Head(h.rio["inner"][r]).pref
InnerScore(h, r) == Score(h, r, InnerPref(h, r))

\* The inner route leads to the best router that may be chosen.
InnerBest(h) ==
    /\ h.raRoute = None => Inner(h) = {}
    /\ h.raRoute # None => /\ h.raRoute \in Allowed(h)
                           /\ \A q \in Allowed(h) : InnerScore(h, q) <= InnerScore(h, h.raRoute)

\* The inner route leads to a router that may be chosen.
InnerOk(h) ==
    /\ h.raRoute = None <=> Inner(h) = {}
    /\ h.raRoute # None => h.raRoute \in Inner(h)
    /\ h.raRoute \in h.failed => Inner(h) \subseteq h.failed

\* The router of the inner route is on the list.
InnerNamed(h) == h.raRoute # None => h.rio["inner"][h.raRoute] # <<>>

\* What is chosen from is advertised, and empty only with the list.
LEMMA AllowedFacts ==
    ASSUME NEW h
    PROVE  /\ Inner(h) \subseteq Router /\ Allowed(h) \subseteq Inner(h)
           /\ Allowed(h) = {} <=> Inner(h) = {}
           /\ Inner(h) \ h.failed \subseteq Allowed(h)
           /\ \A r \in Allowed(h) : r \in h.failed => Inner(h) \subseteq h.failed
<1> HIDE DEF Inner
<1>1. Inner(h) \subseteq Router
  BY DEF Inner
<1>2. CASE Inner(h) \subseteq h.failed
  <2>1. Allowed(h) = Inner(h)
    BY <1>2 DEF Allowed
  <2> QED BY <1>1, <1>2, <2>1
<1>3. CASE ~(Inner(h) \subseteq h.failed)
  <2>1. Allowed(h) = Inner(h) \ h.failed
    BY <1>3 DEF Allowed
  <2> QED BY <1>1, <1>3, <2>1
<1> QED BY <1>2, <1>3

\* The best router may be chosen, and is on the list.
LEMMA BestIsOk ==
    ASSUME NEW h \in HostState, InnerBest(h)
    PROVE  InnerOk(h) /\ InnerNamed(h)
<1>1. /\ h.raRoute = None => Inner(h) = {}
      /\ h.raRoute # None => h.raRoute \in Allowed(h)
  BY DEF InnerBest
<1>2. h.raRoute \in h.failed => h.raRoute # None
  <2>1. h.failed \subseteq Router
    BY Fields
  <2> QED BY <2>1, Numbers
<1>3. \A r \in Inner(h) : h.rio["inner"][r] # <<>>
  BY DEF Inner
<1> QED BY <1>1, <1>2, <1>3, AllowedFacts DEF InnerOk, InnerNamed

\* An advertising router's score.
LEMMA InnerScoreType ==
    ASSUME NEW h \in HostState, NEW r \in Inner(h)
    PROVE  InnerPref(h, r) \in 0 .. 2 /\ InnerScore(h, r) \in 0 .. 8
<1>1. r \in Router /\ h.rio["inner"][r] # <<>>
  BY DEF Inner
<1>2. h.rio["inner"][r] \in Seq(Entry)
  BY <1>1, PerRouter
<1>3. InnerPref(h, r) \in 0 .. 2
  BY <1>1, <1>2, HeadEntry DEF InnerPref
<1> QED BY <1>3, ScoreFacts DEF InnerScore

\* What the choice depends on.
LEMMA InnerSame ==
    ASSUME NEW h, NEW k, k.rio["inner"] = h.rio["inner"]
    PROVE  /\ Inner(k) = Inner(h) /\ \A r : InnerPref(k, r) = InnerPref(h, r)
           /\ k.failed = h.failed => Allowed(k) = Allowed(h)
           /\ k.failed = h.failed /\ k.raRoute = h.raRoute => (InnerOk(h) <=> InnerOk(k))
           /\ k.raRoute = h.raRoute => (InnerNamed(h) <=> InnerNamed(k))
           /\ k.ndp = h.ndp => \A r : InnerScore(k, r) = InnerScore(h, r)
<1>1. Inner(k) = Inner(h)
  BY DEF Inner
<1>2. \A r : InnerPref(k, r) = InnerPref(h, r)
  BY DEF InnerPref
<1>3. k.failed = h.failed => Allowed(k) = Allowed(h)
  BY <1>1 DEF Allowed
<1>4. k.failed = h.failed /\ k.raRoute = h.raRoute => (InnerOk(h) <=> InnerOk(k))
  BY <1>1 DEF InnerOk
<1>5. k.raRoute = h.raRoute => (InnerNamed(h) <=> InnerNamed(k))
  BY DEF InnerNamed
<1>6. k.ndp = h.ndp => \A r : InnerScore(k, r) = InnerScore(h, r)
  BY <1>2 DEF InnerScore, Score, ReachabilityRank
<1> QED BY <1>1, <1>2, <1>3, <1>4, <1>5, <1>6

\* The best router stays the best while nothing the choice depends on changes.
LEMMA BestSame ==
    ASSUME NEW h, NEW k, k.rio["inner"] = h.rio["inner"], k.failed = h.failed,
           k.ndp = h.ndp, k.raRoute = h.raRoute, InnerBest(h)
    PROVE  InnerBest(k)
<1>1. /\ Inner(k) = Inner(h) /\ Allowed(k) = Allowed(h)
      /\ \A r : InnerScore(k, r) = InnerScore(h, r)
  BY InnerSame
<1> HIDE DEF InnerScore, Inner, Allowed
<1> QED BY <1>1 DEF InnerBest

\* select_ipv6_ra_route sets the inner route, to the best router there is.
LEMMA SelectInnerFacts ==
    ASSUME NEW h \in HostState
    PROVE  LET k == SelectInner(h)
           IN  k \in HostState /\ k = [h EXCEPT !.raRoute = k.raRoute] /\ InnerBest(k)
<1> DEFINE k == SelectInner(h)
           best == {r \in Allowed(h) : \A q \in Allowed(h) : InnerScore(h, q) <= InnerScore(h, r)}
           x == IF best = {} THEN None ELSE IF h.raRoute \in best THEN h.raRoute ELSE Min(best)
<1>1. k = [h EXCEPT !.raRoute = x]
  BY DEF SelectInner, InnerScore, InnerPref
<1>2. best = {} => Inner(h) = {}
  <2> SUFFICES ASSUME Inner(h) # {} PROVE best # {}
    OBVIOUS
  <2>1. Allowed(h) # {} /\ Allowed(h) \subseteq Inner(h)
    BY AllowedFacts
  <2> DEFINE f == [r \in Allowed(h) |-> InnerScore(h, r)]
  <2>2. \A r \in Allowed(h) : InnerScore(h, r) \in 0 .. 8
    BY <2>1, InnerScoreType
  <2>3. f \in [Allowed(h) -> 0 .. 8] /\ \A r \in Allowed(h) : f[r] = InnerScore(h, r)
    BY <2>2
  <2> HIDE DEF f
  <2>4. \E r \in Allowed(h) : \A q \in Allowed(h) : f[q] <= f[r]
    BY <2>1, <2>3, BestExists
  <2> QED BY <2>3, <2>4
<1>3. best \subseteq Allowed(h) /\ best \subseteq Router /\ best \subseteq Nat
  BY AllowedFacts, Numbers
<1>4. \A r \in best : \A q \in Allowed(h) : InnerScore(h, q) <= InnerScore(h, r)
  OBVIOUS
<1> HIDE DEF best
<1>5. best # {} => x \in best
  BY <1>3, MinIs
<1>6. x \in Hop
  BY <1>3, <1>5, Numbers
<1>7. best = {} => x = None
  OBVIOUS
<1> HIDE DEF x
<1>8. k \in HostState
  BY <1>1, <1>6 DEF HostState
<1>9. /\ k.rio = h.rio /\ k.failed = h.failed /\ k.ndp = h.ndp /\ k.raRoute = x
  BY <1>1 DEF HostState
<1>10. /\ Inner(k) = Inner(h) /\ Allowed(k) = Allowed(h)
       /\ \A r : InnerScore(k, r) = InnerScore(h, r)
  BY <1>9, InnerSame
<1>11. InnerBest(k)
  <2>1. None \notin best
    BY <1>3, Numbers
  <2>2. CASE best = {}
    BY <1>2, <1>7, <1>9, <1>10, <2>2 DEF InnerBest
  <2>3. CASE best # {}
    <3>1. x \in best /\ x # None /\ x \in Allowed(h)
      BY <1>3, <1>5, <2>1, <2>3
    <3>2. \A q \in Allowed(h) : InnerScore(h, q) <= InnerScore(h, x)
      BY <1>4, <3>1
    <3>3. \A q \in Allowed(h) : InnerScore(k, q) <= InnerScore(k, x)
      BY <1>10, <3>2
    <3> HIDE DEF k
    <3> QED BY <1>9, <1>10, <3>1, <3>3 DEF InnerBest
  <2> QED BY <2>2, <2>3
<1> HIDE DEF k
<1>12. k = [h EXCEPT !.raRoute = k.raRoute]
  BY <1>1, <1>9
<1> QED BY <1>8, <1>11, <1>12 DEF k

\* reselect_ipv6_ra_routes leaves the best router in use.
LEMMA ReselectFacts ==
    ASSUME NEW h \in HostState, InnerNamed(h)
    PROVE  LET k == Reselect(h)
           IN  k \in HostState /\ k = [h EXCEPT !.raRoute = k.raRoute] /\ InnerBest(k)
<1>1. CASE \E r \in Router : h.rio["inner"][r] # <<>>
  BY <1>1, SelectInnerFacts DEF Reselect
<1>2. CASE ~ \E r \in Router : h.rio["inner"][r] # <<>>
  <2>1. Reselect(h) = h
    BY <1>2 DEF Reselect
  <2>2. h.raRoute \in Hop
    BY Fields
  <2>3. h.raRoute = None
    BY <1>2, <2>2 DEF InnerNamed, Hop
  <2>4. Inner(h) = {}
    BY <1>2 DEF Inner
  <2>5. InnerBest(h)
    BY <2>3, <2>4 DEF InnerBest
  <2>6. h = [h EXCEPT !.raRoute = h.raRoute]
    BY DEF HostState
  <2> QED BY <2>1, <2>5, <2>6
<1> QED BY <1>1, <1>2

-----------------------------------------------------------------------------
(* Default routers.                                                        *)

\* An order of the routers has all of them.
LEMMA OrderCovers ==
    ASSUME NEW order \in Orders
    PROVE  /\ order \in Seq(Router)
           /\ \A r \in Router : \E i \in 1 .. Len(order) : order[i] = r
<1> DEFINE n == Cardinality(Router)
<1>1. n \in Nat /\ IsFiniteSet(Router)
  BY Numbers, FS_CardinalityType
<1>2. order \in [1 .. n -> Router] /\ \A i, j \in 1 .. n : i # j => order[i] # order[j]
  BY DEF Orders, SetToSeqs
<1>3. IsFiniteSet(1 .. n) /\ Cardinality(1 .. n) = n /\ Cardinality(Router) = n
  BY <1>1, FS_Interval
<1> HIDE DEF n
<1>4. order \in Injection(1 .. n, Router)
  BY <1>2 DEF Injection, IsInjective
<1>5. order \in Surjection(1 .. n, Router)
  BY <1>1, <1>3, <1>4, FS_Injection
<1>6. \A r \in Router : \E i \in 1 .. n : order[i] = r
  BY <1>5 DEF Surjection
<1>7. order \in Seq(Router) /\ Len(order) = n
  BY <1>1, <1>2
<1> QED BY <1>6, <1>7

GatewayScore(h, r) == Score(h, r, Terms(h, r).pref)

\* The gateway is the best default router there is.
GatewayBest(h) ==
    /\ h.gateway = None <=> Usable(h) = {}
    /\ h.gateway # None => /\ h.gateway \in Usable(h)
                           /\ \A q \in Usable(h) : GatewayScore(h, q) <= GatewayScore(h, h.gateway)

\* What the choice of a default router leaves alone.
KeepsRest(h, k) ==
    /\ k.raRoute = h.raRoute /\ k.failed = h.failed
    /\ k.ndp = h.ndp /\ k.parked = h.parked /\ k.discovery = h.discovery
    /\ k.address = h.address /\ k.duplicate = h.duplicate /\ k.slaac = h.slaac
    /\ k.dad.on = h.dad.on /\ k.dad.due = h.dad.due /\ k.dad.valid = h.dad.valid

\* What the choice of a default router depends on.
LEMMA GatewaySame ==
    ASSUME NEW h, NEW k, k.routers = h.routers, k.rio["default"] = h.rio["default"]
    PROVE  /\ \A r : Candidate(k, r) = Candidate(h, r) /\ Terms(k, r) = Terms(h, r)
           /\ Usable(k) = Usable(h)
           /\ k.ndp = h.ndp => \A r : GatewayScore(k, r) = GatewayScore(h, r)
<1>1. \A r : Listed(k, r) = Listed(h, r)
  BY DEF Listed
<1>2. \A r : Candidate(k, r) = Candidate(h, r)
  BY <1>1 DEF Candidate
<1>3. \A r : Terms(k, r) = Terms(h, r)
  BY <1>1 DEF Terms
<1>4. Usable(k) = Usable(h)
  BY <1>2, <1>3 DEF Usable
<1>5. k.ndp = h.ndp => \A r : GatewayScore(k, r) = GatewayScore(h, r)
  BY <1>3 DEF GatewayScore, Score, ReachabilityRank
<1> QED BY <1>2, <1>3, <1>4, <1>5

\* A usable router's score.
LEMMA GatewayScoreType ==
    ASSUME NEW h \in HostState, NEW r \in Usable(h)
    PROVE  r \in Router /\ Terms(h, r).pref \in 0 .. 2 /\ GatewayScore(h, r) \in 0 .. 8
<1>1. r \in Router /\ Candidate(h, r)
  BY DEF Usable
<1>2. Terms(h, r).pref \in 0 .. 2
  BY <1>1, TermsType
<1> QED BY <1>1, <1>2, ScoreFacts DEF GatewayScore

\* The router select_ipv6_default_router settles on.
LEMMA ChosenFacts ==
    ASSUME NEW h \in HostState, NEW order \in Orders
    PROVE  LET best == {r \in Usable(h) : \A q \in Usable(h) : GatewayScore(h, q) <= GatewayScore(h, r)}
               sequence == [i \in DOMAIN h.routers |-> h.routers[i].router] \o order
               chosen == IF best = {} THEN None
                         ELSE IF h.gateway \in best THEN h.gateway
                         ELSE sequence[Min({i \in DOMAIN sequence : sequence[i] \in best})]
           IN  /\ chosen = None <=> Usable(h) = {}
               /\ chosen # None => chosen \in best
               /\ best \subseteq Router
<1> DEFINE best == {r \in Usable(h) : \A q \in Usable(h) : GatewayScore(h, q) <= GatewayScore(h, r)}
           listed == [i \in DOMAIN h.routers |-> h.routers[i].router]
           sequence == listed \o order
           places == {i \in DOMAIN sequence : sequence[i] \in best}
           chosen == IF best = {} THEN None
                     ELSE IF h.gateway \in best THEN h.gateway
                     ELSE sequence[Min(places)]
<1>1. best = {} <=> Usable(h) = {}
  <2>1. ASSUME Usable(h) # {} PROVE best # {}
    <3> DEFINE f == [r \in Usable(h) |-> GatewayScore(h, r)]
    <3>2. \A r \in Usable(h) : GatewayScore(h, r) \in 0 .. 8
      BY GatewayScoreType
    <3>3. f \in [Usable(h) -> 0 .. 8] /\ \A r \in Usable(h) : f[r] = GatewayScore(h, r)
      BY <3>2
    <3> HIDE DEF f
    <3>4. \E r \in Usable(h) : \A q \in Usable(h) : f[q] <= f[r]
      BY <2>1, <3>3, BestExists
    <3> QED BY <3>3, <3>4
  <2> QED BY <2>1
<1>2. best \subseteq Router
  BY DEF Usable
<1> HIDE DEF best
<1>3. listed \in Seq(Router)
  <2>1. h.routers \in Seq(RouterEntry)
    BY Fields DEF Lists
  <2>2. /\ Len(h.routers) \in Nat /\ DOMAIN h.routers = 1 .. Len(h.routers)
        /\ \A i \in 1 .. Len(h.routers) : h.routers[i] \in RouterEntry
    BY <2>1, SeqFacts
  <2>3. \A i \in 1 .. Len(h.routers) : h.routers[i].router \in Router
    BY <2>2 DEF RouterEntry
  <2> QED BY <2>2, <2>3
<1>4. order \in Seq(Router) /\ \A r \in Router : \E i \in 1 .. Len(order) : order[i] = r
  BY OrderCovers
<1> HIDE DEF listed
<1>5. /\ Len(listed) \in Nat /\ Len(order) \in Nat
      /\ DOMAIN sequence = 1 .. Len(listed) + Len(order)
      /\ \A i \in 1 .. Len(order) : sequence[Len(listed) + i] = order[i]
  BY <1>3, <1>4
<1> HIDE DEF sequence
<1>6. places \subseteq Nat /\ \A i \in places : sequence[i] \in best
  BY <1>5
<1>7. best # {} => places # {}
  <2> SUFFICES ASSUME best # {} PROVE places # {}
    OBVIOUS
  <2>1. PICK r \in best : TRUE
    OBVIOUS
  <2>2. PICK i \in 1 .. Len(order) : order[i] = r
    BY <1>2, <1>4, <2>1
  <2>3. Len(listed) + i \in DOMAIN sequence /\ sequence[Len(listed) + i] = r
    BY <1>5, <2>2
  <2> QED BY <2>1, <2>3
<1> HIDE DEF places
<1>8. best # {} => chosen \in best
  BY <1>6, <1>7, MinIs
<1>9. best = {} => chosen = None
  OBVIOUS
<1> HIDE DEF chosen
<1>10. None \notin best
  BY <1>2, Numbers
<1>11. (chosen = None <=> Usable(h) = {}) /\ (chosen # None => chosen \in best)
  BY <1>1, <1>8, <1>9, <1>10
<1> QED BY <1>2, <1>11 DEF best, listed, sequence, places, chosen

\* set_ipv6_default_gateway keeps the table in step with the gateway.
LEMMA SetGatewayFacts ==
    ASSUME NEW h \in HostState, NEW g \in Hop
    PROVE  LET k == SetGateway(h, g)
           IN  /\ k \in HostState /\ KeepsRest(h, k) /\ k.routers = h.routers /\ k.rio = h.rio
               /\ k.dad = h.dad /\ k.gateway = g
               /\ h.static = h.gateway => k.static = k.gateway
<1> DEFINE k == SetGateway(h, g)
           red == IF g # h.gateway THEN NoRedirect ELSE h.redirect
           st == IF g # None \/ h.gateway # None THEN g ELSE h.static
<1>1. k = [h EXCEPT !.gateway = g, !.redirect = red, !.static = st]
  BY DEF SetGateway
<1>2. red \in Redirect
  BY Fields, Numbers DEF NoRedirect, Redirect
<1>3. st \in Hop
  BY Fields
<1>4. h.static = h.gateway => st = g
  OBVIOUS
<1> HIDE DEF red, st, k
<1>5. k \in HostState
  BY <1>1, <1>2, <1>3 DEF HostState
<1>6. KeepsRest(h, k) /\ k.routers = h.routers /\ k.rio = h.rio /\ k.dad = h.dad /\ k.gateway = g
      /\ k.static = st
  BY <1>1 DEF HostState, KeepsRest
<1> QED BY <1>4, <1>5, <1>6 DEF k

\* select_ipv6_default_router leaves the best default router in use.
LEMMA SelectDefaultFacts ==
    ASSUME NEW h \in HostState, NEW order \in Orders
    PROVE  LET k == SelectDefault(h, order)
           IN  /\ k \in HostState /\ KeepsRest(h, k) /\ k.routers = h.routers /\ k.rio = h.rio
               /\ h.static = h.gateway => k.static = k.gateway
               /\ GatewayBest(k)
<1> DEFINE k == SelectDefault(h, order)
           best == {r \in Usable(h) : \A q \in Usable(h) : GatewayScore(h, q) <= GatewayScore(h, r)}
           sequence == [i \in DOMAIN h.routers |-> h.routers[i].router] \o order
           chosen == IF best = {} THEN None
                     ELSE IF h.gateway \in best THEN h.gateway
                     ELSE sequence[Min({i \in DOMAIN sequence : sequence[i] \in best})]
           set == IF chosen = h.gateway THEN h ELSE SetGateway(h, chosen)
           until == IF chosen = None THEN None ELSE Terms(h, chosen).until
           rest == IF until = Inf THEN None ELSE until
<1>1. k = IF ~h.dad.on THEN set
          ELSE [set EXCEPT !.dad.gateway = chosen, !.dad.until = rest]
  BY DEF SelectDefault, GatewayScore
<1>2. (chosen = None <=> Usable(h) = {}) /\ (chosen # None => chosen \in best) /\ best \subseteq Router
  BY ChosenFacts
<1>3. \A r \in best : r \in Usable(h) /\ \A q \in Usable(h) : GatewayScore(h, q) <= GatewayScore(h, r)
  OBVIOUS
<1> HIDE DEF best, chosen, sequence
<1>4. chosen \in Hop
  BY <1>2, Numbers
<1>5. rest \in Life
  <2>1. chosen # None => Terms(h, chosen).until \in Life
    BY <1>2, <1>3, TermsType DEF Usable
  <2>2. None \in Life
    BY Numbers DEF None
  <2> QED BY <2>1, <2>2
<1> HIDE DEF until, rest
<1>6. /\ set \in HostState /\ KeepsRest(h, set) /\ set.routers = h.routers /\ set.rio = h.rio
      /\ set.dad = h.dad /\ set.gateway = chosen
      /\ h.static = h.gateway => set.static = set.gateway
  <2>1. CASE chosen = h.gateway
    BY <2>1 DEF KeepsRest
  <2>2. CASE chosen # h.gateway
    BY <1>4, <2>2, SetGatewayFacts
  <2> QED BY <2>1, <2>2
<1> HIDE DEF set, k
<1>7. /\ k \in HostState /\ KeepsRest(h, k) /\ k.routers = h.routers /\ k.rio = h.rio
      /\ k.gateway = chosen /\ k.static = set.static /\ k.ndp = h.ndp
  <2>1. CASE ~h.dad.on
    BY <1>1, <1>6, <2>1 DEF KeepsRest
  <2>2. CASE h.dad.on
    <3> DEFINE d == [set.dad EXCEPT !.gateway = chosen, !.until = rest]
    <3>1. k = [set EXCEPT !.dad = d]
      BY <1>1, <1>6, <2>2 DEF HostState
    <3>2. set.dad \in Dad
      BY <1>6, Fields
    <3>3. d \in Dad /\ d.on = set.dad.on /\ d.due = set.dad.due /\ d.valid = set.dad.valid
      BY <1>4, <1>5, <3>2 DEF Dad
    <3> HIDE DEF d
    <3>4. k \in HostState
      BY <1>6, <3>1, <3>3 DEF HostState
    <3>5. KeepsRest(set, k) /\ k.routers = set.routers /\ k.rio = set.rio
          /\ k.gateway = set.gateway /\ k.static = set.static
      BY <1>6, <3>1, <3>3 DEF HostState, KeepsRest
    <3> QED BY <1>6, <3>4, <3>5 DEF KeepsRest
  <2> QED BY <2>1, <2>2
<1>8. GatewayBest(k)
  <2>1. Usable(k) = Usable(h) /\ \A r : GatewayScore(k, r) = GatewayScore(h, r)
    BY <1>7, GatewaySame
  <2>2. CASE chosen = None
    BY <1>2, <1>7, <2>1, <2>2 DEF GatewayBest
  <2>3. CASE chosen # None
    <3>1. chosen \in Usable(h) /\ \A q \in Usable(h) : GatewayScore(h, q) <= GatewayScore(h, chosen)
      BY <1>2, <1>3, <2>3
    <3>2. \A q \in Usable(h) : GatewayScore(k, q) <= GatewayScore(k, chosen)
      BY <2>1, <3>1
    <3> QED BY <1>7, <2>1, <2>3, <3>1, <3>2 DEF GatewayBest
  <2> QED BY <2>2, <2>3
<1> QED BY <1>6, <1>7, <1>8 DEF k

-----------------------------------------------------------------------------
(* What every operation keeps.                                             *)

\* The routing table matches the lists, an address with lifetimes is in use, and
\* one that is probed is not.
Sound(h) ==
    /\ h \in HostState
    /\ h.static = h.gateway
    /\ InnerOk(h)
    /\ h.slaac.on => h.address = "auto"
    /\ h.dad.on => h.address # "auto"

\* The address, its probing and its lifetimes stay as they are.
SameAddress(h, k) ==
    k.address = h.address /\ k.slaac = h.slaac /\ k.dad.on = h.dad.on /\ k.dad.valid = h.dad.valid

\* A router of a sound host's inner route is on the list.
LEMMA SoundNamed ==
    ASSUME NEW h, Sound(h)
    PROVE  h \in HostState /\ InnerNamed(h)
<1>1. h \in HostState /\ InnerOk(h)
  BY DEF Sound
<1>2. \A r \in Inner(h) : h.rio["inner"][r] # <<>>
  BY DEF Inner
<1> QED BY <1>1, <1>2 DEF InnerOk, InnerNamed

\* A change that keeps the inner route and the address keeps a host sound.
LEMMA SoundKept ==
    ASSUME NEW h, Sound(h), NEW k \in HostState, k.static = k.gateway, SameAddress(h, k),
           k.raRoute = h.raRoute, k.failed = h.failed, k.rio["inner"] = h.rio["inner"]
    PROVE  Sound(k)
<1>1. InnerOk(k)
  BY InnerSame DEF Sound
<1> QED BY <1>1 DEF Sound, SameAddress

\* So does a new choice of the inner route.
LEMMA SoundChosen ==
    ASSUME NEW h \in HostState, h.static = h.gateway, h.slaac.on => h.address = "auto",
           h.dad.on => h.address # "auto",
           NEW k \in HostState, k = [h EXCEPT !.raRoute = k.raRoute], InnerBest(k)
    PROVE  Sound(k) /\ SameAddress(h, k)
<1>1. /\ k.static = h.static /\ k.gateway = h.gateway /\ k.slaac = h.slaac
      /\ k.address = h.address /\ k.dad = h.dad
  BY DEF HostState
<1>2. InnerOk(k)
  BY BestIsOk
<1> QED BY <1>1, <1>2 DEF Sound, SameAddress

\* select_ipv6_default_router keeps a host sound.
LEMMA SelectDefaultSound ==
    ASSUME NEW h, Sound(h), NEW order \in Orders
    PROVE  LET k == SelectDefault(h, order)
           IN  Sound(k) /\ SameAddress(h, k) /\ k.discovery = h.discovery
<1> DEFINE k == SelectDefault(h, order)
<1>1. h \in HostState /\ h.static = h.gateway
  BY DEF Sound
<1>2. k \in HostState /\ KeepsRest(h, k) /\ k.rio = h.rio /\ k.static = k.gateway
  BY <1>1, SelectDefaultFacts
<1> HIDE DEF k
<1>3. SameAddress(h, k) /\ k.raRoute = h.raRoute /\ k.failed = h.failed /\ k.discovery = h.discovery
  BY <1>2 DEF KeepsRest, SameAddress
<1>4. Sound(k)
  BY <1>2, <1>3, SoundKept
<1> QED BY <1>3, <1>4 DEF k

\* So does a new list of default routers.
LEMMA ListSound ==
    ASSUME NEW h, Sound(h), NEW x \in Lists
    PROVE  LET k == [h EXCEPT !.routers = x] IN Sound(k) /\ SameAddress(h, k)
<1> DEFINE k == [h EXCEPT !.routers = x]
<1>1. h \in HostState /\ h.static = h.gateway
  BY DEF Sound
<1>2. k \in HostState
  BY <1>1 DEF HostState
<1>3. /\ k.static = h.static /\ k.gateway = h.gateway /\ k.rio = h.rio /\ k.raRoute = h.raRoute
      /\ k.failed = h.failed /\ k.slaac = h.slaac /\ k.address = h.address /\ k.dad = h.dad
  BY <1>1 DEF HostState
<1> HIDE DEF k
<1>4. SameAddress(h, k)
  BY <1>3 DEF SameAddress
<1>5. Sound(k)
  BY <1>1, <1>2, <1>3, <1>4, SoundKept
<1> QED BY <1>4, <1>5 DEF k

\* The list without a router is a list.
LEMMA UnlistedIs ==
    ASSUME NEW h \in HostState, NEW r
    PROVE  \E x \in Lists : Unlisted(h, r) = [h EXCEPT !.routers = x]
<1> DEFINE keep == DOMAIN h.routers \ Listed(h, r)
<1>1. h.routers \in Seq(RouterEntry)
  BY Fields DEF Lists
<1>2. keep \in SUBSET (DOMAIN h.routers)
  OBVIOUS
<1> HIDE DEF keep
<1>3. Retain(h.routers, keep) \in Lists
  BY <1>1, <1>2, RetainType DEF Lists
<1>4. Unlisted(h, r) = [h EXCEPT !.routers = Retain(h.routers, keep)]
  BY DEF Unlisted, keep
<1> QED BY <1>3, <1>4

\* refresh_slaac_default_router
LEMMA RefreshDefaultSound ==
    ASSUME NEW h, Sound(h), NEW r \in Router, NEW lifetime \in 0 .. MaxLife, NEW pref \in 0 .. 2,
           NEW order \in Orders
    PROVE  LET k == RefreshDefault(h, r, lifetime, pref, order)
           IN  Sound(k) /\ SameAddress(h, k)
<1> DEFINE e == [router |-> r, until |-> lifetime, pref |-> pref]
           k == RefreshDefault(h, r, lifetime, pref, order)
<1>1. h \in HostState /\ h.routers \in Seq(RouterEntry)
  BY Fields DEF Sound, Lists
<1>2. e \in RouterEntry
  <2>1. lifetime \in Life
    BY Numbers DEF Life, Inf
  <2> QED BY <2>1 DEF RouterEntry
<1> HIDE DEF e
<1>3. \E x \in Lists : k = SelectDefault([h EXCEPT !.routers = x], order)
  <2>1. CASE lifetime = 0
    <3>1. k = SelectDefault(Unlisted(h, r), order)
      BY <2>1 DEF RefreshDefault
    <3> QED BY <1>1, <3>1, UnlistedIs
  <2>2. CASE lifetime > 0 /\ Listed(h, r) # {}
    <3> DEFINE m == Max(Listed(h, r))
               x == [h.routers EXCEPT ![m] = e]
    <3>1. k = SelectDefault([h EXCEPT !.routers[m] = e], order)
      <4>1. lifetime # 0
        BY <2>2
      <4> QED BY <2>2, <4>1 DEF RefreshDefault, e
    <3> HIDE DEF m
    <3>2. [h EXCEPT !.routers[m] = e] = [h EXCEPT !.routers = x]
      OBVIOUS
    <3>3. x \in Lists
      <4>1. Len(h.routers) \in Nat /\ h.routers \in [1 .. Len(h.routers) -> RouterEntry]
        BY <1>1, SeqFacts
      <4>2. x \in [1 .. Len(h.routers) -> RouterEntry]
        BY <1>2, <4>1
      <4> QED BY <4>1, <4>2 DEF Lists
    <3> HIDE DEF x
    <3> QED BY <3>1, <3>2, <3>3
  <2>3. CASE ~(lifetime = 0) /\ ~(lifetime > 0 /\ Listed(h, r) # {})
    <3> DEFINE x == Append(h.routers, e)
    <3>1. k = SelectDefault([h EXCEPT !.routers = x], order)
      BY <2>3 DEF RefreshDefault, e
    <3>2. x \in Lists
      BY <1>1, <1>2 DEF Lists
    <3> HIDE DEF x
    <3> QED BY <3>1, <3>2
  <2> QED BY <2>1, <2>2, <2>3
<1> HIDE DEF k
<1>4. PICK x \in Lists : k = SelectDefault([h EXCEPT !.routers = x], order)
  BY <1>3
<1> DEFINE n == [h EXCEPT !.routers = x]
<1>5. Sound(n) /\ SameAddress(h, n) /\ k = SelectDefault(n, order)
  BY <1>4, ListSound
<1> HIDE DEF n
<1>6. Sound(k) /\ SameAddress(n, k)
  BY <1>5, SelectDefaultSound
<1> QED BY <1>5, <1>6 DEF k, SameAddress

\* A new value of the advertised routes of one scope.
LEMMA RioWith ==
    ASSUME NEW h \in HostState, NEW scope \in Scope, NEW r \in Router, NEW x \in Seq(Entry),
           NEW k, k = [h EXCEPT !.rio[scope][r] = x]
    PROVE  /\ k \in HostState /\ KeepsRest(h, k) /\ k.dad = h.dad /\ k.routers = h.routers
           /\ k.gateway = h.gateway /\ k.static = h.static
           /\ scope = "default" => k.rio["inner"] = h.rio["inner"]
<1> DEFINE f == [h.rio EXCEPT ![scope] = [h.rio[scope] EXCEPT ![r] = x]]
<1>1. h.rio \in Rio
  BY Fields
<1>2. f \in Rio
  BY <1>1 DEF Rio
<1>3. scope = "default" => f["inner"] = h.rio["inner"]
  BY <1>1 DEF Rio, Scope
<1>4. k = [h EXCEPT !.rio = f]
  OBVIOUS
<1> HIDE DEF f
<1>5. k \in HostState
  BY <1>2, <1>4 DEF HostState
<1>6. /\ KeepsRest(h, k) /\ k.dad = h.dad /\ k.routers = h.routers
      /\ k.gateway = h.gateway /\ k.static = h.static /\ k.rio = f
  BY <1>4 DEF HostState, KeepsRest
<1> QED BY <1>3, <1>5, <1>6

\* refresh_ipv6_ra_route
LEMMA RefreshRouteSound ==
    ASSUME NEW h, Sound(h), NEW r \in Router, NEW scope \in Scope, NEW option \in Seq(Entry),
           NEW order \in Orders
    PROVE  LET k == RefreshRoute(h, r, scope, option, order)
           IN  Sound(k) /\ SameAddress(h, k)
<1> DEFINE k == RefreshRoute(h, r, scope, option, order)
           x == IF Head(option).until = 0 THEN <<>> ELSE option
           n == [h EXCEPT !.rio[scope][r] = x]
<1>1. CASE option = <<>>
  BY <1>1 DEF RefreshRoute, SameAddress
<1>2. CASE option # <<>>
  <2>1. x \in Seq(Entry)
    OBVIOUS
  <2>2. k = Select(n, scope, order)
    BY <1>2 DEF RefreshRoute
  <2> HIDE DEF x, k
  <2>3. /\ h \in HostState /\ h.static = h.gateway
        /\ h.slaac.on => h.address = "auto"
        /\ h.dad.on => h.address # "auto"
    BY DEF Sound
  <2>4. /\ n \in HostState /\ KeepsRest(h, n) /\ n.dad = h.dad
        /\ n.gateway = h.gateway /\ n.static = h.static
        /\ scope = "default" => n.rio["inner"] = h.rio["inner"]
    <3>1. n = [h EXCEPT !.rio[scope][r] = x]
      OBVIOUS
    <3> HIDE DEF n
    <3> QED BY <2>1, <2>3, <3>1, RioWith
  <2> HIDE DEF n
  <2>5. SameAddress(h, n)
    BY <2>4 DEF KeepsRest, SameAddress
  <2>6. CASE scope = "inner"
    <3>1. k = SelectInner(n)
      BY <2>2, <2>6 DEF Select
    <3>2. k \in HostState /\ k = [n EXCEPT !.raRoute = k.raRoute] /\ InnerBest(k)
      BY <2>4, <3>1, SelectInnerFacts
    <3>3. n.static = n.gateway /\ (n.slaac.on => n.address = "auto") /\ (n.dad.on => n.address # "auto")
      BY <2>3, <2>4, <2>5 DEF SameAddress
    <3>4. Sound(k) /\ SameAddress(n, k)
      BY <2>4, <3>2, <3>3, SoundChosen
    <3> QED BY <2>5, <3>4 DEF SameAddress, k
  <2>7. CASE scope # "inner"
    <3>1. k = SelectDefault(n, order)
      BY <2>2, <2>7 DEF Select
    <3>2. scope = "default"
      BY <2>7 DEF Scope
    <3>3. n.raRoute = h.raRoute /\ n.failed = h.failed
      BY <2>4 DEF KeepsRest
    <3>4. Sound(n)
      BY <2>3, <2>4, <2>5, <3>2, <3>3, SoundKept
    <3>5. Sound(k) /\ SameAddress(n, k)
      BY <3>1, <3>4, SelectDefaultSound
    <3> QED BY <2>5, <3>5 DEF SameAddress, k
  <2> QED BY <2>6, <2>7
<1> QED BY <1>1, <1>2

\* reselect_ipv6_ra_routes
LEMMA ReselectSound ==
    ASSUME NEW h \in HostState, InnerNamed(h), h.static = h.gateway,
           h.slaac.on => h.address = "auto", h.dad.on => h.address # "auto"
    PROVE  Sound(Reselect(h)) /\ SameAddress(h, Reselect(h))
<1> DEFINE k == Reselect(h)
<1>1. k \in HostState /\ k = [h EXCEPT !.raRoute = k.raRoute] /\ InnerBest(k)
  BY ReselectFacts
<1> HIDE DEF k
<1>2. Sound(k) /\ SameAddress(h, k)
  BY <1>1, SoundChosen
<1> QED BY <1>2 DEF k

-----------------------------------------------------------------------------
(* The interface.                                                          *)

\* No valid lifetime falls below two hours or what was left of it.
LivesKept(h, k) ==
    /\ h.slaac.on /\ k.slaac.on => k.slaac.valid >= Min({h.slaac.valid, TwoHours})
    /\ h.dad.on /\ k.dad.on => k.dad.valid >= Min({h.dad.valid, TwoHours})

\* The smaller of two numbers.
LEMMA MinTwo ==
    ASSUME NEW a \in Nat, NEW b \in Nat
    PROVE  Min({a, b}) \in Nat /\ Min({a, b}) <= a /\ Min({a, b}) <= b
BY MinIs

\* Lifetimes that stay are kept.
LEMMA SameLives ==
    ASSUME NEW h \in HostState, NEW k, SameAddress(h, k)
    PROVE  LivesKept(h, k)
<1>1. h.dad \in Dad /\ h.slaac \in Slaac
  BY Fields
<1>2. h.dad.valid \in Nat /\ h.slaac.valid \in Nat /\ TwoHours \in Nat
  BY <1>1, Numbers DEF Dad, Slaac
<1>3. h.dad.valid >= Min({h.dad.valid, TwoHours}) /\ h.slaac.valid >= Min({h.slaac.valid, TwoHours})
  BY <1>2, MinTwo
<1> QED BY <1>3 DEF SameAddress, LivesKept

\* The two-hour rule.
LEMMA RefreshedFacts ==
    ASSUME NEW current \in Life, NEW advertised \in Life
    PROVE  /\ Refreshed(current, advertised) \in Life
           /\ Refreshed(current, advertised) >= Min({current, TwoHours})
<1>1. /\ current \in Nat /\ advertised \in Nat /\ TwoHours \in Nat /\ Inf \in Nat
      /\ \A x : x \in Life <=> x \in Nat /\ x <= Inf
  BY Numbers DEF Life
<1>2. /\ Min({current, TwoHours}) \in Nat /\ Min({current, TwoHours}) <= current
      /\ Min({current, TwoHours}) <= TwoHours
  BY <1>1, MinTwo
<1> DEFINE m == Min({current, TwoHours})
<1>3. m \in Nat /\ m <= current /\ m <= TwoHours
  BY <1>2
<1> HIDE DEF m
<1>4. Refreshed(current, advertised) \in Life /\ Refreshed(current, advertised) >= m
  BY <1>1, <1>3 DEF Refreshed
<1> QED BY <1>4 DEF m

\* A host with another value of its lifetimes.
LEMMA WithSlaac ==
    ASSUME NEW h, Sound(h), NEW x \in Slaac, h.address = "auto",
           NEW k, k = [h EXCEPT !.slaac = x]
    PROVE  Sound(k) /\ k.address = h.address /\ k.slaac = x /\ k.dad = h.dad
<1>1. h \in HostState /\ h.static = h.gateway /\ (h.dad.on => h.address # "auto")
  BY DEF Sound
<1>2. k \in HostState
  BY <1>1 DEF HostState
<1>3. /\ k.static = h.static /\ k.gateway = h.gateway /\ k.rio = h.rio /\ k.raRoute = h.raRoute
      /\ k.failed = h.failed /\ k.slaac = x /\ k.address = h.address /\ k.dad = h.dad
  BY <1>1 DEF HostState
<1>4. InnerOk(k)
  BY <1>3, InnerSame DEF Sound
<1> QED BY <1>1, <1>2, <1>3, <1>4 DEF Sound

\* A host with another state of duplicate address detection.
LEMMA WithDad ==
    ASSUME NEW h, Sound(h), NEW x \in Dad, x.on => h.address # "auto",
           NEW k, k = [h EXCEPT !.dad = x, !.duplicate = k.duplicate], k.duplicate \in BOOLEAN
    PROVE  Sound(k) /\ k.address = h.address /\ k.slaac = h.slaac /\ k.dad = x
<1>1. h \in HostState /\ h.static = h.gateway /\ (h.slaac.on => h.address = "auto")
  BY DEF Sound
<1> DEFINE d == k.duplicate
<1>2. d \in BOOLEAN /\ k = [h EXCEPT !.dad = x, !.duplicate = d]
  OBVIOUS
<1> HIDE DEF d
<1>3. k \in HostState
  BY <1>1, <1>2 DEF HostState
<1>4. /\ k.static = h.static /\ k.gateway = h.gateway /\ k.rio = h.rio /\ k.raRoute = h.raRoute
      /\ k.failed = h.failed /\ k.slaac = h.slaac /\ k.address = h.address /\ k.dad = x
  BY <1>1, <1>2 DEF HostState
<1>5. InnerOk(k)
  BY <1>4, InnerSame DEF Sound
<1> QED BY <1>1, <1>3, <1>4, <1>5 DEF Sound

\* A prefix option refreshes, adopts or begins to probe.
LEMMA AutoconfiguredSound ==
    ASSUME NEW h, Sound(h), NEW valid \in Life, NEW lifetime \in 0 .. MaxLife
    PROVE  LET k == Autoconfigured(h, valid, lifetime)
           IN  Sound(k) /\ k.address = h.address /\ LivesKept(h, k)
<1> DEFINE k == Autoconfigured(h, valid, lifetime)
           until == IF lifetime > 0 THEN lifetime ELSE None
<1>1. /\ h \in HostState /\ h.slaac \in Slaac /\ h.dad \in Dad /\ h.gateway \in Hop
      /\ h.duplicate \in BOOLEAN
  BY Fields DEF Sound
<1>2. until \in Life
  BY Numbers DEF Life, Inf, None
<1>3. h.slaac.valid \in Life /\ h.dad.valid \in Life /\ h.dad.valid \in Nat /\ h.slaac.valid \in Nat
  BY <1>1, Numbers DEF Slaac, Dad
<1>4. /\ h.dad.valid >= Min({h.dad.valid, TwoHours})
      /\ h.slaac.valid >= Min({h.slaac.valid, TwoHours})
  BY <1>3, Numbers, MinTwo
<1> HIDE DEF until
<1>5. CASE h.address = "auto"
  <2> DEFINE v == IF h.slaac.on THEN Refreshed(h.slaac.valid, valid) ELSE valid
             x == [on |-> TRUE, valid |-> v]
  <2>1. k = [h EXCEPT !.slaac = x]
    BY <1>5 DEF Autoconfigured
  <2>2. v \in Life /\ (h.slaac.on => v >= Min({h.slaac.valid, TwoHours}))
    BY <1>3, RefreshedFacts
  <2> HIDE DEF v, k
  <2>3. x \in Slaac /\ x.valid = v
    BY <2>2 DEF Slaac
  <2> HIDE DEF x
  <2>4. Sound(k) /\ k.address = h.address /\ k.slaac = x /\ k.dad = h.dad
    BY <1>5, <2>1, <2>3, WithSlaac
  <2>5. LivesKept(h, k)
    BY <1>4, <2>2, <2>3, <2>4 DEF LivesKept
  <2> QED BY <2>4, <2>5 DEF k
<1>6. CASE h.address # "auto" /\ valid = 0
  <2>1. k = h
    BY <1>6 DEF Autoconfigured
  <2>2. LivesKept(h, h)
    BY <1>4 DEF LivesKept
  <2> QED BY <2>1, <2>2
<1>7. CASE h.address # "auto" /\ valid # 0 /\ h.dad.on
  <2> DEFINE v == Refreshed(h.dad.valid, valid)
             x == [h.dad EXCEPT !.gateway = h.gateway, !.until = until, !.valid = v]
  <2>1. k = [h EXCEPT !.dad.gateway = h.gateway, !.dad.until = until, !.dad.valid = v]
    BY <1>7 DEF Autoconfigured, until
  <2>2. v \in Life /\ v >= Min({h.dad.valid, TwoHours})
    BY <1>3, RefreshedFacts
  <2> HIDE DEF v, k
  <2>3. k = [h EXCEPT !.dad = x, !.duplicate = k.duplicate] /\ k.duplicate \in BOOLEAN
    BY <1>1, <2>1 DEF HostState
  <2>4. x \in Dad /\ x.valid = v
    BY <1>1, <1>2, <2>2 DEF Dad
  <2> HIDE DEF x
  <2>5. Sound(k) /\ k.address = h.address /\ k.slaac = h.slaac /\ k.dad = x
    <3>1. x \in Dad /\ (x.on => h.address # "auto")
      BY <1>7, <2>4
    <3>2. k = [h EXCEPT !.dad = x, !.duplicate = k.duplicate]
      BY <2>3
    <3>3. k.duplicate \in BOOLEAN
      BY <2>3
    <3> QED BY <3>1, <3>2, <3>3, WithDad
  <2>6. LivesKept(h, k)
    BY <1>4, <2>2, <2>4, <2>5 DEF LivesKept
  <2> QED BY <2>5, <2>6 DEF k
<1>8. CASE h.address # "auto" /\ valid # 0 /\ ~h.dad.on
  <2> DEFINE x == [on |-> TRUE, due |-> DadTime, valid |-> valid, gateway |-> h.gateway, until |-> until]
  <2>1. k = [h EXCEPT !.duplicate = FALSE, !.dad = x]
    BY <1>8 DEF Autoconfigured, until
  <2> HIDE DEF k
  <2>2. k = [h EXCEPT !.dad = x, !.duplicate = k.duplicate] /\ k.duplicate \in BOOLEAN
    BY <1>1, <2>1 DEF HostState
  <2>3. x \in Dad
    BY <1>1, <1>2, Numbers DEF Dad
  <2> HIDE DEF x
  <2>4. Sound(k) /\ k.address = h.address /\ k.slaac = h.slaac /\ k.dad = x
    BY <1>8, <2>2, <2>3, WithDad
  <2>5. LivesKept(h, k)
    BY <1>4, <1>8, <2>4 DEF LivesKept
  <2> QED BY <2>4, <2>5 DEF k
<1> QED BY <1>5, <1>6, <1>7, <1>8

\* The lists of a new host.
LEMMA NewLists ==
    /\ NewHost.rio \in Rio /\ \A s \in Scope, r \in Router : NewHost.rio[s][r] = <<>>
    /\ <<>> \in Lists
    /\ NoDad \in Dad /\ ~NoDad.on /\ NoSlaac \in Slaac /\ ~NoSlaac.on /\ NoRedirect \in Redirect
<1>1. NewHost.rio = [s \in Scope |-> [r \in Router |-> <<>>]]
  BY DEF NewHost
<1>2. <<>> \in Seq(Entry) /\ <<>> \in Lists
  BY DEF Lists
<1>3. NewHost.rio \in Rio
  BY <1>1, <1>2 DEF Rio
<1>4. NoDad \in Dad /\ NoSlaac \in Slaac /\ NoRedirect \in Redirect /\ ~NoDad.on /\ ~NoSlaac.on
  BY Numbers DEF NoDad, NoSlaac, NoRedirect, Dad, Slaac, Redirect, None
<1> QED BY <1>1, <1>2, <1>3, <1>4

\* Nothing is advertised to an interface just configured.
LEMMA NothingAdvertised ==
    ASSUME NEW h, h.rio = NewHost.rio, h.raRoute = None, h.failed = {}
    PROVE  Inner(h) = {} /\ InnerBest(h) /\ InnerOk(h)
<1>1. "inner" \in Scope
  BY DEF Scope
<1>2. Inner(h) = {}
  BY <1>1, NewLists DEF Inner
<1> QED BY <1>2 DEF InnerBest, InnerOk

\* configure_ipv6_interface
LEMMA ConfiguredSound ==
    ASSUME NEW h, Sound(h), NEW address \in AddressKind, NEW g \in Hop
    PROVE  LET k == Configured(h, address, g)
           IN  /\ Sound(k) /\ InnerBest(k) /\ ~k.dad.on /\ ~k.slaac.on
               /\ k.address = address /\ k.gateway = g /\ k.rio = NewHost.rio /\ k.discovery = h.discovery
<1> DEFINE k == Configured(h, address, g)
           st == IF g # None \/ h.gateway # None THEN g ELSE h.static
<1>1. k = [h EXCEPT !.address = address, !.gateway = g, !.static = st,
                    !.dad = NoDad, !.duplicate = FALSE, !.slaac = NoSlaac, !.failed = {},
                    !.raRoute = None, !.rio = NewHost.rio, !.redirect = NoRedirect]
  BY DEF Configured
<1>2. h \in HostState /\ st \in Hop /\ st = g
  BY Fields DEF Sound
<1> HIDE DEF st, k
<1>3. /\ NewHost.rio \in Rio /\ NoDad \in Dad /\ NoSlaac \in Slaac /\ NoRedirect \in Redirect
      /\ None \in Hop /\ {} \in SUBSET Router /\ ~NoDad.on /\ ~NoSlaac.on
  BY NewLists, Numbers
<1> DEFINE rio == NewHost.rio
           dad == NoDad
           slaac == NoSlaac
           redirect == NoRedirect
<1>4. k = [h EXCEPT !.address = address, !.gateway = g, !.static = st,
                    !.dad = dad, !.duplicate = FALSE, !.slaac = slaac, !.failed = {},
                    !.raRoute = None, !.rio = rio, !.redirect = redirect]
  BY <1>1
<1>5. rio \in Rio /\ dad \in Dad /\ slaac \in Slaac /\ redirect \in Redirect /\ ~dad.on /\ ~slaac.on
  BY <1>3
<1> HIDE DEF rio, dad, slaac, redirect
<1>6. k \in HostState
  BY <1>2, <1>3, <1>4, <1>5 DEF HostState
<1>7. /\ k.static = st /\ k.gateway = g /\ k.rio = rio /\ k.raRoute = None /\ k.failed = {}
      /\ k.slaac = slaac /\ k.address = address /\ k.dad = dad /\ k.discovery = h.discovery
  BY <1>2, <1>4 DEF HostState
<1>8. InnerBest(k) /\ InnerOk(k)
  BY <1>7, NothingAdvertised DEF rio
<1> QED BY <1>2, <1>5, <1>6, <1>7, <1>8 DEF Sound, rio, k

\* clear_ipv6_interface
LEMMA ClearedSound ==
    ASSUME NEW h, Sound(h)
    PROVE  LET k == Cleared(h)
           IN  /\ Sound(k) /\ InnerBest(k) /\ GatewayBest(k) /\ ~k.dad.on /\ ~k.slaac.on
               /\ k.address = "none" /\ k.gateway = None
<1> DEFINE k == Cleared(h)
           c == Configured(h, "none", None)
<1>1. "none" \in AddressKind /\ None \in Hop
  BY Numbers DEF AddressKind
<1>2. /\ Sound(c) /\ InnerBest(c) /\ ~c.dad.on /\ ~c.slaac.on
      /\ c.address = "none" /\ c.gateway = None /\ c.rio = NewHost.rio
  BY <1>1, ConfiguredSound
<1>3. k = [c EXCEPT !.routers = <<>>, !.parked = {}]
  BY DEF Cleared
<1> HIDE DEF c, k
<1>4. c \in HostState
  BY <1>2 DEF Sound
<1>5. k \in HostState
  BY <1>3, <1>4, NewLists DEF HostState
<1>6. /\ k.static = c.static /\ k.gateway = c.gateway /\ k.rio = c.rio /\ k.raRoute = c.raRoute
      /\ k.failed = c.failed /\ k.ndp = c.ndp /\ k.slaac = c.slaac /\ k.address = c.address
      /\ k.dad = c.dad /\ k.routers = <<>>
  BY <1>3, <1>4 DEF HostState
<1>7. Sound(k)
  BY <1>2, <1>5, <1>6, SoundKept DEF Sound, SameAddress
<1>8. InnerBest(k)
  BY <1>2, <1>6, BestSame
<1>9. GatewayBest(k)
  <2>1. "default" \in Scope
    BY DEF Scope
  <2>2. \A r \in Router : ~Candidate(k, r)
    BY <1>2, <1>6, <2>1, NewLists DEF Candidate, Listed
  <2>3. Usable(k) = {}
    BY <2>2 DEF Usable
  <2> QED BY <1>2, <1>6, <2>3 DEF GatewayBest
<1> QED BY <1>2, <1>6, <1>7, <1>8, <1>9 DEF k

-----------------------------------------------------------------------------
(* The neighbour cache, and the frames and calls.                          *)

\* A change of the neighbour cache, the parked packets, redirects or discovery.
LEMMA SideKept ==
    ASSUME NEW h, Sound(h), NEW k \in HostState,
           k.static = h.static, k.gateway = h.gateway, k.raRoute = h.raRoute, k.rio = h.rio,
           k.failed = h.failed, k.address = h.address, k.slaac = h.slaac, k.dad = h.dad
    PROVE  Sound(k) /\ SameAddress(h, k)
<1>1. SameAddress(h, k)
  BY DEF SameAddress
<1>2. k.static = k.gateway
  BY DEF Sound
<1> QED BY <1>1, <1>2, SoundKept

\* What the cache makes of a neighbour.
LEMMA NeighbourTypes ==
    ASSUME NEW n \in Neighbour
    PROVE  /\ \A option : LearnStale(n, option) \in Neighbour
           /\ Used(n) \in Neighbour /\ StepNud(n) \in Neighbour
           /\ Confirmed \in Neighbour /\ Unknown \in Neighbour
           /\ [state |-> "stale", due |-> Inf, probes |-> 0] \in Neighbour
<1>1. /\ n.state \in {"none", "reachable", "stale", "delay", "probe"} /\ n.due \in Nat
      /\ n.probes \in Nat /\ n.probes <= MaxProbes
  BY Numbers DEF Neighbour
<1>2. /\ Inf \in Nat /\ 0 \in 0 .. MaxProbes /\ 1 \in 0 .. MaxProbes /\ Delay \in Nat
      /\ Reachable \in Nat /\ Retrans \in Nat /\ MaxProbes \in Nat
  BY Numbers
<1> HIDE DEF Neighbour
<1>3. \A s \in {"none", "reachable", "stale", "delay", "probe"}, d \in Nat, p \in 0 .. MaxProbes :
        [state |-> s, due |-> d, probes |-> p] \in Neighbour
  BY DEF Neighbour
<1>4. /\ [state |-> "stale", due |-> Inf, probes |-> 0] \in Neighbour
      /\ Unknown \in Neighbour /\ Confirmed \in Neighbour
      /\ [state |-> "delay", due |-> Delay, probes |-> 0] \in Neighbour
      /\ [state |-> "probe", due |-> Retrans, probes |-> 1] \in Neighbour
  BY <1>2, <1>3 DEF Unknown, Confirmed
<1>5. n.probes < MaxProbes => [state |-> "probe", due |-> Retrans, probes |-> n.probes + 1] \in Neighbour
  <2> SUFFICES ASSUME n.probes < MaxProbes
               PROVE  [state |-> "probe", due |-> Retrans, probes |-> n.probes + 1] \in Neighbour
    OBVIOUS
  <2>1. n.probes + 1 \in 0 .. MaxProbes
    BY <1>1, <1>2
  <2> QED BY <1>2, <1>3, <2>1
<1>6. \A option : LearnStale(n, option) \in Neighbour
  BY <1>4 DEF LearnStale
<1>7. Used(n) \in Neighbour
  BY <1>4 DEF Used
<1>8. StepNud(n) \in Neighbour
  BY <1>4, <1>5 DEF StepNud
<1> QED BY <1>4, <1>6, <1>7, <1>8

\* A new entry of the cache.
LEMMA NdpWith ==
    ASSUME NEW h \in HostState, NEW r \in Router, NEW x \in Neighbour
    PROVE  [h.ndp EXCEPT ![r] = x] \in Cache
<1>1. h.ndp \in Cache
  BY Fields
<1> QED BY <1>1 DEF Cache

\* The states of router discovery.
LEMMA DiscoveryStates ==
    /\ Idle \in Discovery
    /\ [status |-> "soliciting", sent |-> 1, due |-> Interval] \in Discovery
    /\ [Idle EXCEPT !.status = "exhausted"] \in Discovery
<1>1. 0 \in 0 .. MaxSolicits - 1 /\ 1 \in 0 .. MaxSolicits - 1
  BY Numbers
<1> QED BY <1>1, Numbers DEF Idle, Discovery

\* A new state of router discovery.
LEMMA DiscoverySound ==
    ASSUME NEW h, Sound(h), NEW x \in Discovery, NEW k, k = [h EXCEPT !.discovery = x]
    PROVE  /\ Sound(k) /\ SameAddress(h, k) /\ k.gateway = h.gateway /\ k.routers = h.routers
           /\ k.rio = h.rio /\ k.ndp = h.ndp /\ k.raRoute = h.raRoute /\ k.failed = h.failed
           /\ k.discovery = x
<1>1. h \in HostState
  BY DEF Sound
<1>2. k \in HostState
  BY <1>1 DEF HostState
<1>3. /\ k.static = h.static /\ k.gateway = h.gateway /\ k.raRoute = h.raRoute /\ k.rio = h.rio
      /\ k.failed = h.failed /\ k.address = h.address /\ k.slaac = h.slaac /\ k.dad = h.dad
      /\ k.routers = h.routers /\ k.ndp = h.ndp /\ k.discovery = x
  BY <1>1 DEF HostState
<1> QED BY <1>2, <1>3, SideKept

\* A new host is sound.
LEMMA NewHostSound == Sound(NewHost)
<1> DEFINE rio == [s \in Scope |-> [r \in Router |-> <<>>]]
           ndp == [r \in Router |-> Unknown]
<1>1. rio \in Rio /\ rio = NewHost.rio
  BY NewLists DEF NewHost
<1>2. ndp \in Cache
  <2>1. Unknown \in Neighbour
    <3>1. 0 \in 0 .. MaxProbes
      BY Numbers
    <3> QED BY <3>1, Numbers DEF Unknown, Neighbour
  <2> QED BY <2>1 DEF Cache
<1>3. /\ NoDad \in Dad /\ NoSlaac \in Slaac /\ NoRedirect \in Redirect /\ <<>> \in Lists
      /\ Idle \in Discovery /\ None \in Hop /\ ~NoDad.on /\ ~NoSlaac.on /\ "none" \in AddressKind
  BY NewLists, DiscoveryStates, Numbers DEF AddressKind
<1> HIDE DEF rio, ndp
<1>4. NewHost = [gateway |-> None, static |-> None, raRoute |-> None, routers |-> <<>>, rio |-> rio,
                 failed |-> {}, ndp |-> ndp, parked |-> {}, redirect |-> NoRedirect,
                 discovery |-> Idle, address |-> "none", dad |-> NoDad, duplicate |-> FALSE,
                 slaac |-> NoSlaac]
  BY DEF NewHost, rio, ndp
<1> DEFINE h == NewHost
<1>5. h \in HostState
  BY <1>1, <1>2, <1>3, <1>4 DEF HostState
<1>6. /\ h.static = None /\ h.gateway = None /\ h.raRoute = None /\ h.failed = {}
      /\ h.slaac = NoSlaac /\ h.dad = NoDad
  BY <1>4
<1>7. InnerOk(h)
  BY <1>6, NothingAdvertised
<1> HIDE DEF h
<1>8. Sound(h)
  BY <1>3, <1>5, <1>6, <1>7 DEF Sound
<1> QED BY <1>8 DEF h

\* Duplicate address detection that hears somebody else ends.
LEMMA DuplicateSound ==
    ASSUME NEW h, Sound(h)
    PROVE  LET k == Duplicate(h) IN Sound(k) /\ ~k.dad.on /\ LivesKept(h, k)
<1> DEFINE k == Duplicate(h)
<1>1. h \in HostState /\ h.dad \in Dad /\ h.slaac \in Slaac
  BY Fields DEF Sound
<1>2. h.dad.on \in BOOLEAN
  BY <1>1 DEF Dad
<1>3. CASE ~h.dad.on
  <2>1. k = h
    BY <1>3 DEF Duplicate
  <2>2. LivesKept(h, h)
    BY <1>1, SameLives DEF SameAddress
  <2> QED BY <1>3, <2>1, <2>2
<1>4. CASE h.dad.on
  <2>1. k = [h EXCEPT !.dad = NoDad, !.duplicate = TRUE]
    BY <1>4 DEF Duplicate
  <2>2. NoDad \in Dad /\ ~NoDad.on
    BY NewLists
  <2> DEFINE x == NoDad
  <2>3. x \in Dad /\ ~x.on /\ k = [h EXCEPT !.dad = x, !.duplicate = TRUE]
    BY <2>1, <2>2
  <2> HIDE DEF x, k
  <2>4. k = [h EXCEPT !.dad = x, !.duplicate = k.duplicate]
    BY <1>1, <2>3 DEF HostState
  <2>5. k.duplicate \in BOOLEAN
    BY <1>1, <2>3 DEF HostState
  <2>6. x.on => h.address # "auto"
    BY <2>3
  <2>7. Sound(k) /\ k.address = h.address /\ k.slaac = h.slaac /\ k.dad = x
    <3>1. x \in Dad
      BY <2>3
    <3> QED BY <2>4, <2>5, <2>6, <3>1, WithDad
  <2>8. h.slaac.valid >= Min({h.slaac.valid, TwoHours})
    BY <1>1, Numbers, MinTwo DEF Slaac
  <2>9. LivesKept(h, k)
    BY <2>3, <2>7, <2>8 DEF LivesKept
  <2> QED BY <2>3, <2>7, <2>9 DEF k
<1> QED BY <1>2, <1>3, <1>4

-----------------------------------------------------------------------------
(* Frames and calls, one lemma each.                                       *)

\* What is heard of the address under probe.
Tentative(h, somebody) == h.dad.on => ~somebody

\* The inductive invariant.
Inv == Sound(host) /\ events \in 0 .. MaxEvents /\ heard \in BOOLEAN /\ Tentative(host, heard)

\* A Router Advertisement.
LEMMA ReceiveAdvertStep ==
    ASSUME Inv, NEW r \in Router, NEW ra \in Adverts[r], ReceiveAdvert(r, ra)
    PROVE  Inv' /\ LivesKept(host, host') /\ Event
<1> DEFINE n == LearnStale(host.ndp[r], ra.slla)
           x == IF ra.slla # "absent" /\ r \in host.failed THEN Used(n) ELSE n
           learnt == [host EXCEPT !.ndp[r] = x, !.discovery = Idle]
           header(order) == IF ra.rio["default"] # <<>> THEN SelectDefault(Unlisted(learnt, r), order)
                            ELSE RefreshDefault(learnt, r, ra.lifetime, ra.pref, order)
           offered(order) == RefreshRoute(header(order), r, "default", ra.rio["default"], order)
           routed(order) == RefreshRoute(offered(order), r, "inner", ra.rio["inner"], order)
           final(order) == IF ra.valid = <<>> THEN routed(order)
                           ELSE Autoconfigured(routed(order), Head(ra.valid), ra.lifetime)
<1>1. PICK order \in Orders : Event /\ host' = final(order) /\ heard' = (heard /\ (host'.dad.on => host.dad.on))
  BY DEF ReceiveAdvert
<1>2. ra \in Advert
  BY HostAssumption
<1>3. /\ ra.lifetime \in 0 .. MaxLife /\ ra.pref \in 0 .. 2 /\ ra.valid \in Seq(Life)
      /\ ra.rio \in [Scope -> Seq(Entry)]
  BY <1>2 DEF Advert, Entry
<1>4. /\ "default" \in Scope /\ "inner" \in Scope
      /\ ra.rio["default"] \in Seq(Entry) /\ ra.rio["inner"] \in Seq(Entry)
  BY <1>3 DEF Scope
<1>5. Sound(host) /\ host \in HostState
  BY DEF Inv, Sound
<1>6. x \in Neighbour
  <2>1. host.ndp[r] \in Neighbour
    BY <1>5, PerRouter
  <2>2. n \in Neighbour
    BY <2>1, NeighbourTypes
  <2> HIDE DEF n
  <2> QED BY <2>2, NeighbourTypes
<1> HIDE DEF n, x
<1>7. Sound(learnt) /\ SameAddress(host, learnt)
  <2> DEFINE c == [host.ndp EXCEPT ![r] = x]
  <2>1. c \in Cache /\ Idle \in Discovery
    BY <1>5, <1>6, NdpWith, DiscoveryStates
  <2>2. learnt = [host EXCEPT !.ndp = c, !.discovery = Idle]
    OBVIOUS
  <2> HIDE DEF c, learnt
  <2>3. learnt \in HostState
    BY <1>5, <2>1, <2>2 DEF HostState
  <2>4. /\ learnt.static = host.static /\ learnt.gateway = host.gateway
        /\ learnt.raRoute = host.raRoute /\ learnt.rio = host.rio
        /\ learnt.failed = host.failed /\ learnt.address = host.address
        /\ learnt.slaac = host.slaac /\ learnt.dad = host.dad
    BY <1>5, <2>2 DEF HostState
  <2> QED BY <1>5, <2>3, <2>4, SideKept
<1> HIDE DEF learnt
<1>8. Sound(header(order)) /\ SameAddress(learnt, header(order))
  <2>1. CASE ra.rio["default"] # <<>>
    <3>1. learnt \in HostState
      BY <1>7 DEF Sound
    <3>2. PICK l \in Lists : Unlisted(learnt, r) = [learnt EXCEPT !.routers = l]
      BY <3>1, UnlistedIs
    <3> DEFINE u == [learnt EXCEPT !.routers = l]
    <3>3. Sound(u) /\ SameAddress(learnt, u)
      BY <1>7, ListSound
    <3>4. header(order) = SelectDefault(u, order)
      BY <2>1, <3>2
    <3> HIDE DEF u, header
    <3>5. Sound(header(order)) /\ SameAddress(u, header(order))
      BY <3>3, <3>4, SelectDefaultSound
    <3> QED BY <3>3, <3>5 DEF SameAddress
  <2>2. CASE ~(ra.rio["default"] # <<>>)
    <3>1. header(order) = RefreshDefault(learnt, r, ra.lifetime, ra.pref, order)
      BY <2>2
    <3> HIDE DEF header
    <3> QED BY <1>3, <1>7, <3>1, RefreshDefaultSound
  <2> QED BY <2>1, <2>2
<1> HIDE DEF header
<1>9. Sound(offered(order)) /\ SameAddress(header(order), offered(order))
  BY <1>4, <1>8, RefreshRouteSound
<1> HIDE DEF offered
<1>10. Sound(routed(order)) /\ SameAddress(offered(order), routed(order))
  BY <1>4, <1>9, RefreshRouteSound
<1> HIDE DEF routed
<1> DEFINE k == routed(order)
<1>11. Sound(k) /\ SameAddress(host, k) /\ host' = IF ra.valid = <<>> THEN k ELSE Autoconfigured(k, Head(ra.valid), ra.lifetime)
  BY <1>1, <1>7, <1>8, <1>9, <1>10 DEF SameAddress
<1> HIDE DEF k, final
<1>12. Sound(host') /\ LivesKept(host, host')
  <2>1. CASE ra.valid = <<>>
    BY <1>5, <1>11, <2>1, SameLives
  <2>2. CASE ra.valid # <<>>
    <3>1. Head(ra.valid) \in Life
      BY <1>3, <2>2
    <3>2. host' = Autoconfigured(k, Head(ra.valid), ra.lifetime)
      BY <1>11, <2>2
    <3>3. Sound(host') /\ LivesKept(k, host')
      BY <1>3, <1>11, <3>1, <3>2, AutoconfiguredSound
    <3>4. LivesKept(host, host')
      BY <1>11, <3>3 DEF LivesKept, SameAddress
    <3> QED BY <3>3, <3>4
  <2> QED BY <2>1, <2>2
<1>13. events' \in 0 .. MaxEvents /\ Event
  BY <1>1, Numbers DEF Inv, Event
<1>14. heard' \in BOOLEAN /\ Tentative(host', heard')
  <2>1. host.dad.on \in BOOLEAN /\ host'.dad.on \in BOOLEAN
    BY <1>5, <1>12, Fields DEF Dad, Sound
  <2>2. heard \in BOOLEAN /\ (host.dad.on => ~heard)
    BY DEF Inv, Tentative
  <2>3. heard' = (heard /\ (host'.dad.on => host.dad.on))
    BY <1>1
  <2> QED BY <2>1, <2>2, <2>3 DEF Tentative
<1> QED BY <1>12, <1>13, <1>14 DEF Inv

\* The part of the invariant that frames and calls share.
LEMMA CallStep ==
    ASSUME Inv, Sound(host'), LivesKept(host, host'), Event, heard' = heard,
           host'.dad.on => host.dad.on
    PROVE  Inv' /\ LivesKept(host, host') /\ Event
<1>1. events' \in 0 .. MaxEvents
  BY Numbers DEF Inv, Event
<1> QED BY <1>1 DEF Inv, Tentative

\* A call that leaves the address alone.
LEMMA SideStep ==
    ASSUME Inv, Sound(host'), SameAddress(host, host'), Event, heard' = heard
    PROVE  Inv' /\ LivesKept(host, host') /\ Event
<1>1. LivesKept(host, host')
  BY SameLives DEF Inv, Sound
<1>2. host'.dad.on => host.dad.on
  BY DEF SameAddress
<1> QED BY <1>1, <1>2, CallStep

\* A Neighbour Solicitation.
LEMMA ReceiveNsStep ==
    ASSUME Inv, NEW r \in Router, NEW option, ReceiveNs(r, option)
    PROVE  Inv' /\ LivesKept(host, host') /\ Event
<1> DEFINE x == LearnStale(host.ndp[r], option)
           c == [host.ndp EXCEPT ![r] = x]
<1>1. Sound(host) /\ host \in HostState
  BY DEF Inv, Sound
<1>2. c \in Cache
  <2>1. x \in Neighbour
    BY <1>1, PerRouter, NeighbourTypes
  <2> HIDE DEF x
  <2> QED BY <1>1, <2>1, NdpWith
<1>3. Event /\ heard' = heard /\ host' = [host EXCEPT !.ndp = c]
  BY DEF ReceiveNs
<1> HIDE DEF c
<1>4. host' \in HostState
  BY <1>1, <1>2, <1>3 DEF HostState
<1>5. /\ host'.static = host.static /\ host'.gateway = host.gateway /\ host'.raRoute = host.raRoute
      /\ host'.rio = host.rio /\ host'.failed = host.failed /\ host'.address = host.address
      /\ host'.slaac = host.slaac /\ host'.dad = host.dad
  BY <1>1, <1>3 DEF HostState
<1>6. Sound(host') /\ SameAddress(host, host')
  BY <1>1, <1>4, <1>5, SideKept
<1> QED BY <1>3, <1>6, SideStep

\* Somebody else uses the address.
LEMMA ConflictStep ==
    ASSUME Inv, NEW advertised \in BOOLEAN, Conflict(advertised)
    PROVE  Inv' /\ LivesKept(host, host') /\ Event
<1> DEFINE k == Duplicate(host)
<1>1. Sound(host) /\ host \in HostState
  BY DEF Inv, Sound
<1>2. Sound(k) /\ ~k.dad.on /\ LivesKept(host, k)
  BY <1>1, DuplicateSound
<1>3. Event /\ heard' = TRUE /\ host' = IF advertised THEN Reselect(k) ELSE k
  BY DEF Conflict
<1> HIDE DEF k
<1>4. Sound(Reselect(k)) /\ SameAddress(k, Reselect(k))
  BY <1>2, SoundNamed, ReselectSound DEF Sound
<1>5. Sound(host') /\ SameAddress(k, host')
  BY <1>2, <1>3, <1>4 DEF SameAddress
<1>6. LivesKept(host, host') /\ ~host'.dad.on
  BY <1>2, <1>5 DEF LivesKept, SameAddress
<1>7. events' \in 0 .. MaxEvents
  BY <1>3, Numbers DEF Inv, Event
<1> QED BY <1>3, <1>5, <1>6, <1>7 DEF Inv, Tentative

\* A Redirect.
LEMMA ReceiveRedirectStep ==
    ASSUME Inv, NEW r \in Router, NEW target \in Router, NEW option, ReceiveRedirect(r, target, option)
    PROVE  Inv' /\ LivesKept(host, host') /\ Event
<1> DEFINE x == LearnStale(host.ndp[target], option)
           c == [host.ndp EXCEPT ![target] = x]
           y == [router |-> r, target |-> target]
<1>1. Sound(host) /\ host \in HostState
  BY DEF Inv, Sound
<1>2. c \in Cache
  <2>1. x \in Neighbour
    BY <1>1, PerRouter, NeighbourTypes
  <2> HIDE DEF x
  <2> QED BY <1>1, <2>1, NdpWith
<1>3. y \in Redirect
  BY Numbers DEF Redirect
<1>4. Event /\ heard' = heard /\ host' = [host EXCEPT !.redirect = y, !.ndp = c]
  BY DEF ReceiveRedirect
<1> HIDE DEF c, y
<1>5. host' \in HostState
  BY <1>1, <1>2, <1>3, <1>4 DEF HostState
<1>6. /\ host'.static = host.static /\ host'.gateway = host.gateway /\ host'.raRoute = host.raRoute
      /\ host'.rio = host.rio /\ host'.failed = host.failed /\ host'.address = host.address
      /\ host'.slaac = host.slaac /\ host'.dad = host.dad
  BY <1>1, <1>4 DEF HostState
<1>7. Sound(host') /\ SameAddress(host, host')
  BY <1>1, <1>5, <1>6, SideKept
<1> QED BY <1>4, <1>7, SideStep

\* The next hop of the routing table is a router or none.
LEMMA RouteHopType ==
    ASSUME NEW h \in HostState
    PROVE  RouteHop(h) \in Hop
BY Fields DEF RouteHop

\* send_ip6_packet
LEMMA SendStep ==
    ASSUME Inv, Send
    PROVE  Inv' /\ LivesKept(host, host') /\ Event
<1> DEFINE hop == RouteHop(host)
           redirected == host.redirect # NoRedirect /\ host.redirect.router = hop
           next == IF redirected THEN host.redirect.target ELSE hop
           y == IF redirected THEN host.redirect ELSE NoRedirect
           x == Used(host.ndp[next])
           c == [host.ndp EXCEPT ![next] = x]
           p == host.parked \cup {next}
<1>1. Sound(host) /\ host \in HostState
  BY DEF Inv, Sound
<1>2. next \in Hop /\ y \in Redirect
  <2>1. hop \in Hop /\ host.redirect \in Redirect
    BY <1>1, RouteHopType, Fields
  <2>2. NoRedirect \in Redirect
    BY NewLists
  <2> QED BY <2>1, <2>2 DEF Redirect
<1>3. Event /\ heard' = heard
  BY DEF Send
<1>4. host' = IF next # None /\ host.ndp[next].state # "none"
              THEN [[host EXCEPT !.redirect = y] EXCEPT !.ndp = c]
              ELSE [[host EXCEPT !.redirect = y] EXCEPT !.parked = p]
  <2> DEFINE kept == [host EXCEPT !.redirect = y]
  <2>1. host' = IF next # None /\ host.ndp[next].state # "none"
                THEN [kept EXCEPT !.ndp[next] = Used(@)] ELSE [kept EXCEPT !.parked = @ \cup {next}]
    BY DEF Send
  <2>2. kept.ndp = host.ndp /\ kept.parked = host.parked
    BY <1>1 DEF HostState
  <2> HIDE DEF kept, next, hop
  <2>3. [kept EXCEPT !.ndp[next] = Used(@)] = [kept EXCEPT !.ndp = c]
    BY <2>2
  <2>4. [kept EXCEPT !.parked = @ \cup {next}] = [kept EXCEPT !.parked = p]
    BY <2>2
  <2> QED BY <2>1, <2>3, <2>4 DEF kept
<1> HIDE DEF hop, y, next
<1>5. CASE next # None /\ host.ndp[next].state # "none"
  <2>1. next \in Router
    BY <1>2, <1>5 DEF Hop
  <2>2. c \in Cache
    <3>1. x \in Neighbour
      BY <1>1, <2>1, PerRouter, NeighbourTypes
    <3> HIDE DEF x
    <3> QED BY <1>1, <2>1, <3>1, NdpWith
  <2>3. host' = [host EXCEPT !.redirect = y, !.ndp = c]
    BY <1>4, <1>5
  <2> HIDE DEF c
  <2>4. host' \in HostState
    BY <1>1, <1>2, <2>2, <2>3 DEF HostState
  <2>5. /\ host'.static = host.static /\ host'.gateway = host.gateway /\ host'.raRoute = host.raRoute
        /\ host'.rio = host.rio /\ host'.failed = host.failed /\ host'.address = host.address
        /\ host'.slaac = host.slaac /\ host'.dad = host.dad
    BY <1>1, <2>3 DEF HostState
  <2>6. Sound(host') /\ SameAddress(host, host')
    BY <1>1, <2>4, <2>5, SideKept
  <2> QED BY <1>3, <2>6, SideStep
<1>6. CASE ~(next # None /\ host.ndp[next].state # "none")
  <2>1. p \in SUBSET Hop
    BY <1>1, <1>2, Fields
  <2>2. host' = [host EXCEPT !.redirect = y, !.parked = p]
    BY <1>4, <1>6
  <2> HIDE DEF p
  <2>3. host' \in HostState
    BY <1>1, <1>2, <2>1, <2>2 DEF HostState
  <2>4. /\ host'.static = host.static /\ host'.gateway = host.gateway /\ host'.raRoute = host.raRoute
        /\ host'.rio = host.rio /\ host'.failed = host.failed /\ host'.address = host.address
        /\ host'.slaac = host.slaac /\ host'.dad = host.dad
    BY <1>1, <2>2 DEF HostState
  <2>5. Sound(host') /\ SameAddress(host, host')
    BY <1>1, <2>3, <2>4, SideKept
  <2> QED BY <1>3, <2>5, SideStep
<1> QED BY <1>5, <1>6

\* The application configures, clears or solicits.
LEMMA ConfigureStep ==
    ASSUME Inv, NEW address \in {"manual", "auto"}, NEW g \in Hop, Configure(address, g)
    PROVE  Inv' /\ LivesKept(host, host') /\ Event
<1>1. Sound(host) /\ address \in AddressKind
  BY DEF Inv, AddressKind
<1>2. Event /\ heard' = heard /\ host' = Configured(host, address, g)
  BY DEF Configure
<1>3. Sound(host') /\ ~host'.dad.on /\ ~host'.slaac.on
  BY <1>1, <1>2, ConfiguredSound
<1>4. LivesKept(host, host')
  BY <1>3 DEF LivesKept
<1> QED BY <1>2, <1>3, <1>4, CallStep

\* clear_ipv6_interface
LEMMA ClearStep ==
    ASSUME Inv, Clear
    PROVE  Inv' /\ LivesKept(host, host') /\ Event
<1>1. Sound(host)
  BY DEF Inv
<1>2. Event /\ heard' = heard /\ host' = Cleared(host)
  BY DEF Clear
<1>3. Sound(host') /\ ~host'.dad.on /\ ~host'.slaac.on
  BY <1>1, <1>2, ClearedSound
<1>4. LivesKept(host, host')
  BY <1>3 DEF LivesKept
<1> QED BY <1>2, <1>3, <1>4, CallStep

\* start_router_discovery and cancel_router_discovery
LEMMA DiscoveryStep ==
    ASSUME Inv, StartRouterDiscovery \/ CancelRouterDiscovery
    PROVE  Inv' /\ LivesKept(host, host') /\ Event
<1>1. Sound(host)
  BY DEF Inv
<1>2. Event /\ heard' = heard
  BY DEF StartRouterDiscovery, CancelRouterDiscovery
<1>3. \E x \in Discovery : host' = [host EXCEPT !.discovery = x]
  BY DiscoveryStates DEF StartRouterDiscovery, CancelRouterDiscovery, Soliciting
<1>4. PICK x \in Discovery : host' = [host EXCEPT !.discovery = x]
  BY <1>3
<1>5. Sound(host') /\ SameAddress(host, host')
  BY <1>1, <1>4, DiscoverySound
<1> QED BY <1>2, <1>5, SideStep

\* A Neighbour Advertisement.
LEMMA AdvertisedSound ==
    ASSUME NEW h, Sound(h), NEW r \in Router, NEW na, NEW order \in Orders
    PROVE  LET k == Advertised(h, r, na, order) IN Sound(k) /\ SameAddress(h, k)
<1> DEFINE k == Advertised(h, r, na, order)
           cached == h.ndp[r].state # "none"
           stale == [state |-> "stale", due |-> Inf, probes |-> 0]
           entry == CASE cached /\ na.tlla = "changed" /\ ~na.override ->
                           IF h.ndp[r].state = "reachable" THEN stale ELSE h.ndp[r]
                      [] cached /\ ~(na.tlla = "changed" /\ ~na.override) /\ ~na.solicited ->
                           IF na.tlla = "changed" THEN stale ELSE h.ndp[r]
                      [] ~cached /\ ~na.solicited -> stale
                      [] OTHER -> Confirmed
           c == [h.ndp EXCEPT ![r] = entry]
           p == IF cached THEN h.parked ELSE h.parked \ {r}
           known == [h EXCEPT !.ndp = c, !.parked = p]
           chosen == CASE cached /\ ~na.router -> RefreshDefault(known, r, 0, 1, order)
                       [] na.router /\ Candidate(h, r) -> SelectDefault(known, order)
                       [] OTHER -> known
           f == IF na.solicited /\ entry.state = "reachable" THEN chosen.failed \ {r} ELSE chosen.failed
           final == [chosen EXCEPT !.failed = f]
<1>1. k = CASE ~cached /\ r \notin h.parked -> Reselect(h)
            [] ~cached /\ r \in h.parked /\ na.tlla = "absent" -> h
            [] OTHER -> Reselect(final)
  BY DEF Advertised
<1>2. h \in HostState /\ h.ndp[r] \in Neighbour
  BY PerRouter DEF Sound
<1>3. entry \in Neighbour
  <2>1. stale \in Neighbour /\ Confirmed \in Neighbour
    BY <1>2, NeighbourTypes
  <2> HIDE DEF stale, cached
  <2> QED BY <1>2, <2>1
<1> HIDE DEF entry
<1>4. c \in Cache /\ p \in SUBSET Hop
  BY <1>2, <1>3, NdpWith, Fields
<1> HIDE DEF c, p
<1>5. Sound(known) /\ SameAddress(h, known)
  <2>1. known \in HostState
    BY <1>2, <1>4 DEF HostState
  <2>2. /\ known.static = h.static /\ known.gateway = h.gateway /\ known.raRoute = h.raRoute
        /\ known.rio = h.rio /\ known.failed = h.failed /\ known.address = h.address
        /\ known.slaac = h.slaac /\ known.dad = h.dad
    BY <1>2 DEF HostState
  <2> HIDE DEF known
  <2> QED BY <2>1, <2>2, SideKept
<1> HIDE DEF known
<1>6. Sound(chosen) /\ SameAddress(h, chosen)
  <2>1. chosen \in {RefreshDefault(known, r, 0, 1, order), SelectDefault(known, order), known}
    OBVIOUS
  <2>2. 0 \in 0 .. MaxLife /\ 1 \in 0 .. 2
    BY Numbers
  <2> DEFINE a == RefreshDefault(known, r, 0, 1, order)
             b == SelectDefault(known, order)
  <2>3. Sound(a) /\ SameAddress(known, a)
    BY <1>5, <2>2, RefreshDefaultSound
  <2>4. Sound(b) /\ SameAddress(known, b)
    BY <1>5, SelectDefaultSound
  <2>5. chosen \in {a, b, known}
    BY <2>1
  <2> HIDE DEF a, b, chosen
  <2>6. Sound(chosen) /\ (SameAddress(known, chosen) \/ chosen = known)
    BY <1>5, <2>3, <2>4, <2>5
  <2> QED BY <1>5, <2>6 DEF SameAddress
<1> HIDE DEF chosen
<1>7. /\ final \in HostState /\ InnerNamed(final) /\ final.static = final.gateway
      /\ final.slaac.on => final.address = "auto"
      /\ final.dad.on => final.address # "auto"
      /\ SameAddress(chosen, final)
  <2>1. chosen \in HostState /\ InnerNamed(chosen)
    BY <1>6, SoundNamed
  <2>2. f \in SUBSET Router
    BY <2>1, Fields
  <2> HIDE DEF f
  <2>3. final \in HostState
    BY <2>1, <2>2 DEF HostState
  <2>4. /\ final.static = chosen.static /\ final.gateway = chosen.gateway
        /\ final.raRoute = chosen.raRoute /\ final.rio = chosen.rio
        /\ final.address = chosen.address /\ final.slaac = chosen.slaac /\ final.dad = chosen.dad
    BY <2>1 DEF HostState
  <2> HIDE DEF final
  <2>5. InnerNamed(final)
    BY <2>1, <2>4, InnerSame
  <2> QED BY <1>6, <2>3, <2>4, <2>5 DEF Sound, SameAddress
<1> HIDE DEF final
<1>8. Sound(Reselect(final)) /\ SameAddress(final, Reselect(final))
  BY <1>7, ReselectSound
<1>9. Sound(Reselect(h)) /\ SameAddress(h, Reselect(h))
  BY SoundNamed, ReselectSound DEF Sound
<1>10. SameAddress(h, h) /\ SameAddress(h, Reselect(final))
  BY <1>6, <1>7, <1>8 DEF SameAddress
<1>11. k \in {Reselect(h), h, Reselect(final)}
  BY <1>1
<1> HIDE DEF k
<1>12. Sound(k) /\ SameAddress(h, k)
  BY <1>8, <1>9, <1>10, <1>11
<1> QED BY <1>12 DEF k

\* A Neighbour Advertisement received.
LEMMA ReceiveNaStep ==
    ASSUME Inv, NEW r \in Router, NEW na, ReceiveNa(r, na)
    PROVE  Inv' /\ LivesKept(host, host') /\ Event
<1>1. PICK order \in Orders : host' = Advertised(host, r, na, order)
  BY DEF ReceiveNa
<1>2. Event /\ heard' = heard
  BY DEF ReceiveNa
<1>3. Sound(host)
  BY DEF Inv
<1>4. Sound(host') /\ SameAddress(host, host')
  BY <1>1, <1>3, AdvertisedSound
<1> QED BY <1>2, <1>4, SideStep

-----------------------------------------------------------------------------
(* step_timers.                                                            *)

\* A sound host but for an inner route that may be over.
Ready(h) ==
    /\ h \in HostState
    /\ h.static = h.gateway
    /\ InnerNamed(h)
    /\ h.slaac.on => h.address = "auto"
    /\ h.dad.on => h.address # "auto"

\* A time stays a time, and an unlimited one unlimited.
LEMMA PassedType ==
    ASSUME NEW n \in Nat, NEW d \in Nat
    PROVE  Passed(n, d) \in Nat /\ (n \in Life => Passed(n, d) \in Life)
BY Numbers DEF Passed, Life

\* What is advertised grows older, entry by entry.
LEMMA OlderEntries ==
    ASSUME NEW s \in Seq(Entry), NEW d \in Nat
    PROVE  LET t == [i \in DOMAIN s |-> Older(s[i], d)]
           IN  t \in Seq(Entry) /\ (t = <<>> <=> s = <<>>)
<1> DEFINE t == [i \in DOMAIN s |-> Older(s[i], d)]
<1>1. Len(s) \in Nat /\ DOMAIN s = 1 .. Len(s) /\ \A i \in 1 .. Len(s) : s[i] \in Entry
  BY SeqFacts
<1>2. \A i \in 1 .. Len(s) : Older(s[i], d) \in Entry
  <2> SUFFICES ASSUME NEW i \in 1 .. Len(s) PROVE Older(s[i], d) \in Entry
    OBVIOUS
  <2>1. s[i].until \in Life /\ s[i].until \in Nat
    BY <1>1, Numbers DEF Entry
  <2>2. Passed(s[i].until, d) \in Life
    BY <2>1, PassedType
  <2> QED BY <1>1, <2>2 DEF Entry, Older
<1>3. t \in [1 .. Len(s) -> Entry]
  BY <1>1, <1>2
<1>4. t \in Seq(Entry) /\ Len(t) = Len(s)
  BY <1>1, <1>3
<1> HIDE DEF t
<1>5. t = <<>> <=> s = <<>>
  BY <1>4, EmptySeq
<1> QED BY <1>4, <1>5 DEF t

\* The Default Router List grows older.
LEMMA OlderLists ==
    ASSUME NEW s \in Lists, NEW d \in Nat
    PROVE  [i \in DOMAIN s |-> Older(s[i], d)] \in Lists
<1> DEFINE t == [i \in DOMAIN s |-> Older(s[i], d)]
<1>1. Len(s) \in Nat /\ DOMAIN s = 1 .. Len(s) /\ \A i \in 1 .. Len(s) : s[i] \in RouterEntry
  BY SeqFacts DEF Lists
<1>2. \A i \in 1 .. Len(s) : Older(s[i], d) \in RouterEntry
  <2> SUFFICES ASSUME NEW i \in 1 .. Len(s) PROVE Older(s[i], d) \in RouterEntry
    OBVIOUS
  <2>1. s[i].until \in Life /\ s[i].until \in Nat
    BY <1>1, Numbers DEF RouterEntry
  <2>2. Passed(s[i].until, d) \in Life
    BY <2>1, PassedType
  <2> QED BY <1>1, <2>2 DEF RouterEntry, Older
<1>3. t \in [1 .. Len(s) -> RouterEntry]
  BY <1>1, <1>2
<1> QED BY <1>1, <1>3 DEF Lists

\* Time passes.
LEMMA AgedFacts ==
    ASSUME NEW h, Sound(h), NEW d \in Nat
    PROVE  LET k == Aged(h, d)
           IN  /\ Ready(k) /\ k.gateway = h.gateway /\ k.address = h.address
               /\ k.dad.on = h.dad.on /\ k.slaac.on = h.slaac.on
               /\ k.discovery.status = h.discovery.status
<1> DEFINE k == Aged(h, d)
           l == [i \in DOMAIN h.routers |-> Older(h.routers[i], d)]
           old(s, r) == [i \in DOMAIN h.rio[s][r] |-> Older(h.rio[s][r][i], d)]
           rio == [s \in Scope |-> [r \in Router |-> old(s, r)]]
           ndp == [r \in Router |-> Waited(h.ndp[r], d)]
           disc == [h.discovery EXCEPT !.due = Passed(@, d)]
           dad == [h.dad EXCEPT !.due = Passed(@, d), !.valid = Passed(@, d), !.until = Passed(@, d)]
           slaac == [h.slaac EXCEPT !.valid = Passed(@, d)]
<1>1. h \in HostState
  BY DEF Sound
<1>2. k = [h EXCEPT !.routers = l, !.rio = rio, !.ndp = ndp, !.discovery = disc, !.dad = dad,
                    !.slaac = slaac]
  BY <1>1 DEF Aged, HostState
<1>3. l \in Lists
  BY <1>1, Fields, OlderLists
<1>4. \A s \in Scope, r \in Router : old(s, r) \in Seq(Entry) /\ (old(s, r) = <<>> <=> h.rio[s][r] = <<>>)
  <2> SUFFICES ASSUME NEW s \in Scope, NEW r \in Router
               PROVE  old(s, r) \in Seq(Entry) /\ (old(s, r) = <<>> <=> h.rio[s][r] = <<>>)
    OBVIOUS
  <2>1. h.rio[s][r] \in Seq(Entry)
    BY <1>1, Fields DEF Rio
  <2> QED BY <2>1, OlderEntries
<1> HIDE DEF old, l
<1>5. rio \in Rio /\ \A r \in Router : rio["inner"][r] = <<>> <=> h.rio["inner"][r] = <<>>
  BY <1>4 DEF Rio, Scope
<1>6. ndp \in Cache
  <2>1. h.ndp \in Cache
    BY <1>1, Fields
  <2>2. \A r \in Router : Waited(h.ndp[r], d) \in Neighbour
    <3> SUFFICES ASSUME NEW r \in Router PROVE Waited(h.ndp[r], d) \in Neighbour
      OBVIOUS
    <3>1. h.ndp[r] \in Neighbour
      BY <2>1 DEF Cache
    <3>2. Passed(h.ndp[r].due, d) \in Nat
      BY <3>1, PassedType DEF Neighbour
    <3> QED BY <3>1, <3>2 DEF Neighbour, Waited
  <2> QED BY <2>2 DEF Cache
<1>7. disc \in Discovery /\ disc.status = h.discovery.status
  <2>1. h.discovery \in Discovery
    BY <1>1, Fields
  <2>2. Passed(h.discovery.due, d) \in Nat
    BY <2>1, PassedType DEF Discovery
  <2> QED BY <2>1, <2>2 DEF Discovery
<1>8. dad \in Dad /\ dad.on = h.dad.on
  <2>1. h.dad \in Dad
    BY <1>1, Fields
  <2>2. /\ h.dad.due \in Nat /\ h.dad.valid \in Life /\ h.dad.until \in Life
        /\ h.dad.valid \in Nat /\ h.dad.until \in Nat
    BY <2>1, Numbers DEF Dad
  <2>3. /\ Passed(h.dad.due, d) \in Nat /\ Passed(h.dad.valid, d) \in Life
        /\ Passed(h.dad.until, d) \in Life
    BY <2>2, PassedType
  <2> QED BY <2>1, <2>3 DEF Dad
<1>9. slaac \in Slaac /\ slaac.on = h.slaac.on
  <2>1. h.slaac \in Slaac
    BY <1>1, Fields
  <2>2. h.slaac.valid \in Life /\ h.slaac.valid \in Nat
    BY <2>1, Numbers DEF Slaac
  <2>3. Passed(h.slaac.valid, d) \in Life
    BY <2>2, PassedType
  <2> QED BY <2>1, <2>3 DEF Slaac
<1> HIDE DEF rio, ndp, disc, dad, slaac, k
<1>10. k \in HostState
  BY <1>1, <1>2, <1>3, <1>5, <1>6, <1>7, <1>8, <1>9 DEF HostState
<1>11. /\ k.static = h.static /\ k.gateway = h.gateway /\ k.raRoute = h.raRoute
       /\ k.address = h.address /\ k.rio = rio /\ k.discovery = disc /\ k.dad = dad /\ k.slaac = slaac
  BY <1>1, <1>2 DEF HostState
<1>12. InnerNamed(k)
  <2>1. InnerNamed(h) /\ h.raRoute \in Hop
    BY <1>1, SoundNamed, Fields
  <2>2. h.raRoute # None => h.raRoute \in Router
    BY <2>1 DEF Hop
  <2> QED BY <1>5, <1>11, <2>1, <2>2 DEF InnerNamed
<1>13. Ready(k)
  BY <1>8, <1>9, <1>10, <1>11, <1>12 DEF Ready, Sound
<1> QED BY <1>7, <1>8, <1>9, <1>11, <1>13 DEF k

\* The next solicitation.
LEMMA DiscoveredFacts ==
    ASSUME NEW h, Ready(h)
    PROVE  LET k == Discovered(h)
           IN  Ready(k) /\ k.gateway = h.gateway /\ SameAddress(h, k)
<1> DEFINE k == Discovered(h)
<1>1. h \in HostState /\ h.discovery \in Discovery
  BY Fields DEF Ready
<1>2. \E x \in Discovery : k = [h EXCEPT !.discovery = x]
  <2>1. CASE h.discovery.status # "soliciting" \/ h.discovery.due > 0
    <3>1. k = h
      BY <2>1 DEF Discovered
    <3>2. h = [h EXCEPT !.discovery = h.discovery]
      BY <1>1 DEF HostState
    <3> QED BY <1>1, <3>1, <3>2
  <2>2. CASE ~(h.discovery.status # "soliciting" \/ h.discovery.due > 0) /\ h.discovery.sent + 1 >= MaxSolicits
    <3> DEFINE x == [Idle EXCEPT !.status = "exhausted"]
    <3>1. x \in Discovery
      BY DiscoveryStates
    <3>2. k = [h EXCEPT !.discovery = x]
      BY <2>2 DEF Discovered
    <3> HIDE DEF x
    <3> QED BY <3>1, <3>2
  <2>3. CASE ~(h.discovery.status # "soliciting" \/ h.discovery.due > 0) /\ ~(h.discovery.sent + 1 >= MaxSolicits)
    <3> DEFINE x == [h.discovery EXCEPT !.sent = @ + 1, !.due = Interval]
    <3>1. h.discovery.sent \in Nat /\ MaxSolicits \in Nat /\ Interval \in Nat
      BY <1>1, Numbers DEF Discovery
    <3>2. h.discovery.sent + 1 \in 0 .. MaxSolicits - 1
      BY <2>3, <3>1
    <3>3. x \in Discovery
      BY <1>1, <3>1, <3>2 DEF Discovery
    <3>4. k = [h EXCEPT !.discovery = x]
      BY <2>3 DEF Discovered
    <3> HIDE DEF x
    <3> QED BY <3>3, <3>4
  <2> QED BY <2>1, <2>2, <2>3
<1> HIDE DEF k
<1>3. PICK x \in Discovery : k = [h EXCEPT !.discovery = x]
  BY <1>2
<1>4. k \in HostState
  BY <1>1, <1>3 DEF HostState
<1>5. /\ k.static = h.static /\ k.gateway = h.gateway /\ k.raRoute = h.raRoute /\ k.rio = h.rio
      /\ k.address = h.address /\ k.slaac = h.slaac /\ k.dad = h.dad
  BY <1>1, <1>3 DEF HostState
<1>6. InnerNamed(k)
  BY <1>5, InnerSame DEF Ready
<1> QED BY <1>4, <1>5, <1>6 DEF Ready, SameAddress, k

\* A choice of the inner route brings a ready host to a sound one.
LEMMA ReadyChosen ==
    ASSUME NEW h, Ready(h), NEW k \in HostState, k = [h EXCEPT !.raRoute = k.raRoute], InnerBest(k)
    PROVE  /\ Sound(k) /\ Ready(k) /\ SameAddress(h, k) /\ k.gateway = h.gateway
           /\ k.discovery = h.discovery /\ k.rio = h.rio /\ k.failed = h.failed
<1>1. h \in HostState
  BY DEF Ready
<1>2. Sound(k) /\ SameAddress(h, k)
  BY <1>1, SoundChosen DEF Ready
<1>3. k.gateway = h.gateway /\ k.discovery = h.discovery /\ k.rio = h.rio /\ k.failed = h.failed
  BY <1>1 DEF HostState
<1>4. InnerNamed(k)
  BY BestIsOk
<1> QED BY <1>2, <1>3, <1>4 DEF Sound, Ready

\* The routers NUD gave up are taken from the inner prefix.
LEMMA WithoutFailedFacts ==
    ASSUME NEW h, Ready(h), NEW gone \in SUBSET Router
    PROVE  LET k == WithoutFailed(h, gone)
           IN  /\ Sound(k) /\ InnerBest(k) /\ SameAddress(h, k) /\ k.gateway = h.gateway
               /\ k.discovery = h.discovery
<1> DEFINE k == WithoutFailed(h, gone)
           affected == \E r \in gone : h.rio["inner"][r] # <<>>
           f == h.failed \cup gone
           inner == [r \in Router |-> IF r \in gone THEN <<>> ELSE h.rio["inner"][r]]
           rio == [h.rio EXCEPT !["inner"] = inner]
           less == [h EXCEPT !.failed = f, !.rio = rio]
           next == IF affected THEN SelectInner(less) ELSE less
<1>1. h \in HostState
  BY DEF Ready
<1>2. k = Reselect(next)
  <2>1. less = [h EXCEPT !.failed = @ \cup gone,
                         !.rio["inner"] = [r \in Router |-> IF r \in gone THEN <<>> ELSE @[r]]]
    OBVIOUS
  <2> QED BY <2>1 DEF WithoutFailed
<1>3. f \in SUBSET Router
  BY <1>1, Fields
<1>4. rio \in Rio /\ rio["inner"] = inner
  <2>1. h.rio \in Rio /\ "inner" \in Scope
    BY <1>1, Fields DEF Scope
  <2>2. inner \in [Router -> Seq(Entry)]
    <3>1. \A r \in Router : h.rio["inner"][r] \in Seq(Entry)
      BY <1>1, PerRouter
    <3> QED BY <3>1
  <2> HIDE DEF inner
  <2> QED BY <2>1, <2>2 DEF Rio
<1>5. \A r \in Router : r \notin gone => inner[r] = h.rio["inner"][r]
  OBVIOUS
<1> HIDE DEF f, rio, inner
<1>6. less \in HostState
  BY <1>1, <1>3, <1>4 DEF HostState
<1>7. /\ less.static = h.static /\ less.gateway = h.gateway /\ less.raRoute = h.raRoute
      /\ less.rio = rio /\ less.address = h.address /\ less.slaac = h.slaac /\ less.dad = h.dad
      /\ less.discovery = h.discovery
  BY <1>1 DEF HostState
<1> HIDE DEF less
<1>8. /\ less.static = less.gateway
      /\ less.slaac.on => less.address = "auto"
      /\ less.dad.on => less.address # "auto"
      /\ SameAddress(h, less)
  BY <1>7 DEF Ready, SameAddress
<1>9. Ready(next) /\ SameAddress(h, next) /\ next.gateway = h.gateway /\ next.discovery = h.discovery
  <2>1. CASE affected
    <3> DEFINE c == SelectInner(less)
    <3>1. c \in HostState /\ c = [less EXCEPT !.raRoute = c.raRoute] /\ InnerBest(c)
      BY <1>6, SelectInnerFacts
    <3>2. next = c
      BY <2>1
    <3> HIDE DEF c, next
    <3>3. Sound(c) /\ SameAddress(less, c)
      BY <1>6, <1>8, <3>1, SoundChosen
    <3>4. c.gateway = less.gateway /\ c.discovery = less.discovery
      BY <1>6, <3>1 DEF HostState
    <3>5. InnerNamed(c)
      BY <3>1, BestIsOk
    <3>6. Ready(c)
      BY <3>3, <3>5 DEF Sound, Ready
    <3> QED BY <1>7, <1>8, <3>2, <3>3, <3>4, <3>6 DEF SameAddress
  <2>2. CASE ~affected
    <3>1. next = less
      BY <2>2
    <3>2. InnerNamed(less)
      <4>1. InnerNamed(h) /\ h.raRoute \in Hop
        BY <1>1, Fields DEF Ready
      <4>2. h.raRoute # None => h.raRoute \in Router /\ h.raRoute \notin gone
        BY <2>2, <4>1 DEF InnerNamed, Hop
      <4> HIDE DEF affected
      <4> QED BY <1>4, <1>5, <1>7, <4>1, <4>2 DEF InnerNamed
    <3> HIDE DEF next, affected
    <3> QED BY <1>6, <1>7, <1>8, <3>1, <3>2 DEF Ready
  <2> QED BY <2>1, <2>2
<1> HIDE DEF next, k
<1>10. k \in HostState /\ k = [next EXCEPT !.raRoute = k.raRoute] /\ InnerBest(k)
  BY <1>2, <1>9, ReselectFacts DEF Ready
<1>11. Sound(k) /\ SameAddress(next, k) /\ k.gateway = next.gateway /\ k.discovery = next.discovery
  BY <1>9, <1>10, ReadyChosen
<1> QED BY <1>9, <1>10, <1>11 DEF SameAddress, k

\* step_nud and the routes of the routers it gave up.
LEMMA ProbedFacts ==
    ASSUME NEW h, Ready(h)
    PROVE  LET k == Probed(h)
           IN  /\ Sound(k) /\ InnerBest(k) /\ SameAddress(h, k) /\ k.gateway = h.gateway
               /\ k.discovery = h.discovery
<1> DEFINE k == Probed(h)
           ndp == [r \in Router |-> StepNud(h.ndp[r])]
           n == [h EXCEPT !.ndp = ndp]
           lost(r) == h.ndp[r].state # "none" /\ n.ndp[r].state = "none"
           gone == {r \in Router : lost(r) /\ \E s \in Scope : h.rio[s][r] # <<>>}
<1>1. h \in HostState
  BY DEF Ready
<1>2. k = WithoutFailed(n, gone)
  BY DEF Probed
<1>3. gone \in SUBSET Router
  OBVIOUS
<1>4. ndp \in Cache
  <2>1. \A r \in Router : StepNud(h.ndp[r]) \in Neighbour
    BY <1>1, PerRouter, NeighbourTypes
  <2> QED BY <2>1 DEF Cache
<1> HIDE DEF gone, ndp
<1>5. n \in HostState
  BY <1>1, <1>4 DEF HostState
<1>6. /\ n.static = h.static /\ n.gateway = h.gateway /\ n.raRoute = h.raRoute /\ n.rio = h.rio
      /\ n.address = h.address /\ n.slaac = h.slaac /\ n.dad = h.dad /\ n.discovery = h.discovery
  BY <1>1 DEF HostState
<1> HIDE DEF n, k
<1>7. Ready(n) /\ SameAddress(h, n)
  BY <1>5, <1>6, InnerSame DEF Ready, SameAddress
<1>8. /\ Sound(k) /\ InnerBest(k) /\ SameAddress(n, k) /\ k.gateway = n.gateway
      /\ k.discovery = n.discovery
  BY <1>2, <1>3, <1>7, WithoutFailedFacts
<1> QED BY <1>6, <1>7, <1>8 DEF SameAddress, k

\* The choice of a default router leaves the inner route alone.
LEMMA SelectDefaultBest ==
    ASSUME NEW h, Sound(h), InnerBest(h), NEW order \in Orders
    PROVE  LET k == SelectDefault(h, order)
           IN  /\ Sound(k) /\ InnerBest(k) /\ GatewayBest(k) /\ SameAddress(h, k)
               /\ k.discovery = h.discovery
<1> DEFINE k == SelectDefault(h, order)
<1>1. h \in HostState
  BY DEF Sound
<1>2. KeepsRest(h, k) /\ k.rio = h.rio /\ GatewayBest(k)
  BY <1>1, SelectDefaultFacts
<1>3. Sound(k) /\ SameAddress(h, k) /\ k.discovery = h.discovery
  BY SelectDefaultSound
<1> HIDE DEF k
<1>4. InnerBest(k)
  BY <1>2, BestSame DEF KeepsRest
<1> QED BY <1>2, <1>3, <1>4 DEF k

\* A default router NUD gave up is given up as the gateway.
LEMMA GatewayProbedFacts ==
    ASSUME NEW h \in HostState, NEW n, Sound(n), InnerBest(n), NEW order \in Orders
    PROVE  LET k == GatewayProbed(h, n, order)
           IN  Sound(k) /\ InnerBest(k) /\ SameAddress(n, k) /\ k.discovery = n.discovery
<1> DEFINE k == GatewayProbed(h, n, order)
           g == h.gateway
           c == g # None /\ Candidate(h, g) /\ h.ndp[g].state # "none" /\ n.ndp[g].state = "none"
           u == [Unlisted(n, g) EXCEPT !.rio["default"][g] = <<>>]
<1>1. k = IF c THEN SelectDefault(u, order) ELSE n
  BY DEF GatewayProbed
<1>2. CASE ~c
  BY <1>1, <1>2 DEF SameAddress
<1>3. CASE c
  <2>1. g \in Router /\ n \in HostState
    BY <1>3, Fields DEF Hop, Sound
  <2>2. PICK l \in Lists : Unlisted(n, g) = [n EXCEPT !.routers = l]
    BY <2>1, UnlistedIs
  <2> DEFINE m == [n EXCEPT !.routers = l]
  <2>3. Sound(m) /\ SameAddress(n, m)
    BY ListSound
  <2>4. m.rio = n.rio /\ m.failed = n.failed /\ m.ndp = n.ndp /\ m.raRoute = n.raRoute
        /\ m.discovery = n.discovery
    BY <2>1 DEF HostState
  <2>5. u = [m EXCEPT !.rio["default"][g] = <<>>]
    BY <2>2
  <2> HIDE DEF m, u, g, c
  <2>6. m \in HostState /\ <<>> \in Seq(Entry) /\ "default" \in Scope
    BY <2>3 DEF Sound, Scope
  <2>7. /\ u \in HostState /\ KeepsRest(m, u) /\ u.dad = m.dad
        /\ u.gateway = m.gateway /\ u.static = m.static
        /\ u.rio["inner"] = m.rio["inner"]
    <3> DEFINE scope == "default"
               e == <<>>
    <3>1. scope \in Scope /\ e \in Seq(Entry) /\ u = [m EXCEPT !.rio[scope][g] = e] /\ scope = "default"
      BY <2>5, <2>6
    <3> HIDE DEF scope, e
    <3>2. /\ u \in HostState /\ KeepsRest(m, u) /\ u.dad = m.dad
          /\ u.gateway = m.gateway /\ u.static = m.static
          /\ scope = "default" => u.rio["inner"] = m.rio["inner"]
      BY <2>1, <2>6, <3>1, RioWith
    <3> QED BY <3>1, <3>2
  <2>8. SameAddress(m, u) /\ u.raRoute = m.raRoute /\ u.failed = m.failed /\ u.ndp = m.ndp
        /\ u.discovery = m.discovery
    BY <2>7 DEF KeepsRest, SameAddress
  <2>9. Sound(u)
    BY <2>3, <2>7, <2>8, SoundKept DEF Sound
  <2>10. InnerBest(u)
    BY <2>4, <2>7, <2>8, BestSame
  <2>11. k = SelectDefault(u, order)
    BY <1>1, <1>3
  <2> HIDE DEF k
  <2>12. Sound(k) /\ InnerBest(k) /\ SameAddress(u, k) /\ k.discovery = u.discovery
    BY <2>9, <2>10, <2>11, SelectDefaultBest
  <2> QED BY <2>3, <2>4, <2>8, <2>12 DEF SameAddress, k
<1> QED BY <1>2, <1>3

\* RFC 4191 routes whose lifetime is over go, and the rest is chosen from.
LEMMA RoutesExpiredFacts ==
    ASSUME NEW h, Sound(h), InnerBest(h), NEW order \in Orders
    PROVE  LET k == RoutesExpired(h, order)
           IN  Sound(k) /\ InnerBest(k) /\ SameAddress(h, k) /\ k.discovery = h.discovery
<1> DEFINE k == RoutesExpired(h, order)
           over(s) == {r \in Router : h.rio[s][r] # <<>> /\ Head(h.rio[s][r]).until = 0}
           rio == [s \in Scope |-> [r \in Router |-> IF r \in over(s) THEN <<>> ELSE h.rio[s][r]]]
           less == [h EXCEPT !.rio = rio]
           inner == IF over("inner") = {} THEN less ELSE SelectInner(less)
<1>1. h \in HostState
  BY DEF Sound
<1>2. k = IF over("default") = {} THEN inner ELSE SelectDefault(inner, order)
  BY DEF RoutesExpired
<1>3. rio \in Rio
  <2>1. \A s \in Scope, r \in Router : h.rio[s][r] \in Seq(Entry)
    BY <1>1, Fields DEF Rio
  <2> HIDE DEF over
  <2> QED BY <2>1 DEF Rio
<1>4. over("inner") = {} => rio["inner"] = h.rio["inner"]
  <2>1. "inner" \in Scope /\ h.rio["inner"] \in [Router -> Seq(Entry)]
    BY <1>1, Fields DEF Rio, Scope
  <2> HIDE DEF over
  <2> QED BY <2>1
<1> HIDE DEF rio, over
<1>5. less \in HostState
  BY <1>1, <1>3 DEF HostState
<1>6. /\ less.static = h.static /\ less.gateway = h.gateway /\ less.raRoute = h.raRoute
      /\ less.rio = rio /\ less.address = h.address /\ less.slaac = h.slaac /\ less.dad = h.dad
      /\ less.discovery = h.discovery /\ less.failed = h.failed /\ less.ndp = h.ndp
  BY <1>1 DEF HostState
<1> HIDE DEF less
<1>7. /\ less.static = less.gateway
      /\ less.slaac.on => less.address = "auto"
      /\ less.dad.on => less.address # "auto"
      /\ SameAddress(h, less)
  BY <1>6 DEF Sound, SameAddress
<1>8. Sound(inner) /\ InnerBest(inner) /\ SameAddress(h, inner) /\ inner.discovery = h.discovery
  <2>1. CASE over("inner") = {}
    <3>1. inner = less /\ less.rio["inner"] = h.rio["inner"]
      BY <1>4, <1>6, <2>1
    <3>2. Sound(less)
      BY <1>5, <1>6, <1>7, <3>1, SoundKept
    <3>3. InnerBest(less)
      BY <1>6, <3>1, BestSame
    <3> HIDE DEF inner
    <3> QED BY <1>6, <1>7, <3>1, <3>2, <3>3
  <2>2. CASE over("inner") # {}
    <3> DEFINE c == SelectInner(less)
    <3>1. c \in HostState /\ c = [less EXCEPT !.raRoute = c.raRoute] /\ InnerBest(c)
      BY <1>5, SelectInnerFacts
    <3>2. inner = c
      BY <2>2
    <3> HIDE DEF c, inner
    <3>3. Sound(c) /\ SameAddress(less, c)
      BY <1>5, <1>7, <3>1, SoundChosen
    <3>4. c.discovery = less.discovery
      BY <1>5, <3>1 DEF HostState
    <3> QED BY <1>6, <1>7, <3>1, <3>2, <3>3, <3>4 DEF SameAddress
  <2> QED BY <2>1, <2>2
<1> HIDE DEF inner
<1> DEFINE m == SelectDefault(inner, order)
<1>9. Sound(m) /\ InnerBest(m) /\ SameAddress(inner, m) /\ m.discovery = inner.discovery
  BY <1>8, SelectDefaultBest
<1>10. k = inner \/ k = m
  BY <1>2
<1> HIDE DEF m, k
<1>11. Sound(k) /\ InnerBest(k) /\ SameAddress(h, k) /\ k.discovery = h.discovery
  BY <1>8, <1>9, <1>10 DEF SameAddress
<1> QED BY <1>11 DEF k

\* The end of duplicate address detection: the address is taken, with what was
\* left of its lifetime, or nothing of the kind happens.
LEMMA DadDoneFacts ==
    ASSUME NEW h, Sound(h), InnerBest(h)
    PROVE  LET k == DadDone(h)
           IN  /\ Sound(k) /\ InnerBest(k) /\ k.discovery = h.discovery
               /\ k.dad.on => h.dad.on
               /\ \/ h.dad.on /\ k.address = "auto" /\ k.slaac.valid # 0
                  \/ k.address = h.address /\ k.slaac = h.slaac /\ k.gateway = h.gateway
<1> DEFINE k == DadDone(h)
           g == IF h.dad.until > 0 THEN h.dad.gateway ELSE None
           valid == h.dad.valid
<1>1. h \in HostState /\ h.dad \in Dad /\ h.duplicate \in BOOLEAN
  BY Fields DEF Sound
<1>2. g \in Hop /\ valid \in Life
  BY <1>1, Numbers DEF Dad
<1>3. CASE ~h.dad.on \/ h.dad.due > 0
  <2>1. k = h
    BY <1>3 DEF DadDone
  <2> QED BY <2>1
<1>4. CASE ~(~h.dad.on \/ h.dad.due > 0) /\ valid = 0
  <2> DEFINE x == NoDad
  <2>1. k = [h EXCEPT !.dad = x]
    BY <1>4 DEF DadDone
  <2>2. x \in Dad /\ ~x.on
    BY NewLists
  <2> HIDE DEF x, k
  <2>3. k = [h EXCEPT !.dad = x, !.duplicate = k.duplicate]
    BY <1>1, <2>1 DEF HostState
  <2>4. k.duplicate = h.duplicate /\ k.raRoute = h.raRoute /\ k.rio = h.rio /\ k.failed = h.failed
        /\ k.ndp = h.ndp /\ k.gateway = h.gateway /\ k.discovery = h.discovery
    BY <1>1, <2>1 DEF HostState
  <2>5. k.duplicate \in BOOLEAN
    BY <1>1, <2>4
  <2>6. x \in Dad /\ (x.on => h.address # "auto")
    BY <2>2
  <2>7. Sound(k) /\ k.address = h.address /\ k.slaac = h.slaac /\ k.dad = x
    BY <2>3, <2>5, <2>6, WithDad
  <2>8. InnerBest(k)
    BY <2>4, BestSame
  <2>9. k.dad.on => h.dad.on
    BY <2>2, <2>7
  <2> QED BY <2>4, <2>7, <2>8, <2>9 DEF k
<1>5. CASE ~(~h.dad.on \/ h.dad.due > 0) /\ valid # 0
  <2> DEFINE c == Configured(h, "auto", g)
             x == [on |-> TRUE, valid |-> valid]
  <2>1. k = [c EXCEPT !.slaac = x]
    BY <1>5 DEF DadDone
  <2>2. x \in Slaac /\ x.valid = valid
    BY <1>2 DEF Slaac
  <2>3. "auto" \in AddressKind
    BY DEF AddressKind
  <2> HIDE DEF g
  <2>4. Sound(c) /\ InnerBest(c) /\ ~c.dad.on /\ c.address = "auto" /\ c.discovery = h.discovery
    BY <1>2, <2>3, ConfiguredSound
  <2> HIDE DEF c, x, k
  <2>5. Sound(k) /\ k.address = c.address /\ k.slaac = x /\ k.dad = c.dad
    BY <2>1, <2>2, <2>4, WithSlaac
  <2>6. c \in HostState
    BY <2>4 DEF Sound
  <2>7. /\ k.raRoute = c.raRoute /\ k.rio = c.rio /\ k.failed = c.failed /\ k.ndp = c.ndp
        /\ k.discovery = c.discovery
    BY <2>1, <2>6 DEF HostState
  <2>8. InnerBest(k)
    BY <2>4, <2>7, BestSame
  <2>9. h.dad.on /\ k.slaac.valid # 0
    BY <1>5, <2>2, <2>5
  <2> QED BY <2>4, <2>5, <2>7, <2>8, <2>9 DEF k
<1> QED BY <1>3, <1>4, <1>5

\* expire_ipv6_default_routers
LEMMA ExpireDefaultFacts ==
    ASSUME NEW h, Sound(h), InnerBest(h), NEW order \in Orders
    PROVE  LET k == ExpireDefault(h, order)
           IN  /\ Sound(k) /\ InnerBest(k) /\ GatewayBest(k) /\ SameAddress(h, k)
               /\ k.discovery = h.discovery
<1> DEFINE k == ExpireDefault(h, order)
           keep == {i \in DOMAIN h.routers : h.routers[i].until > 0}
           l == Retain(h.routers, keep)
           m == [h EXCEPT !.routers = l]
<1>1. h \in HostState /\ h.routers \in Seq(RouterEntry)
  BY Fields DEF Sound, Lists
<1>2. keep \in SUBSET (DOMAIN h.routers)
  OBVIOUS
<1>3. k = SelectDefault(m, order)
  BY DEF ExpireDefault
<1> HIDE DEF keep
<1>4. l \in Lists
  BY <1>1, <1>2, RetainType DEF Lists
<1> HIDE DEF l
<1>5. Sound(m) /\ SameAddress(h, m)
  BY <1>4, ListSound
<1>6. /\ m.raRoute = h.raRoute /\ m.rio = h.rio /\ m.failed = h.failed /\ m.ndp = h.ndp
      /\ m.discovery = h.discovery
  BY <1>1 DEF HostState
<1> HIDE DEF m, k
<1>7. InnerBest(m)
  BY <1>6, BestSame
<1>8. /\ Sound(k) /\ InnerBest(k) /\ GatewayBest(k) /\ SameAddress(m, k)
      /\ k.discovery = m.discovery
  BY <1>3, <1>5, <1>7, SelectDefaultBest
<1> QED BY <1>5, <1>6, <1>8 DEF SameAddress, k

\* A call of step_timers, from its parts.
LEMMA SteppedFacts ==
    ASSUME NEW h0, Sound(h0), NEW d \in Nat, NEW order \in Orders
    PROVE  LET k == Stepped(h0, d, order)
           IN  /\ Sound(k) /\ InnerBest(k) /\ GatewayBest(k)
               /\ k.dad.on => h0.dad.on
               /\ k.address = "auto" => h0.address = "auto" \/ h0.dad.on
               /\ h0.gateway # None /\ k.gateway = None
                  /\ ~(h0.address # "auto" /\ k.address = "auto")
                  /\ ~(h0.address = "auto" /\ k.address = "none") =>
                     h0.discovery.status = "soliciting" \/ k.discovery.status = "soliciting"
<1> DEFINE k == Stepped(h0, d, order)
           h == Aged(h0, d)
           discovered == Discovered(h)
           given == Probed(discovered)
           probed == GatewayProbed(discovered, given, order)
           expired == RoutesExpired(probed, order)
           taken == DadDone(expired)
           final == ExpireDefault(taken, order)
           lost(a, b) == a.gateway # None /\ b.gateway = None
           over == taken.slaac.on /\ taken.slaac.valid = 0
           again == Restarts(h.discovery.status = "soliciting", lost(discovered, probed),
                             lost(probed, expired), lost(taken, final))
<1>1. k = IF over THEN Cleared(taken) ELSE IF again THEN Soliciting(final) ELSE final
  BY DEF Stepped
<1>2. /\ Ready(h) /\ h.gateway = h0.gateway /\ h.address = h0.address
      /\ h.dad.on = h0.dad.on /\ h.slaac.on = h0.slaac.on
      /\ h.discovery.status = h0.discovery.status
  BY AgedFacts
<1>3. again <=> /\ ~(h.discovery.status = "soliciting")
                /\ lost(discovered, probed) \/ lost(probed, expired) \/ lost(taken, final)
  BY DEF Restarts
<1> HIDE DEF h, again, k
<1>4. Ready(discovered) /\ discovered.gateway = h.gateway /\ SameAddress(h, discovered)
  BY <1>2, DiscoveredFacts
<1> HIDE DEF discovered
<1>5. Sound(given) /\ InnerBest(given) /\ SameAddress(discovered, given)
  BY <1>4, ProbedFacts
<1> HIDE DEF given
<1>6. Sound(probed) /\ InnerBest(probed) /\ SameAddress(given, probed)
  BY <1>4, <1>5, GatewayProbedFacts DEF Ready
<1> HIDE DEF probed
<1>7. Sound(expired) /\ InnerBest(expired) /\ SameAddress(probed, expired)
  BY <1>6, RoutesExpiredFacts
<1> HIDE DEF expired
<1>8. /\ Sound(taken) /\ InnerBest(taken)
      /\ taken.dad.on => expired.dad.on
      /\ \/ expired.dad.on /\ taken.address = "auto" /\ taken.slaac.valid # 0
         \/ taken.address = expired.address /\ taken.slaac = expired.slaac
            /\ taken.gateway = expired.gateway
  BY <1>7, DadDoneFacts
<1> HIDE DEF taken
<1>9. Sound(final) /\ InnerBest(final) /\ GatewayBest(final) /\ SameAddress(taken, final)
  BY <1>8, ExpireDefaultFacts
<1> HIDE DEF final
<1>10. expired.address = h0.address /\ expired.dad.on = h0.dad.on /\ expired.slaac.on = h0.slaac.on
  BY <1>2, <1>4, <1>5, <1>6, <1>7 DEF SameAddress
<1>11. CASE over
  <2>1. k = Cleared(taken)
    BY <1>1, <1>11
  <2>2. /\ Sound(k) /\ InnerBest(k) /\ GatewayBest(k) /\ ~k.dad.on /\ k.address = "none"
    BY <1>8, <2>1, ClearedSound
  <2>3. h0.address = "auto"
    BY <1>8, <1>10, <1>11 DEF Sound
  <2> QED BY <2>2, <2>3 DEF k
<1>12. CASE ~over
  <2>1. h0.dad.on => h0.address # "auto"
    BY DEF Sound
  <2>2. /\ final.dad.on => h0.dad.on
        /\ final.address = "auto" => h0.address = "auto" \/ h0.dad.on
    BY <1>8, <1>9, <1>10 DEF SameAddress
  <2>3. ASSUME h0.gateway # None, final.gateway = None,
               ~(h0.address # "auto" /\ final.address = "auto")
        PROVE  h0.discovery.status = "soliciting" \/ again
    <3>1. taken.gateway = expired.gateway
      BY <1>8, <1>9, <1>10, <2>1, <2>3 DEF SameAddress
    <3>2. discovered.gateway # None
      BY <1>2, <1>4, <2>3
    <3>3. lost(discovered, probed) \/ lost(probed, expired) \/ lost(taken, final)
      BY <2>3, <3>1, <3>2
    <3> QED BY <1>2, <1>3, <3>3
  <2>4. CASE ~again
    <3>1. k = final
      BY <1>1, <1>12, <2>4
    <3> HIDE DEF over
    <3> QED BY <1>9, <2>2, <2>3, <2>4, <3>1 DEF k
  <2>5. CASE again
    <3> DEFINE x == [status |-> "soliciting", sent |-> 1, due |-> Interval]
    <3>1. k = [final EXCEPT !.discovery = x]
      BY <1>1, <1>12, <2>5 DEF Soliciting
    <3>2. x \in Discovery /\ x.status = "soliciting"
      BY DiscoveryStates
    <3> HIDE DEF x
    <3>3. /\ Sound(k) /\ SameAddress(final, k) /\ k.gateway = final.gateway
          /\ k.routers = final.routers /\ k.rio = final.rio /\ k.ndp = final.ndp
          /\ k.raRoute = final.raRoute /\ k.failed = final.failed /\ k.discovery = x
      BY <1>9, <3>1, <3>2, DiscoverySound
    <3>4. InnerBest(k)
      BY <1>9, <3>3, BestSame
    <3>5. GatewayBest(k)
      <4>1. Usable(k) = Usable(final) /\ \A r : GatewayScore(k, r) = GatewayScore(final, r)
        BY <3>3, GatewaySame
      <4> QED BY <1>9, <3>3, <4>1 DEF GatewayBest
    <3>6. /\ k.dad.on => h0.dad.on
          /\ k.address = "auto" => h0.address = "auto" \/ h0.dad.on
      BY <2>2, <3>3 DEF SameAddress
    <3> QED BY <3>2, <3>3, <3>4, <3>5, <3>6 DEF k
  <2> QED BY <2>4, <2>5
<1> QED BY <1>11, <1>12

-----------------------------------------------------------------------------
(* Theorems.                                                               *)

\* The initial state.
LEMMA InvInit == Init => Inv
<1> SUFFICES ASSUME Init PROVE Inv
  OBVIOUS
<1>1. Sound(host)
  BY NewHostSound DEF Init
<1>2. ~host.dad.on
  BY NewLists DEF Init, NewHost
<1>3. heard \in BOOLEAN /\ events \in 0 .. MaxEvents
  <2>1. heard \in BOOLEAN
    BY DEF Init
  <2>2. events \in 0 .. MaxEvents
    BY Numbers DEF Init
  <2> QED BY <2>1, <2>2
<1> QED BY <1>1, <1>2, <1>3 DEF Inv, Tentative

\* What a call of step_timers does.
LEMMA StepTimersStep ==
    ASSUME Inv, NEW d \in Jumps, StepTimers(d)
    PROVE  /\ Inv' /\ InnerBest(host') /\ GatewayBest(host')
           /\ host'.address = "auto" => host.address = "auto" \/ ~heard
           /\ ~AddressTaken /\ ~AddressExpired /\ host.gateway # None /\ host'.gateway = None =>
                 "soliciting" \in {host.discovery.status, host'.discovery.status}
           /\ UNCHANGED events
<1>1. PICK order \in Orders : host' = Stepped(host, d, order)
  BY DEF StepTimers
<1>2. d \in Nat /\ Sound(host)
  BY HostAssumption DEF Inv
<1>3. /\ Sound(host') /\ InnerBest(host') /\ GatewayBest(host')
      /\ host'.dad.on => host.dad.on
      /\ host'.address = "auto" => host.address = "auto" \/ host.dad.on
      /\ ~AddressTaken /\ ~AddressExpired /\ host.gateway # None /\ host'.gateway = None =>
            host.discovery.status = "soliciting" \/ host'.discovery.status = "soliciting"
  BY <1>1, <1>2, SteppedFacts DEF AddressTaken, AddressExpired
<1>4. heard' = heard /\ events' = events
  BY DEF StepTimers
<1>5. host.dad.on => ~heard
  BY DEF Inv, Tentative
<1>6. Inv'
  BY <1>3, <1>4, <1>5 DEF Inv, Tentative
<1> QED BY <1>3, <1>4, <1>5, <1>6

\* Every step is a call of step_timers, or handles an event and keeps lifetimes.
LEMMA InvStep ==
    ASSUME Inv, Next
    PROVE  /\ Inv'
           /\ \/ \E d \in Jumps : StepTimers(d)
              \/ LivesKept(host, host') /\ Event
<1>1. ASSUME NEW d \in Jumps, StepTimers(d) PROVE Inv' /\ \E e \in Jumps : StepTimers(e)
  BY <1>1, StepTimersStep
<1>2. ASSUME NEW r \in Router, NEW ra \in Adverts[r], ReceiveAdvert(r, ra)
      PROVE  Inv' /\ LivesKept(host, host') /\ Event
  BY <1>2, ReceiveAdvertStep
<1>3. ASSUME NEW r \in Router, NEW na \in Na, ReceiveNa(r, na)
      PROVE  Inv' /\ LivesKept(host, host') /\ Event
  BY <1>3, ReceiveNaStep
<1>4. ASSUME NEW r \in Router, NEW option \in Option, ReceiveNs(r, option)
      PROVE  Inv' /\ LivesKept(host, host') /\ Event
  BY <1>4, ReceiveNsStep
<1>5. ASSUME NEW advertised \in BOOLEAN, Conflict(advertised)
      PROVE  Inv' /\ LivesKept(host, host') /\ Event
  BY <1>5, ConflictStep
<1>6. ASSUME NEW r \in Router, NEW target \in Router, NEW option \in Option,
             ReceiveRedirect(r, target, option)
      PROVE  Inv' /\ LivesKept(host, host') /\ Event
  BY <1>6, ReceiveRedirectStep
<1>7. ASSUME NEW address \in {"manual", "auto"}, NEW g \in Router \cup {None}, Configure(address, g)
      PROVE  Inv' /\ LivesKept(host, host') /\ Event
  BY <1>7, ConfigureStep DEF Hop
<1>8. Send => Inv' /\ LivesKept(host, host') /\ Event
  BY SendStep
<1>9. Clear => Inv' /\ LivesKept(host, host') /\ Event
  BY ClearStep
<1>10. StartRouterDiscovery \/ CancelRouterDiscovery => Inv' /\ LivesKept(host, host') /\ Event
  BY DiscoveryStep
<1> QED BY <1>1, <1>2, <1>3, <1>4, <1>5, <1>6, <1>7, <1>8, <1>9, <1>10 DEF Next

\* The invariant is inductive.
LEMMA InvNext == Inv /\ [Next]_vars => Inv'
<1> SUFFICES ASSUME Inv, [Next]_vars PROVE Inv'
  OBVIOUS
<1>1. CASE Next
  BY <1>1, InvStep
<1>2. CASE UNCHANGED vars
  BY <1>2 DEF Inv, vars
<1> QED BY <1>1, <1>2

\* The invariant implies what the run checks.
LEMMA InvSound == Inv => RoutesSound
<1> SUFFICES ASSUME Inv PROVE RoutesSound
  OBVIOUS
<1>1. Sound(host) /\ host \in HostState
  BY DEF Inv, Sound
<1>2. TypeOK
  <2>1. /\ host.gateway \in Hop /\ host.static \in Hop /\ host.raRoute \in Hop /\ host.routers \in Lists
        /\ host.rio \in Rio /\ host.failed \in SUBSET Router /\ host.ndp \in Cache
        /\ host.parked \in SUBSET Hop /\ host.redirect \in Redirect /\ host.discovery \in Discovery
        /\ host.address \in AddressKind /\ host.dad \in Dad /\ host.duplicate \in BOOLEAN
        /\ host.slaac \in Slaac
    BY <1>1, Fields
  <2>2. /\ host.discovery.status \in {"idle", "soliciting", "exhausted"}
        /\ host.discovery.sent < MaxSolicits
    BY <2>1, Numbers DEF Discovery
  <2>3. host.dad.valid \in Life /\ host.slaac.valid \in Life /\ host.dad.on \in BOOLEAN /\ host.slaac.on \in BOOLEAN
    BY <2>1 DEF Dad, Slaac
  <2>4. heard \in BOOLEAN /\ events \in 0 .. MaxEvents
    BY DEF Inv
  <2>5. {host.dad.on, host.slaac.on, host.duplicate, heard} \subseteq BOOLEAN
    BY <2>1, <2>3, <2>4
  <2> QED BY <2>1, <2>2, <2>3, <2>4, <2>5 DEF TypeOK, Lists, Rio, Cache, Redirect, AddressKind, RouterEntry
<1>3. InnerOk(host) /\ host.static = host.gateway
  BY <1>1 DEF Sound
<1>4. RoutesMatchLists /\ QuarantineHolds
  BY <1>3 DEF RoutesMatchLists, QuarantineHolds, InnerOk
<1> QED BY <1>2, <1>4 DEF RoutesSound

\* After every frame, call and timer the routing table, the lists and the
\* quarantine of routers that stopped answering agree (set_ipv6_default_gateway,
\* select_ipv6_ra_route), whatever the routers advertise.
THEOREM RoutesAlwaysSound == Spec => []RoutesSound
BY InvInit, InvNext, InvSound, PTL DEF Spec

\* A step that handles no event is a call of step_timers.
LEMMA PumpIsTimer ==
    ASSUME Inv, Next, Pump
    PROVE  \E d \in Jumps : StepTimers(d)
<1>1. ~Event
  BY DEF Inv, Pump, Event
<1> QED BY <1>1, InvStep

\* The best router, in the words of the property.
LEMMA BestPreferred ==
    ASSUME NEW h \in HostState, InnerBest(h), GatewayBest(h)
    PROVE  /\ h.gateway = None <=> Usable(h) = {}
           /\ \A q \in Usable(h) : ~Preferred(h, q, h.gateway, LAMBDA r : Terms(h, r).pref)
           /\ \A q \in Inner(h) \ h.failed :
                 ~Preferred(h, q, h.raRoute, LAMBDA r : Head(h.rio["inner"][r]).pref)
<1>1. h.gateway = None <=> Usable(h) = {}
  BY DEF GatewayBest
<1>2. ASSUME NEW q \in Usable(h)
      PROVE  ~Preferred(h, q, h.gateway, LAMBDA r : Terms(h, r).pref)
  <2> DEFINE g == h.gateway
             p == Terms(h, g).pref
             o == Terms(h, q).pref
  <2>1. g \in Usable(h) /\ GatewayScore(h, q) <= GatewayScore(h, g)
    BY <1>1, <1>2 DEF GatewayBest
  <2>2. p \in 0 .. 2 /\ o \in 0 .. 2
    BY <2>1, GatewayScoreType
  <2>3. Score(h, q, o) <= Score(h, g, p)
    BY <2>1 DEF GatewayScore
  <2> HIDE DEF p, o, g
  <2>4. ~(\/ ReachabilityRank(h, q) > ReachabilityRank(h, g)
          \/ ReachabilityRank(h, q) = ReachabilityRank(h, g) /\ o > p)
    BY <2>2, <2>3, ScoreFacts
  <2> QED BY <2>4 DEF Preferred, p, o, g
<1>3. ASSUME NEW q \in Inner(h) \ h.failed
      PROVE  ~Preferred(h, q, h.raRoute, LAMBDA r : Head(h.rio["inner"][r]).pref)
  <2> DEFINE g == h.raRoute
             p == InnerPref(h, g)
             o == InnerPref(h, q)
  <2>1. q \in Allowed(h) /\ q \in Inner(h)
    BY <1>3, AllowedFacts
  <2>2. g \in Allowed(h) /\ InnerScore(h, q) <= InnerScore(h, g)
    BY <2>1 DEF InnerBest
  <2>3. p \in 0 .. 2 /\ o \in 0 .. 2
    BY <2>1, <2>2, AllowedFacts, InnerScoreType
  <2>4. Score(h, q, o) <= Score(h, g, p)
    BY <2>2 DEF InnerScore
  <2> HIDE DEF p, o, g
  <2>5. ~(\/ ReachabilityRank(h, q) > ReachabilityRank(h, g)
          \/ ReachabilityRank(h, q) = ReachabilityRank(h, g) /\ o > p)
    BY <2>3, <2>4, ScoreFacts
  <2> QED BY <2>5 DEF Preferred, p, o, g, InnerPref
<1> QED BY <1>1, <1>2, <1>3

\* A call of step_timers leaves the gateway and the inner route the best there are:
\* no advertising router is preferred, whatever expired, answered or failed; and
\* when it takes the last default router away, the host is left soliciting, except in
\* the call that takes an address or in which the address expires (step_timers).
THEOREM AlwaysBestRouter == Spec => RouterChoice
<1> DEFINE Best ==
             Pump =>
               /\ host'.gateway = None <=> Usable(host') = {}
               /\ \A q \in Usable(host') :
                     ~Preferred(host', q, host'.gateway, LAMBDA r : Terms(host', r).pref)
               /\ \A q \in Inner(host') \ host'.failed :
                     ~Preferred(host', q, host'.raRoute, LAMBDA r : Head(host'.rio["inner"][r]).pref)
           Solicits ==
             Pump /\ ~AddressTaken /\ ~AddressExpired =>
               (host.gateway # None /\ host'.gateway = None =>
                  "soliciting" \in {host.discovery.status, host'.discovery.status})
<1>1. Inv /\ [Next]_vars => [Best]_vars /\ [Solicits]_vars
  <2> SUFFICES ASSUME Inv, Next, Pump PROVE Best /\ Solicits
    BY DEF Best, Solicits
  <2>1. PICK d \in Jumps : StepTimers(d)
    BY PumpIsTimer
  <2>2. /\ Inv' /\ InnerBest(host') /\ GatewayBest(host')
        /\ ~AddressTaken /\ ~AddressExpired /\ host.gateway # None /\ host'.gateway = None =>
              "soliciting" \in {host.discovery.status, host'.discovery.status}
    BY <2>1, StepTimersStep
  <2>3. host' \in HostState
    BY <2>2 DEF Inv, Sound
  <2>4. Best
    BY <2>2, <2>3, BestPreferred
  <2>5. Solicits
    BY <2>2
  <2> QED BY <2>4, <2>5
<1>2. Spec => [][Best]_vars /\ [][Solicits]_vars
  <2> HIDE DEF Best, Solicits
  <2> QED BY <1>1, InvInit, InvNext, PTL DEF Spec
<1> QED BY <1>2 DEF RouterChoice, BestRouterInUse, LostRouterSolicits

\* No frame or call brings the valid lifetime of an address below two hours or what
\* was left of it (refreshed_ipv6_valid_deadline), and no timer adopts an address
\* somebody else was heard using since the host began to probe it
\* (mark_ipv6_dad_duplicate).
THEOREM AddressAlwaysSound == Spec => AddressSound
<1> DEFINE Kept ==
             ~Pump =>
               /\ host.slaac.on /\ host'.slaac.on => host'.slaac.valid >= Min({host.slaac.valid, TwoHours})
               /\ host.dad.on /\ host'.dad.on => host'.dad.valid >= Min({host.dad.valid, TwoHours})
           Unique == Pump /\ host'.address = "auto" => host.address = "auto" \/ ~heard
<1>1. Inv /\ [Next]_vars => [Kept]_vars /\ [Unique]_vars
  <2> SUFFICES ASSUME Inv, Next PROVE Kept /\ Unique
    BY DEF Kept, Unique
  <2>1. CASE Pump
    <3>1. PICK d \in Jumps : StepTimers(d)
      BY <2>1, PumpIsTimer
    <3>2. host'.address = "auto" => host.address = "auto" \/ ~heard
      BY <3>1, StepTimersStep
    <3> QED BY <2>1, <3>2
  <2>2. CASE ~Pump
    <3>1. ~ \E d \in Jumps : StepTimers(d)
      BY <2>2 DEF StepTimers, Pump
    <3>2. LivesKept(host, host')
      BY <3>1, InvStep
    <3> QED BY <2>2, <3>2 DEF LivesKept
  <2> QED BY <2>1, <2>2
<1>2. Spec => [][Kept]_vars /\ [][Unique]_vars
  <2> HIDE DEF Kept, Unique
  <2> QED BY <1>1, InvInit, InvNext, PTL DEF Spec
<1> QED BY <1>2 DEF AddressSound, ValidNotCollapsed, NoDuplicateAdopted

====
