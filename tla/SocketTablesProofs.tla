------------------------- MODULE SocketTablesProofs -------------------------
(***************************************************************************)
(* The tables of SocketRuntime stay in agreement, for every number of      *)
(* handles, every set of ports and remotes, every backlog, every history   *)
(* limit.  The inductive invariant adds to what the run checks where a     *)
(* handle that was never given out stands (nowhere), what a connection and *)
(* its handle know of each other, and where every received byte is.        *)
(***************************************************************************)
EXTENDS SocketTables, TLAPS, FiniteSetTheorems, SequenceTheorems,
        WellFoundedInduction, NaturalsInduction

-----------------------------------------------------------------------------
(* The inductive invariant.                                                *)

\* A handle that next_socket_id has not reached is in no table and no queue.
Unused(h) ==
    /\ udp[h].port = 0 /\ listeners[h].port = 0
    /\ streams[h] = NoKey /\ closed[h] = Absent
    /\ arrived[h] = 0 /\ got[h] = 0 /\ h \notin eof
FreshIds ==
    /\ \A h \in Handle : h >= nextId => Unused(h)
    /\ \A l \in Handle : \A i \in DOMAIN listeners[l].queue : listeners[l].queue[i] < nextId

\* A connection and the handle it was opened under name each other; the
\* history has no record of it yet.
ConnOK(k) ==
    LET c == conns[k]
    IN  IF c.stage = "none" THEN c = NoConn
        ELSE /\ c.handle \in Handle /\ streams[c.handle] = k
             /\ closed[c.handle] = Absent /\ c.rx <= arrived[c.handle]
ConnsOK == \A k \in Key : ConnOK(k)

\* Two handles with one four-tuple: only where the history says so.
SharingKnown ==
    \A g, h \in Handle : g # h /\ streams[g] = streams[h] => streams[h] \in shared \cup {NoKey}

\* Where the bytes of the connection opened as h are: returned, or waiting in
\* the connection or, once it is reaped, in the history; none is waiting when
\* tcp_read has answered Ok(0).
Accounted(h) ==
    LET c == conns[streams[h]]
    IN  IF c.handle = h
        THEN /\ got[h] + c.rx = arrived[h]
             /\ h \in eof => c.rx = 0 /\ c.stage \in {"eof", "done", "aborted"}
        ELSE /\ got[h] + closed[h] = arrived[h]
             /\ h \in eof => closed[h] = 0
BytesAccounted ==
    \A h \in Handle : streams[h] \notin shared \cup {NoKey} => Accounted(h)

TablesInv ==
    /\ TypeOK /\ FreshIds /\ PortMapsExact /\ QueuesExact /\ HistoryExact
    /\ ConnsOK /\ SharingKnown /\ HandleResolves /\ BytesAccounted

-----------------------------------------------------------------------------
(* Arithmetic, ports and sequences.                                        *)

\* Every nonempty set of naturals has a least element.
LEMMA LeastNat ==
    ASSUME NEW T \in SUBSET Nat, T # {}
    PROVE  \E x \in T : \A y \in T : x <= y
<1> DEFINE R == OpToRel(<, Nat)
<1>1. IsWellFoundedOn(R, Nat)
  BY NatLessThanWellFounded
<1>2. \E x \in T : \A y \in T : ~(<<y, x>> \in R)
  <2> HIDE DEF R
  <2> QED BY <1>1, WFMin
<1>3. \A x, y \in Nat : ~(<<y, x>> \in R) => x <= y
  BY DEF R, OpToRel
<1> QED BY <1>2, <1>3

\* Port 0 is no port, so NoKey is no key.
LEMMA NoKeyIsNone == 0 \notin Port /\ Port \subseteq Nat /\ NoKey \notin Key
<1>1. 0 \notin Port /\ Port \subseteq Nat
  BY TablesAssumption DEF Port, Ephemeral
<1>2. NoKey.port = 0
  BY DEF NoKey
<1>3. \A k \in Key : k.port \in Port
  BY DEF Key
<1> QED BY <1>1, <1>2, <1>3

\* How far behind the counter s a port of the ephemeral range is tried.
Turn(s, p) == IF p >= s THEN p - s ELSE p - s + (EphHigh - EphLow) + 1

\* The counter runs through the whole range before it is back at s.
LEMMA TurnSteps ==
    ASSUME NEW s \in Ephemeral, NEW p \in Ephemeral
    PROVE  /\ PortAfter(p) \in Ephemeral
           /\ Turn(s, p) \in 0 .. EphHigh - EphLow
           /\ Turn(s, s) = 0
           /\ PortAfter(p) = s <=> Turn(s, p) = EphHigh - EphLow
           /\ PortAfter(p) # s => Turn(s, PortAfter(p)) = Turn(s, p) + 1
           /\ \A q \in Ephemeral : Turn(s, q) = Turn(s, p) => q = p
  BY TablesAssumption DEF Ephemeral, PortAfter, Turn

\* The free ports that the search from nextPort looks at from its i-th turn on.
FreeFrom(i) == {q \in Ephemeral : Turn(nextPort, q) >= i /\ ~PortInUse(q)}

\* One pass of the loop of allocate_ephemeral_port, try standing for the rest.
Search(try) ==
    [p \in Ephemeral |->
        IF ~PortInUse(p) THEN [port |-> p, next |-> PortAfter(p)]
        ELSE IF PortAfter(p) = nextPort THEN [port |-> 0, next |-> nextPort]
        ELSE try[PortAfter(p)]]

\* The port at p is the first free one, or all that are left start after p.
LEMMA FreeFromSteps ==
    ASSUME nextPort \in Ephemeral, NEW p \in Ephemeral
    PROVE  LET i == Turn(nextPort, p)
           IN  /\ ~PortInUse(p) => p \in FreeFrom(i) /\ \A q \in FreeFrom(i) : i <= Turn(nextPort, q)
               /\ PortInUse(p) => FreeFrom(i) = FreeFrom(i + 1)
               /\ PortInUse(p) /\ PortAfter(p) = nextPort => FreeFrom(i) = {}
<1> DEFINE i == Turn(nextPort, p)
           N == EphHigh - EphLow
<1>1. /\ i \in 0 .. N
      /\ PortAfter(p) = nextPort <=> i = N
      /\ \A q \in Ephemeral : Turn(nextPort, q) \in 0 .. N
      /\ \A q \in Ephemeral : Turn(nextPort, q) = i => q = p
  BY TurnSteps
<1>2. N \in Nat
  BY TablesAssumption
<1> HIDE DEF i, N
<1>3. ~PortInUse(p) => p \in FreeFrom(i) /\ \A q \in FreeFrom(i) : i <= Turn(nextPort, q)
  <2>1. Turn(nextPort, p) = i
    BY DEF i
  <2>2. \A q \in FreeFrom(i) : Turn(nextPort, q) >= i /\ Turn(nextPort, q) \in Int
    BY <1>1, <1>2 DEF FreeFrom
  <2> QED BY <1>1, <1>2, <2>1, <2>2 DEF FreeFrom
<1>4. PortInUse(p) => \A q \in Ephemeral : ~PortInUse(q) => (Turn(nextPort, q) >= i <=> Turn(nextPort, q) >= i + 1)
  BY <1>1, <1>2
<1>5. PortInUse(p) => FreeFrom(i) = FreeFrom(i + 1)
  BY <1>4 DEF FreeFrom
<1>6. PortInUse(p) /\ PortAfter(p) = nextPort => FreeFrom(i) = {}
  BY <1>1, <1>2 DEF FreeFrom
<1> QED BY <1>3, <1>5, <1>6 DEF i

\* The loop has a result: the first free port in the order of the search.
LEMMA SearchDefined ==
    ASSUME nextPort \in Ephemeral
    PROVE  \E try : try = Search(try)
<1> DEFINE T(q) == Turn(nextPort, q)
           First(S) == CHOOSE q \in S : \A r \in S : T(q) <= T(r)
           W == [p \in Ephemeral |->
                    IF FreeFrom(T(p)) = {} THEN [port |-> 0, next |-> nextPort]
                    ELSE [port |-> First(FreeFrom(T(p))), next |-> PortAfter(First(FreeFrom(T(p))))]]
<1>1. ASSUME NEW p \in Ephemeral PROVE W[p] = Search(W)[p]
  <2> DEFINE F == FreeFrom(T(p))
  <2>1. Search(W)[p] = IF ~PortInUse(p) THEN [port |-> p, next |-> PortAfter(p)]
                       ELSE IF PortAfter(p) = nextPort THEN [port |-> 0, next |-> nextPort]
                       ELSE W[PortAfter(p)]
    BY DEF Search
  <2>2. CASE ~PortInUse(p)
    <3>1. p \in F /\ \A r \in F : T(p) <= T(r)
      BY <2>2, FreeFromSteps
    <3>2. F \subseteq Ephemeral
      BY DEF FreeFrom
    <3>3. \A q \in Ephemeral : T(q) \in Int
      BY TurnSteps, TablesAssumption
    <3>4. First(F) \in F /\ \A r \in F : T(First(F)) <= T(r)
      <4> HIDE DEF F, T
      <4> QED BY <3>1
    <3>5. T(First(F)) = T(p)
      BY <3>1, <3>2, <3>3, <3>4
    <3>6. First(F) = p
      <4>1. First(F) \in Ephemeral
        BY <3>2, <3>4
      <4> HIDE DEF First, F
      <4> QED BY <3>5, <4>1, TurnSteps
    <3> QED BY <2>1, <2>2, <3>1, <3>6
  <2>3. CASE PortInUse(p) /\ PortAfter(p) = nextPort
    BY <2>1, <2>3, FreeFromSteps
  <2>4. CASE PortInUse(p) /\ PortAfter(p) # nextPort
    <3>1. PortAfter(p) \in Ephemeral /\ T(PortAfter(p)) = T(p) + 1
      BY <2>4, TurnSteps
    <3>2. FreeFrom(T(p)) = FreeFrom(T(p) + 1)
      BY <2>4, FreeFromSteps
    <3>3. FreeFrom(T(PortAfter(p))) = F
      BY <3>1, <3>2
    <3>4. W[PortAfter(p)] = W[p]
      <4> HIDE DEF First, T
      <4> QED BY <3>1, <3>3
    <3> QED BY <2>1, <2>4, <3>4
  <2> QED BY <2>2, <2>3, <2>4
<1>2. W = Search(W)
  <2> HIDE DEF First, T
  <2> QED BY <1>1 DEF Search
<1> QED BY <1>2

\* allocate_ephemeral_port: what the search answers, and where it leaves the
\* counter.
LEMMA AllocateSound ==
    ASSUME nextPort \in Ephemeral
    PROVE  /\ AllocationExact
           /\ AllocateEphemeralPort.port \in Ephemeral \cup {0}
           /\ AllocateEphemeralPort.next \in Ephemeral
<1> DEFINE a == CHOOSE try : try = Search(try)
           T(q) == Turn(nextPort, q)
           N == EphHigh - EphLow
           Good(p) == IF FreeFrom(T(p)) = {} THEN a[p] = [port |-> 0, next |-> nextPort]
                      ELSE \E q \in FreeFrom(T(p)) : a[p] = [port |-> q, next |-> PortAfter(q)]
<1>1. a = Search(a)
  BY SearchDefined
<1>2. AllocateEphemeralPort = a[nextPort]
  BY DEF AllocateEphemeralPort, Search
<1> HIDE DEF a
<1>3. N \in Nat /\ \A q \in Ephemeral : T(q) \in 0 .. N
  BY TurnSteps, TablesAssumption
<1>4. \A p \in Ephemeral : Good(p)
  <2> DEFINE B == {N - T(p) : p \in {q \in Ephemeral : ~Good(q)}}
  <2> SUFFICES ASSUME NEW p0 \in Ephemeral, ~Good(p0) PROVE FALSE
    OBVIOUS
  <2>1. B \in SUBSET Nat /\ B # {}
    <3> HIDE DEF Good, T
    <3> QED BY <1>3
  <2>2. PICK x \in B : \A y \in B : x <= y
    <3> HIDE DEF B
    <3> QED BY <2>1, LeastNat
  <2>3. PICK p \in Ephemeral : ~Good(p) /\ x = N - T(p)
    <3> HIDE DEF Good
    <3> QED BY <2>2
  <2>4. \A q \in Ephemeral : ~Good(q) => T(q) <= T(p)
    <3> HIDE DEF Good, T, N
    <3> SUFFICES ASSUME NEW q \in Ephemeral, ~Good(q) PROVE T(q) <= T(p)
      OBVIOUS
    <3>1. N - T(p) <= N - T(q)
      BY <2>2, <2>3
    <3> QED BY <3>1, <1>3
  <2>5. a[p] = IF ~PortInUse(p) THEN [port |-> p, next |-> PortAfter(p)]
               ELSE IF PortAfter(p) = nextPort THEN [port |-> 0, next |-> nextPort]
               ELSE a[PortAfter(p)]
    BY <1>1 DEF Search
  <2>6. CASE ~PortInUse(p)
    <3>1. p \in FreeFrom(T(p))
      BY <2>6, FreeFromSteps
    <3> QED BY <2>3, <2>5, <2>6, <3>1
  <2>7. CASE PortInUse(p) /\ PortAfter(p) = nextPort
    <3>1. FreeFrom(T(p)) = {}
      BY <2>7, FreeFromSteps
    <3> QED BY <2>3, <2>5, <2>7, <3>1
  <2>8. CASE PortInUse(p) /\ PortAfter(p) # nextPort
    <3>1. PortAfter(p) \in Ephemeral /\ T(PortAfter(p)) = T(p) + 1
      BY <2>8, TurnSteps
    <3>2. FreeFrom(T(p)) = FreeFrom(T(p) + 1)
      BY <2>8, FreeFromSteps
    <3>3. Good(PortAfter(p))
      <4> HIDE DEF Good, T, N
      <4> QED BY <2>4, <3>1, <1>3
    <3>4. FreeFrom(T(PortAfter(p))) = FreeFrom(T(p)) /\ a[p] = a[PortAfter(p)]
      <4>1. a[p] = a[PortAfter(p)]
        BY <2>5, <2>8
      <4> HIDE DEF T
      <4> QED BY <3>1, <3>2, <4>1
    <3> QED BY <2>3, <3>3, <3>4
  <2> QED BY <2>6, <2>7, <2>8
<1>5. Good(nextPort) /\ T(nextPort) = 0
  BY <1>4, TurnSteps
<1>6. FreeFrom(0) = {q \in Ephemeral : ~PortInUse(q)}
  <2> HIDE DEF N
  <2> QED BY <1>3 DEF FreeFrom
<1>7. IF FreeFrom(0) = {} THEN a[nextPort] = [port |-> 0, next |-> nextPort]
      ELSE \E q \in FreeFrom(0) : a[nextPort] = [port |-> q, next |-> PortAfter(q)]
  BY <1>5
<1> HIDE DEF T, Good
<1> DEFINE r == AllocateEphemeralPort
           free == FreeFrom(0)
<1>8. IF free = {} THEN r.port = 0 /\ r.next = nextPort
      ELSE \E q \in free : r.port = q /\ r.next = PortAfter(q)
  <2>1. CASE free = {}
    <3>1. r = [port |-> 0, next |-> nextPort]
      BY <2>1, <1>2, <1>7
    <3> HIDE DEF r
    <3> QED BY <2>1, <3>1
  <2>2. CASE free # {}
    <3>1. PICK q \in free : r = [port |-> q, next |-> PortAfter(q)]
      BY <2>2, <1>2, <1>7
    <3> HIDE DEF r
    <3>2. r.port = q /\ r.next = PortAfter(q)
      BY <3>1
    <3> QED BY <2>2, <3>2
  <2> QED BY <2>1, <2>2
<1>9. \A q \in free : q \in Ephemeral /\ PortAfter(q) \in Ephemeral
  BY TurnSteps DEF FreeFrom
<1>10. AllocationExact <=> IF free = {} THEN r.port = 0 ELSE r.port \in free
  BY <1>6 DEF AllocationExact
<1> HIDE DEF r, free
<1>11. AllocationExact /\ r.port \in Ephemeral \cup {0} /\ r.next \in Ephemeral
  BY <1>8, <1>9, <1>10
<1> QED BY <1>11 DEF r

\* No entry occurs twice.
OnceEach(s) == \A i, j \in DOMAIN s : s[i] = s[j] => i = j

\* What a sequence holds, by position.
LEMMA SeqFacts ==
    ASSUME NEW S, NEW s \in Seq(S)
    PROVE  /\ Len(s) \in Nat /\ DOMAIN s = 1 .. Len(s)
           /\ \A i \in 1 .. Len(s) : s[i] \in S
           /\ \A x : x \in Range(s) <=> \E i \in 1 .. Len(s) : s[i] = x
           /\ Range(s) \subseteq S
<1>1. Len(s) \in Nat /\ DOMAIN s = 1 .. Len(s) /\ \A i \in 1 .. Len(s) : s[i] \in S
  BY LenProperties, ElementOfSeq
<1>2. Range(s) = {s[i] : i \in 1 .. Len(s)}
  BY <1>1 DEF Range
<1> QED BY <1>1, <1>2

\* Dropping the n oldest entries, as the eviction of reap_closed does.
LEMMA DropOldest ==
    ASSUME NEW S, NEW s \in Seq(S), OnceEach(s), NEW n \in 0 .. Len(s)
    PROVE  LET t == SubSeq(s, n + 1, Len(s))
           IN  /\ t \in Seq(S) /\ Len(t) = Len(s) - n /\ OnceEach(t)
               /\ \A i \in 1 .. Len(t) : t[i] = s[n + i]
               /\ Range(t) = Range(s) \ {s[i] : i \in 1 .. n}
<1> DEFINE m == Len(s)
           t == SubSeq(s, n + 1, m)
<1>1. m \in Nat /\ n \in Nat /\ n <= m /\ DOMAIN s = 1 .. m /\ \A i \in 1 .. m : s[i] \in S
  BY SeqFacts
<1>2. t \in Seq(S) /\ Len(t) = m - n /\ \A i \in 1 .. m - n : t[i] = s[n + i]
  <2> HIDE DEF m
  <2>1. n + 1 \in Int /\ m \in Int /\ \A i \in n + 1 .. m : s[i] \in S
    BY <1>1
  <2>2. /\ SubSeq(s, n + 1, m) \in Seq(S)
        /\ Len(SubSeq(s, n + 1, m)) = IF n + 1 <= m THEN m - (n + 1) + 1 ELSE 0
        /\ \A i \in 1 .. m - (n + 1) + 1 : SubSeq(s, n + 1, m)[i] = s[(n + 1) + i - 1]
    BY <2>1, SubSeqProperties
  <2>3. \A i \in 1 .. m - n : i \in 1 .. m - (n + 1) + 1 /\ (n + 1) + i - 1 = n + i
    BY <1>1
  <2>4. (IF n + 1 <= m THEN m - (n + 1) + 1 ELSE 0) = m - n
    BY <1>1
  <2> QED BY <2>2, <2>3, <2>4
<1>3. DOMAIN t = 1 .. m - n /\ \A x : x \in Range(t) <=> \E i \in 1 .. m - n : t[i] = x
  <2> HIDE DEF t, m
  <2> QED BY <1>2, SeqFacts
<1>4. \A x : x \in Range(s) <=> \E i \in 1 .. m : s[i] = x
  BY SeqFacts
<1> HIDE DEF t, m
<1>5. OnceEach(t)
  <2> SUFFICES ASSUME NEW i \in 1 .. m - n, NEW j \in 1 .. m - n, t[i] = t[j] PROVE i = j
    BY <1>3 DEF OnceEach
  <2>1. s[n + i] = s[n + j] /\ n + i \in 1 .. m /\ n + j \in 1 .. m
    BY <1>1, <1>2
  <2>2. n + i = n + j
    BY <1>1, <2>1 DEF OnceEach
  <2> QED BY <1>1, <2>2
<1>6. ASSUME NEW x PROVE x \in Range(t) <=> x \in Range(s) /\ x \notin {s[i] : i \in 1 .. n}
  <2>1. ASSUME NEW i \in 1 .. m - n, t[i] = x
        PROVE  x \in Range(s) /\ x \notin {s[q] : q \in 1 .. n}
    <3>1. s[n + i] = x /\ n + i \in 1 .. m
      BY <1>1, <1>2, <2>1
    <3>2. \A q \in 1 .. n : s[q] # x
      <4> SUFFICES ASSUME NEW q \in 1 .. n, s[q] = x PROVE FALSE
        OBVIOUS
      <4>1. q = n + i
        BY <1>1, <3>1 DEF OnceEach
      <4> QED BY <1>1, <4>1
    <3> QED BY <1>4, <3>1, <3>2
  <2>2. ASSUME NEW i \in 1 .. m, s[i] = x, x \notin {s[q] : q \in 1 .. n}
        PROVE  x \in Range(t)
    <3>1. i > n
      BY <1>1, <2>2
    <3>2. i - n \in 1 .. m - n /\ n + (i - n) = i
      BY <1>1, <3>1
    <3>3. t[i - n] = x
      BY <1>2, <2>2, <3>2
    <3> QED BY <1>3, <3>2, <3>3
  <2> QED BY <1>3, <1>4, <2>1, <2>2
<1>7. Range(t) = Range(s) \ {s[i] : i \in 1 .. n}
  BY <1>6
<1> QED BY <1>2, <1>5, <1>7 DEF t, m

\* What retain leaves in closed_order, when no handle is listed twice.
LEMMA RemoveOne ==
    ASSUME NEW S, NEW s \in Seq(S), OnceEach(s), NEW e
    PROVE  LET t == RemoveFirst(s, e)
           IN  /\ t \in Seq(S) /\ Len(t) <= Len(s) /\ OnceEach(t)
               /\ Range(t) = Range(s) \ {e}
<1> DEFINE m == Len(s)
           t == RemoveFirst(s, e)
           I == {i \in 1 .. m : s[i] = e}
<1>1. m \in Nat /\ DOMAIN s = 1 .. m /\ \A i \in 1 .. m : s[i] \in S
  BY SeqFacts
<1>2. \A x : x \in Range(s) <=> \E i \in 1 .. m : s[i] = x
  BY SeqFacts
<1>3. CASE ~ \E i \in 1 .. m : s[i] = e
  <2>1. t = s
    BY <1>3 DEF RemoveFirst
  <2>2. Range(s) = Range(s) \ {e}
    BY <1>2, <1>3
  <2> QED BY <1>1, <2>1, <2>2
<1>4. CASE \E i \in 1 .. m : s[i] = e
  <2> DEFINE p == Min(I)
             a == SubSeq(s, 1, p - 1)
             b == SubSeq(s, p + 1, m)
  <2>1. I # {} /\ I \subseteq Nat
    BY <1>4
  <2>2. p \in I
    <3>1. \E x \in I : \A y \in I : x <= y
      BY <2>1, LeastNat
    <3> HIDE DEF I
    <3> QED BY <3>1 DEF Min
  <2>3. t = a \o b
    BY <1>4, <2>1 DEF RemoveFirst, SelectInSeq, RemoveAt
  <2> HIDE DEF t, p, m
  <2>4. p \in Nat /\ 1 <= p /\ p <= m /\ s[p] = e
    BY <2>2, <1>1
  <2>5. a \in Seq(S) /\ Len(a) = p - 1 /\ \A i \in 1 .. p - 1 : a[i] = s[i]
    <3>1. 1 \in Int /\ p - 1 \in Int /\ \A i \in 1 .. p - 1 : s[i] \in S
      BY <1>1, <2>4
    <3>2. /\ SubSeq(s, 1, p - 1) \in Seq(S)
          /\ Len(SubSeq(s, 1, p - 1)) = IF 1 <= p - 1 THEN p - 1 - 1 + 1 ELSE 0
          /\ \A i \in 1 .. p - 1 - 1 + 1 : SubSeq(s, 1, p - 1)[i] = s[1 + i - 1]
      BY <3>1, SubSeqProperties
    <3>3. \A i \in 1 .. p - 1 : i \in 1 .. p - 1 - 1 + 1 /\ 1 + i - 1 = i
      BY <2>4
    <3> QED BY <3>2, <3>3, <2>4
  <2>6. b \in Seq(S) /\ Len(b) = m - p /\ \A i \in 1 .. m - p : b[i] = s[p + i]
    <3>1. p \in 0 .. Len(s)
      BY <1>1, <2>4 DEF m
    <3>2. LET u == SubSeq(s, p + 1, Len(s))
          IN  u \in Seq(S) /\ Len(u) = Len(s) - p /\ \A i \in 1 .. Len(u) : u[i] = s[p + i]
      BY <3>1, DropOldest
    <3> QED BY <3>2 DEF m
  <2> HIDE DEF a, b
  <2>7. /\ t \in Seq(S) /\ Len(t) = Len(a) + Len(b)
        /\ \A i \in 1 .. Len(a) + Len(b) : t[i] = IF i <= Len(a) THEN a[i] ELSE b[i - Len(a)]
    BY <2>3, <2>5, <2>6, ConcatProperties
  <2>8. Len(t) = m - 1 /\ \A i \in 1 .. m - 1 : t[i] = IF i < p THEN s[i] ELSE s[i + 1]
    <3>1. Len(t) = m - 1
      BY <1>1, <2>4, <2>5, <2>6, <2>7
    <3>2. ASSUME NEW i \in 1 .. m - 1 PROVE t[i] = IF i < p THEN s[i] ELSE s[i + 1]
      <4>1. i \in 1 .. Len(a) + Len(b) /\ (i <= Len(a) <=> i < p)
        BY <1>1, <2>4, <2>5, <2>6
      <4>2. CASE i < p
        BY <1>1, <4>1, <4>2, <2>4, <2>5, <2>7
      <4>3. CASE ~(i < p)
        <5>1. i - Len(a) \in 1 .. m - p /\ p + (i - Len(a)) = i + 1
          BY <1>1, <2>4, <2>5, <4>3
        <5> QED BY <4>1, <4>3, <5>1, <2>6, <2>7
      <4> QED BY <4>2, <4>3
    <3> QED BY <3>1, <3>2
  <2>9. DOMAIN t = 1 .. m - 1 /\ \A x : x \in Range(t) <=> \E i \in 1 .. m - 1 : t[i] = x
    BY <2>7, <2>8, SeqFacts
  <2>10. OnceEach(t)
    <3> SUFFICES ASSUME NEW i \in 1 .. m - 1, NEW j \in 1 .. m - 1, t[i] = t[j] PROVE i = j
      BY <2>9 DEF OnceEach
    <3> DEFINE u(q) == IF q < p THEN q ELSE q + 1
    <3>1. t[i] = s[u(i)] /\ t[j] = s[u(j)]
      BY <2>8
    <3>2. u(i) \in 1 .. m /\ u(j) \in 1 .. m
      BY <1>1, <2>4
    <3>3. u(i) = u(j)
      <4> HIDE DEF u
      <4> QED BY <1>1, <3>1, <3>2 DEF OnceEach
    <3> QED BY <2>4, <3>3
  <2>11. ASSUME NEW x PROVE x \in Range(t) <=> x \in Range(s) /\ x # e
    <3>1. ASSUME NEW i \in 1 .. m - 1, t[i] = x PROVE x \in Range(s) /\ x # e
      <4> DEFINE q == IF i < p THEN i ELSE i + 1
      <4>1. q \in 1 .. m /\ s[q] = x /\ q # p
        BY <1>1, <2>4, <2>8, <3>1
      <4>2. p \in 1 .. m
        BY <1>1, <2>4
      <4> HIDE DEF q
      <4> QED BY <1>1, <1>2, <2>4, <4>1, <4>2 DEF OnceEach
    <3>2. ASSUME NEW i \in 1 .. m, s[i] = x, x # e PROVE x \in Range(t)
      <4>1. i # p
        BY <2>4, <3>2
      <4>2. CASE i < p
        <5>1. i \in 1 .. m - 1 /\ t[i] = x
          BY <1>1, <2>4, <2>8, <3>2, <4>2
        <5> QED BY <2>9, <5>1
      <4>3. CASE i > p
        <5>1. i - 1 \in 1 .. m - 1 /\ ~(i - 1 < p) /\ (i - 1) + 1 = i
          BY <1>1, <2>4, <4>3
        <5>2. t[i - 1] = x
          BY <2>8, <3>2, <5>1
        <5> QED BY <2>9, <5>1, <5>2
      <4> QED BY <1>1, <2>4, <4>1, <4>2, <4>3
    <3> QED BY <1>2, <2>9, <3>1, <3>2
  <2>12. Range(t) = Range(s) \ {e}
    BY <2>11
  <2>13. Len(t) <= Len(s)
    BY <1>1, <2>8 DEF m
  <2> QED BY <2>7, <2>10, <2>12, <2>13 DEF t
<1> QED BY <1>3, <1>4

-----------------------------------------------------------------------------
(* UDP sockets and listeners.                                              *)

\* A chosen port is a free one in the map the call looks at.
LEMMA ChooseSound ==
    ASSUME TypeOK, NEW asked \in ListenPort \cup {0}, NEW map, NEW p \in Port,
           ChoosePort(asked, map, p)
    PROVE  /\ nextPort' \in Ephemeral
           /\ asked # 0 => map[p] = 0
           /\ asked = 0 => ~PortInUse(p)
<1>1. nextPort \in Ephemeral
  BY DEF TypeOK
<1>2. CASE asked = 0
  <2>1. AllocateEphemeralPort.port # 0 /\ p = AllocateEphemeralPort.port
        /\ nextPort' = AllocateEphemeralPort.next
    BY <1>2 DEF ChoosePort
  <2>2. ~PortInUse(AllocateEphemeralPort.port)
    BY <1>1, <2>1, AllocateSound DEF AllocationExact
  <2> QED BY <1>1, <1>2, <2>1, <2>2, AllocateSound
<1>3. CASE asked # 0
  BY <1>1, <1>3 DEF ChoosePort
<1> QED BY <1>2, <1>3

\* The counter of handles.
LEMMA NewIdSound ==
    ASSUME TypeOK, NewId
    PROVE  nextId \in Handle /\ nextId \in Nat /\ nextId' = nextId + 1 /\ nextId' \in 1 .. MaxId + 1
  BY TablesAssumption DEF TypeOK, NewId, Handle

\* The part of the invariant that speaks of streams and connections.
StreamPart ==
    /\ HistoryExact /\ ConnsOK /\ SharingKnown /\ HandleResolves /\ BytesAccounted

\* It reads neither sockets nor listeners.
LEMMA StreamPartFrame ==
    ASSUME StreamPart, UNCHANGED <<streams, conns, closed, closedOrder, history>>
    PROVE  StreamPart'
  BY DEF StreamPart, HistoryExact, ConnsOK, ConnOK, SharingKnown, HandleResolves, Resolves,
         BytesAccounted, Accounted, history

\* udp_bind, with a port of its own choice or a given one.
LEMMA UdpBindKeeps ==
    ASSUME TablesInv, NEW asked \in ListenPort \cup {0}, UdpBind(asked)
    PROVE  TablesInv'
<1>1. PICK p \in Port :
        /\ ChoosePort(asked, udpPorts, p) /\ NewId
        /\ udp' = [udp EXCEPT ![nextId] = [port |-> p, rx |-> 0]]
        /\ udpPorts' = [udpPorts EXCEPT ![p] = nextId]
        /\ UNCHANGED <<listeners, listenerPorts, streams, conns, closed, closedOrder, history>>
  BY DEF UdpBind
<1>2. TypeOK /\ PortMapsExact /\ FreshIds /\ QueuesExact /\ StreamPart
  BY DEF TablesInv, StreamPart
<1>3. nextId \in Handle /\ nextId \in Nat /\ nextId' = nextId + 1 /\ nextId' \in 1 .. MaxId + 1
  BY <1>1, <1>2, NewIdSound
<1>4. nextPort' \in Ephemeral /\ udpPorts[p] = 0
  <2>1. nextPort' \in Ephemeral /\ (asked # 0 => udpPorts[p] = 0) /\ (asked = 0 => ~PortInUse(p))
    BY <1>1, <1>2, ChooseSound
  <2> QED BY <2>1 DEF PortInUse
<1>5. udp[nextId].port = 0
  BY <1>2, <1>3 DEF FreshIds, Unused
<1>6. TypeOK'
  <2>1. udp' \in [Handle -> [port : Port \cup {0}, rx : 0 .. MaxBytes]]
    BY <1>1, <1>2, <1>3, TablesAssumption DEF TypeOK
  <2>2. udpPorts' \in [Port -> Handle \cup {0}]
    BY <1>1, <1>2, <1>3 DEF TypeOK
  <2> QED BY <1>1, <1>2, <1>3, <1>4, <2>1, <2>2 DEF TypeOK, history
<1>7. \A h \in Handle : udp'[h].port = IF h = nextId THEN p ELSE udp[h].port
  BY <1>1, <1>2, <1>3 DEF TypeOK
<1>8. \A q \in Port : udpPorts'[q] = IF q = p THEN nextId ELSE udpPorts[q]
  BY <1>1, <1>2, <1>3 DEF TypeOK
<1>9. PortMapsExact'
  <2>1. ASSUME NEW q \in Port, NEW h \in Handle PROVE udpPorts'[q] = h <=> udp'[h].port = q
    <3>1. 0 \notin Port /\ 0 \notin Handle
      BY NoKeyIsNone DEF Handle
    <3>2. udpPorts[q] = h <=> udp[h].port = q
      BY <1>2 DEF PortMapsExact
    <3>3. udpPorts[p] = h <=> udp[h].port = p
      BY <1>2 DEF PortMapsExact
    <3> QED BY <1>3, <1>4, <1>5, <1>7, <1>8, <3>1, <3>2, <3>3
  <2>2. \A q \in Port, h \in Handle : listenerPorts'[q] = h <=> listeners'[h].port = q
    BY <1>1, <1>2 DEF PortMapsExact
  <2> QED BY <2>1, <2>2 DEF PortMapsExact
<1>10. FreshIds'
  <2>1. \A h \in Handle : h >= nextId' => Unused(h)'
    <3> SUFFICES ASSUME NEW h \in Handle, h >= nextId' PROVE Unused(h)'
      OBVIOUS
    <3>1. h >= nextId /\ h # nextId
      BY <1>3 DEF Handle
    <3>2. Unused(h)
      BY <1>2, <3>1 DEF FreshIds
    <3> QED BY <1>1, <1>7, <3>1, <3>2 DEF Unused, history
  <2>2. \A l \in Handle : \A i \in DOMAIN listeners[l].queue : listeners[l].queue[i] < nextId'
    <3> SUFFICES ASSUME NEW l \in Handle, NEW i \in DOMAIN listeners[l].queue
                 PROVE  listeners[l].queue[i] < nextId'
      OBVIOUS
    <3>1. listeners[l].queue \in Seq(Handle)
      BY <1>2 DEF TypeOK
    <3>2. listeners[l].queue[i] \in Handle
      BY <3>1
    <3>3. listeners[l].queue[i] < nextId
      BY <1>2 DEF FreshIds
    <3> QED BY <1>3, <3>2, <3>3 DEF Handle
  <2> QED BY <1>1, <2>1, <2>2 DEF FreshIds
<1>11. QueuesExact'
  BY <1>1, <1>2 DEF QueuesExact, Listening
<1>12. StreamPart'
  BY <1>1, <1>2, StreamPartFrame
<1> QED BY <1>6, <1>9, <1>10, <1>11, <1>12 DEF TablesInv, StreamPart

\* A call that touches only the UDP tables and gives out no handle.
LEMMA UdpOnly ==
    ASSUME TablesInv,
           UNCHANGED <<nextId, nextPort, listeners, listenerPorts, streams, conns,
                       closed, closedOrder, history>>,
           udp' \in [Handle -> [port : Port \cup {0}, rx : 0 .. MaxBytes]],
           udpPorts' \in [Port -> Handle \cup {0}],
           \A p \in Port, h \in Handle : udpPorts'[p] = h <=> udp'[h].port = p,
           \A h \in Handle : udp'[h].port \in {0, udp[h].port}
    PROVE  TablesInv'
<1>1. TypeOK'
  BY DEF TablesInv, TypeOK, history
<1>2. PortMapsExact'
  BY DEF TablesInv, PortMapsExact
<1>3. FreshIds'
  BY DEF TablesInv, FreshIds, Unused, history
<1>4. QueuesExact'
  BY DEF TablesInv, QueuesExact, Listening
<1>5. StreamPart'
  BY StreamPartFrame DEF TablesInv, StreamPart
<1> QED BY <1>1, <1>2, <1>3, <1>4, <1>5 DEF TablesInv, StreamPart

\* dispatch_udp queues one datagram.
LEMMA DispatchUdpKeeps ==
    ASSUME TablesInv, NEW p \in Port, DispatchUdp(p)
    PROVE  TablesInv'
<1> DEFINE h == udpPorts[p]
<1>1. TypeOK /\ PortMapsExact
  BY DEF TablesInv
<1>2. h \in Handle /\ udp[h].rx < MaxBytes /\ udp' = [udp EXCEPT ![h].rx = @ + 1]
      /\ udpPorts' = udpPorts
      /\ UNCHANGED <<nextId, nextPort, listeners, listenerPorts, streams, conns,
                     closed, closedOrder, history>>
  BY <1>1 DEF DispatchUdp, TypeOK
<1> HIDE DEF h
<1>3. udp \in [Handle -> [port : Port \cup {0}, rx : 0 .. MaxBytes]]
      /\ udpPorts \in [Port -> Handle \cup {0}]
  BY <1>1 DEF TypeOK
<1>4. udp[h].rx + 1 \in 0 .. MaxBytes
  BY <1>2, <1>3, TablesAssumption
<1>5. udp' \in [Handle -> [port : Port \cup {0}, rx : 0 .. MaxBytes]]
      /\ \A g \in Handle : udp'[g].port = udp[g].port
  BY <1>2, <1>3, <1>4
<1>6. \A q \in Port, g \in Handle : udpPorts'[q] = g <=> udp'[g].port = q
  BY <1>1, <1>2, <1>5 DEF PortMapsExact
<1> QED BY <1>2, <1>3, <1>5, <1>6, UdpOnly

\* udp_recv_from takes one datagram.
LEMMA UdpRecvFromKeeps ==
    ASSUME TablesInv, NEW h \in Handle, UdpRecvFrom(h)
    PROVE  TablesInv'
<1>1. TypeOK /\ PortMapsExact
  BY DEF TablesInv
<1>2. udp[h].rx > 0 /\ udp' = [udp EXCEPT ![h].rx = @ - 1] /\ udpPorts' = udpPorts
      /\ UNCHANGED <<nextId, nextPort, listeners, listenerPorts, streams, conns,
                     closed, closedOrder, history>>
  BY DEF UdpRecvFrom
<1>3. udp \in [Handle -> [port : Port \cup {0}, rx : 0 .. MaxBytes]]
      /\ udpPorts \in [Port -> Handle \cup {0}]
  BY <1>1 DEF TypeOK
<1>4. udp[h].rx - 1 \in 0 .. MaxBytes
  BY <1>2, <1>3, TablesAssumption
<1>5. udp' \in [Handle -> [port : Port \cup {0}, rx : 0 .. MaxBytes]]
      /\ \A g \in Handle : udp'[g].port = udp[g].port
  BY <1>2, <1>3, <1>4
<1>6. \A q \in Port, g \in Handle : udpPorts'[q] = g <=> udp'[g].port = q
  BY <1>1, <1>2, <1>5 DEF PortMapsExact
<1> QED BY <1>2, <1>3, <1>5, <1>6, UdpOnly

\* udp_close frees the socket and its port.
LEMMA UdpCloseKeeps ==
    ASSUME TablesInv, NEW h \in Handle, UdpClose(h)
    PROVE  TablesInv'
<1> DEFINE p == udp[h].port
<1>1. TypeOK /\ PortMapsExact
  BY DEF TablesInv
<1>2. udp \in [Handle -> [port : Port \cup {0}, rx : 0 .. MaxBytes]]
      /\ udpPorts \in [Port -> Handle \cup {0}]
  BY <1>1 DEF TypeOK
<1>3. p \in Port /\ udp' = [udp EXCEPT ![h] = [port |-> 0, rx |-> 0]]
      /\ udpPorts' = [udpPorts EXCEPT ![p] = 0]
      /\ UNCHANGED <<nextId, nextPort, listeners, listenerPorts, streams, conns,
                     closed, closedOrder, history>>
  BY <1>2 DEF UdpClose
<1>4. udpPorts[p] = h
  BY <1>1, <1>3 DEF PortMapsExact
<1>5. udp' \in [Handle -> [port : Port \cup {0}, rx : 0 .. MaxBytes]]
      /\ \A g \in Handle : udp'[g].port = IF g = h THEN 0 ELSE udp[g].port
  BY <1>2, <1>3, TablesAssumption
<1>6. udpPorts' \in [Port -> Handle \cup {0}]
      /\ \A q \in Port : udpPorts'[q] = IF q = p THEN 0 ELSE udpPorts[q]
  BY <1>2, <1>3
<1>7. ASSUME NEW q \in Port, NEW g \in Handle PROVE udpPorts'[q] = g <=> udp'[g].port = q
  <2>1. 0 \notin Port /\ 0 \notin Handle
    BY NoKeyIsNone DEF Handle
  <2>2. udpPorts[q] = g <=> udp[g].port = q
    BY <1>1 DEF PortMapsExact
  <2> QED BY <1>4, <1>5, <1>6, <2>1, <2>2
<1> QED BY <1>3, <1>5, <1>6, <1>7, UdpOnly

\* tcp_listen, with a port of its own choice or a given one.
LEMMA TcpListenKeeps ==
    ASSUME TablesInv, NEW asked \in ListenPort \cup {0}, TcpListen(asked)
    PROVE  TablesInv'
<1>1. PICK p \in Port :
        /\ ChoosePort(asked, listenerPorts, p) /\ NewId
        /\ listeners' = [listeners EXCEPT ![nextId] = [port |-> p, queue |-> <<>>]]
        /\ listenerPorts' = [listenerPorts EXCEPT ![p] = nextId]
        /\ UNCHANGED <<udp, udpPorts, streams, conns, closed, closedOrder, history>>
  BY DEF TcpListen
<1>2. TypeOK /\ PortMapsExact /\ FreshIds /\ QueuesExact /\ StreamPart
  BY DEF TablesInv, StreamPart
<1>3. nextId \in Handle /\ nextId \in Nat /\ nextId' = nextId + 1 /\ nextId' \in 1 .. MaxId + 1
  BY <1>1, <1>2, NewIdSound
<1>4. nextPort' \in Ephemeral /\ listenerPorts[p] = 0
  <2>1. nextPort' \in Ephemeral /\ (asked # 0 => listenerPorts[p] = 0) /\ (asked = 0 => ~PortInUse(p))
    BY <1>1, <1>2, ChooseSound
  <2> QED BY <2>1 DEF PortInUse
<1>5. listeners[nextId].port = 0
  BY <1>2, <1>3 DEF FreshIds, Unused
<1>6. TypeOK'
  <2>1. listeners' \in [Handle -> [port : Port \cup {0}, queue : Seq(Handle)]]
    <3>1. [port |-> p, queue |-> <<>>] \in [port : Port \cup {0}, queue : Seq(Handle)]
      OBVIOUS
    <3> QED BY <1>1, <1>2, <1>3, <3>1 DEF TypeOK
  <2>2. listenerPorts' \in [Port -> Handle \cup {0}]
    BY <1>1, <1>2, <1>3 DEF TypeOK
  <2> QED BY <1>1, <1>2, <1>3, <1>4, <2>1, <2>2 DEF TypeOK, history
<1>7. \A h \in Handle : /\ listeners'[h].port = IF h = nextId THEN p ELSE listeners[h].port
                        /\ listeners'[h].queue = IF h = nextId THEN <<>> ELSE listeners[h].queue
  BY <1>1, <1>2, <1>3 DEF TypeOK
<1>8. \A q \in Port : listenerPorts'[q] = IF q = p THEN nextId ELSE listenerPorts[q]
  BY <1>1, <1>2, <1>3 DEF TypeOK
<1>9. PortMapsExact'
  <2>1. ASSUME NEW q \in Port, NEW h \in Handle PROVE listenerPorts'[q] = h <=> listeners'[h].port = q
    <3>1. 0 \notin Port /\ 0 \notin Handle
      BY NoKeyIsNone DEF Handle
    <3>2. listenerPorts[q] = h <=> listeners[h].port = q
      BY <1>2 DEF PortMapsExact
    <3>3. listenerPorts[p] = h <=> listeners[h].port = p
      BY <1>2 DEF PortMapsExact
    <3> QED BY <1>3, <1>4, <1>5, <1>7, <1>8, <3>1, <3>2, <3>3
  <2>2. \A q \in Port, h \in Handle : udpPorts'[q] = h <=> udp'[h].port = q
    BY <1>1, <1>2 DEF PortMapsExact
  <2> QED BY <2>1, <2>2 DEF PortMapsExact
<1>10. FreshIds'
  <2>1. \A h \in Handle : h >= nextId' => Unused(h)'
    <3> SUFFICES ASSUME NEW h \in Handle, h >= nextId' PROVE Unused(h)'
      OBVIOUS
    <3>1. h >= nextId /\ h # nextId
      BY <1>3 DEF Handle
    <3>2. Unused(h)
      BY <1>2, <3>1 DEF FreshIds
    <3> QED BY <1>1, <1>7, <3>1, <3>2 DEF Unused, history
  <2>2. \A l \in Handle : \A i \in DOMAIN listeners'[l].queue : listeners'[l].queue[i] < nextId'
    <3> SUFFICES ASSUME NEW l \in Handle, NEW i \in DOMAIN listeners'[l].queue
                 PROVE  listeners'[l].queue[i] < nextId'
      OBVIOUS
    <3>1. listeners[l].queue \in Seq(Handle)
      BY <1>2 DEF TypeOK
    <3>2. listeners'[l].queue = listeners[l].queue
      BY <1>7
    <3>3. listeners[l].queue[i] \in Handle
      BY <3>1, <3>2
    <3>4. listeners[l].queue[i] < nextId
      BY <1>2, <3>2 DEF FreshIds
    <3> QED BY <1>3, <3>2, <3>3, <3>4 DEF Handle
  <2> QED BY <2>1, <2>2 DEF FreshIds
<1>11. QueuesExact'
  <2>1. \A h \in Handle : Len(listeners'[h].queue) <= Backlog
    BY <1>2, <1>7, TablesAssumption DEF QueuesExact
  <2>2. \A h \in Handle : listeners'[h].queue # <<>> => listeners'[h].port # 0
    BY <1>2, <1>7 DEF QueuesExact, Listening
  <2>3. ASSUME NEW h \in Handle, NEW l \in Handle,
               NEW i \in DOMAIN listeners'[h].queue, NEW j \in DOMAIN listeners'[l].queue,
               listeners'[h].queue[i] = listeners'[l].queue[j]
        PROVE  h = l /\ i = j
    <3>1. h # nextId /\ l # nextId
      BY <1>7
    <3> QED BY <1>2, <1>7, <2>3, <3>1 DEF QueuesExact
  <2>4. ASSUME NEW h \in Handle, NEW g \in Range(listeners'[h].queue), streams[g] # NoKey
        PROVE  streams[g].port = listeners'[h].port
    <3>1. h # nextId
      BY <1>7 DEF Range
    <3> QED BY <1>2, <1>7, <2>4, <3>1 DEF QueuesExact
  <2> QED BY <1>1, <2>1, <2>2, <2>3, <2>4 DEF QueuesExact, Listening
<1>12. StreamPart'
  BY <1>1, <1>2, StreamPartFrame
<1> QED BY <1>6, <1>9, <1>10, <1>11, <1>12 DEF TablesInv, StreamPart

-----------------------------------------------------------------------------
(* Streams and connections.                                                *)

\* What the type invariant says of one handle.
LEMMA HandleTypes ==
    ASSUME TypeOK, NEW h \in Handle
    PROVE  /\ streams[h] \in Key \cup {NoKey}
           /\ closed[h] \in Nat /\ closed[h] <= MaxBytes + 1
           /\ arrived[h] \in Nat /\ arrived[h] <= MaxBytes /\ got[h] \in Nat
           /\ h \in Nat
  BY TablesAssumption DEF TypeOK, Handle, Absent

\* What the type invariant says of the connection of one key.
LEMMA ConnTypes ==
    ASSUME TypeOK, NEW k \in Key
    PROVE  /\ conns[k].handle \in Handle \cup {0} /\ conns[k].stage \in Stage
           /\ conns[k].rx \in Nat /\ conns[k].rx <= MaxBytes
           /\ conns[k] = [handle |-> conns[k].handle, stage |-> conns[k].stage, rx |-> conns[k].rx]
  BY TablesAssumption DEF TypeOK

\* A connection has one owner; a key without a connection has none.
LEMMA OwnerFacts ==
    ASSUME TablesInv, NEW k \in Key
    PROVE  /\ conns[k].stage = "none" => conns[k].handle = 0 /\ conns[k].rx = 0
           /\ conns[k].stage # "none" =>
                 /\ conns[k].handle \in Handle /\ streams[conns[k].handle] = k
                 /\ closed[conns[k].handle] = Absent /\ conns[k].rx <= arrived[conns[k].handle]
                 /\ conns[k].handle < nextId
           /\ \A h \in Handle : conns[k].handle = h => streams[h] = k /\ conns[k].stage # "none"
           /\ \A h \in Handle : streams[h] = k /\ conns[k].stage # "none" /\ conns[k].handle # h
                 => k \in shared
<1>1. TypeOK /\ ConnOK(k) /\ SharingKnown /\ FreshIds
  BY DEF TablesInv, ConnsOK
<1>2. conns[k].stage = "none" => conns[k].handle = 0 /\ conns[k].rx = 0
  BY <1>1 DEF ConnOK, NoConn
<1>3. conns[k].stage # "none" =>
        /\ conns[k].handle \in Handle /\ streams[conns[k].handle] = k
        /\ closed[conns[k].handle] = Absent /\ conns[k].rx <= arrived[conns[k].handle]
  BY <1>1 DEF ConnOK
<1>4. NoKey # k /\ 0 \notin Handle
  BY NoKeyIsNone DEF Handle
<1>5. conns[k].stage # "none" => conns[k].handle < nextId
  <2> SUFFICES ASSUME conns[k].stage # "none", ~(conns[k].handle < nextId) PROVE FALSE
    OBVIOUS
  <2>1. nextId \in Nat
    BY <1>1, TablesAssumption DEF TypeOK
  <2>2. conns[k].handle >= nextId
    BY <1>3, <2>1 DEF Handle
  <2> QED BY <1>1, <1>3, <1>4, <2>2 DEF FreshIds, Unused
<1>6. ASSUME NEW h \in Handle, streams[h] = k, conns[k].stage # "none", conns[k].handle # h
      PROVE  k \in shared
  BY <1>1, <1>3, <1>4, <1>6 DEF SharingKnown
<1> QED BY <1>2, <1>3, <1>4, <1>5, <1>6

\* A handle in tcp_streams has been given out.
LEMMA GivenOut ==
    ASSUME TablesInv, NEW h \in Handle, streams[h] # NoKey \/ closed[h] # Absent
    PROVE  h < nextId /\ ~(h >= nextId)
<1>1. nextId \in Nat /\ h \in Nat
  BY TablesAssumption DEF TablesInv, TypeOK, Handle
<1>2. ~(h >= nextId)
  BY DEF TablesInv, FreshIds, Unused
<1> QED BY <1>1, <1>2

\* A call that leaves sockets and listeners alone and gives out no handle.
LEMMA SocketFrame ==
    ASSUME TablesInv, UNCHANGED <<nextId, udp, udpPorts, listeners, listenerPorts>>,
           \A h \in Handle : streams'[h] \in {streams[h], NoKey},
           \A h \in Handle : h >= nextId =>
              /\ closed'[h] = closed[h] /\ arrived'[h] = arrived[h] /\ got'[h] = got[h]
              /\ h \in eof' <=> h \in eof
    PROVE  PortMapsExact' /\ FreshIds' /\ QueuesExact'
<1>1. PortMapsExact'
  BY DEF TablesInv, PortMapsExact
<1>2. \A h \in Handle : h >= nextId => Unused(h)'
  BY DEF TablesInv, FreshIds, Unused
<1>3. FreshIds'
  BY <1>2 DEF TablesInv, FreshIds
<1>4. \A h \in Handle : \A g \in Range(listeners[h].queue) : g \in Handle
  <2> SUFFICES ASSUME NEW h \in Handle PROVE Range(listeners[h].queue) \subseteq Handle
    OBVIOUS
  <2>1. listeners[h].queue \in Seq(Handle)
    BY DEF TablesInv, TypeOK
  <2> QED BY <2>1, SeqFacts
<1>5. QueuesExact'
  <2>1. \A h \in Handle : \A g \in Range(listeners[h].queue) :
           streams'[g] # NoKey => streams'[g].port = listeners[h].port
    BY <1>4 DEF TablesInv, QueuesExact
  <2> QED BY <2>1 DEF TablesInv, QueuesExact, Listening
<1> QED BY <1>1, <1>3, <1>5

\* dispatch_tcp_segment on an established entry: bytes arrive and the stage
\* advances, the tables keep their shape.
LEMMA DispatchSegmentKeeps ==
    ASSUME TablesInv, NEW key \in Key, DispatchSegment(key)
    PROVE  TablesInv'
<1> DEFINE c == conns[key]
           o == c.handle
<1>1. PICK next \in Follows(c.stage), n \in 0 .. 1 :
            /\ n = 1 => c.stage \in {"opening", "open"} /\ arrived[o] < MaxBytes
            /\ conns' = [conns EXCEPT ![key].stage = next, ![key].rx = @ + n]
            /\ arrived' = [arrived EXCEPT ![o] = @ + n]
            /\ UNCHANGED <<nextId, nextPort, udp, udpPorts, listeners, listenerPorts, streams,
                           closed, closedOrder, got, eof, released, shared>>
  BY DEF DispatchSegment
<1>2. TypeOK /\ StreamPart
  BY DEF TablesInv, StreamPart
<1>3. /\ c.stage \in {"opening", "open", "eof"}
      /\ next \in {"open", "eof", "done", "aborted"}
      /\ c.stage = "eof" => next \in {"eof", "done", "aborted"}
  BY <1>2, ConnTypes DEF Stage, Follows
<1>4. o \in Handle /\ streams[o] = key /\ closed[o] = Absent /\ c.rx <= arrived[o] /\ o < nextId
  BY <1>3, OwnerFacts
<1>5. c.rx \in Nat /\ n \in Nat /\ arrived[o] \in Nat /\ c.rx + n <= arrived[o] + n
      /\ arrived[o] + n <= MaxBytes /\ got[o] \in Nat /\ n <= 1 /\ MaxBytes \in Nat
  <2>1. c.rx \in Nat /\ arrived[o] \in Nat /\ got[o] \in Nat /\ arrived[o] <= MaxBytes
    BY <1>2, <1>4, ConnTypes, HandleTypes
  <2>2. c.rx <= arrived[o] /\ n \in 0 .. 1 /\ (n = 1 => arrived[o] < MaxBytes) /\ MaxBytes \in Nat
    BY <1>1, <1>4, TablesAssumption
  <2> HIDE DEF c, o
  <2> QED BY <2>1, <2>2
<1>6. \A k \in Key : /\ conns'[k].handle = conns[k].handle
                     /\ conns'[k].stage = IF k = key THEN next ELSE conns[k].stage
                     /\ conns'[k].rx = IF k = key THEN c.rx + n ELSE conns[k].rx
                     /\ k # key => conns'[k] = conns[k]
  BY <1>1, <1>2 DEF TypeOK
<1>7. \A h \in Handle : arrived'[h] = IF h = o THEN arrived[o] + n ELSE arrived[h]
  BY <1>1, <1>2, <1>4 DEF TypeOK
<1>8. TypeOK'
  <2>1. conns' \in [Key -> [handle : Handle \cup {0}, stage : Stage, rx : 0 .. MaxBytes]]
    <3>1. next \in Stage /\ c.rx + n \in 0 .. MaxBytes
      BY <1>3, <1>5 DEF Stage
    <3> HIDE DEF c, o
    <3>2. conns \in [Key -> [handle : Handle \cup {0}, stage : Stage, rx : 0 .. MaxBytes]]
      BY <1>2 DEF TypeOK
    <3>3. [conns[key] EXCEPT !.stage = next, !.rx = conns[key].rx + n] \in
             [handle : Handle \cup {0}, stage : Stage, rx : 0 .. MaxBytes]
      BY <3>1, <3>2 DEF c
    <3>4. conns' = [conns EXCEPT ![key] = [conns[key] EXCEPT !.stage = next, !.rx = conns[key].rx + n]]
      BY <1>1, <3>2
    <3> QED BY <3>2, <3>3, <3>4
  <2>2. arrived' \in [Handle -> 0 .. MaxBytes]
    <3>1. arrived[o] + n \in 0 .. MaxBytes /\ arrived \in [Handle -> 0 .. MaxBytes]
      BY <1>2, <1>5 DEF TypeOK
    <3>2. arrived' = [arrived EXCEPT ![o] = @ + n]
      BY <1>1
    <3> HIDE DEF o
    <3> QED BY <3>1, <3>2
  <2> QED BY <1>1, <1>2, <2>1, <2>2 DEF TypeOK
<1> HIDE DEF c, o
<1>9. ConnsOK'
  <2> SUFFICES ASSUME NEW k \in Key PROVE ConnOK(k)'
    BY DEF ConnsOK
  <2>1. ConnOK(k)
    BY <1>2 DEF StreamPart, ConnsOK
  <2>2. CASE k = key
    <3>1. conns'[k].handle = o /\ conns'[k].stage = next /\ conns'[k].rx = c.rx + n
      BY <1>6, <2>2 DEF o, c
    <3>2. arrived'[o] = arrived[o] + n
      BY <1>4, <1>7
    <3> QED BY <1>1, <1>3, <1>4, <1>5, <2>2, <3>1, <3>2 DEF ConnOK
  <2>3. CASE k # key
    <3>1. conns'[k] = conns[k]
      BY <1>6, <2>3
    <3>2. conns[k].stage # "none" => conns[k].handle # o
      BY <1>4, <2>3, OwnerFacts
    <3>3. conns[k].handle \in Handle /\ conns[k].handle # o
             => arrived'[conns[k].handle] = arrived[conns[k].handle]
      BY <1>7
    <3> QED BY <1>1, <2>1, <3>1, <3>2, <3>3 DEF ConnOK
  <2> QED BY <2>2, <2>3
<1>10. HandleResolves'
  <2> SUFFICES ASSUME NEW h \in Handle, streams[h] \notin shared \cup {NoKey} PROVE Resolves(h)'
    BY <1>1 DEF HandleResolves
  <2>1. streams[h] \in Key
    BY <1>2, HandleTypes
  <2>2. Resolves(h)
    BY <1>2 DEF StreamPart, HandleResolves
  <2> QED BY <1>1, <1>6, <2>1, <2>2 DEF Resolves
<1>11. BytesAccounted'
  <2> SUFFICES ASSUME NEW h \in Handle, streams[h] \notin shared \cup {NoKey} PROVE Accounted(h)'
    BY <1>1 DEF BytesAccounted
  <2>1. streams[h] \in Key /\ Accounted(h)
    BY <1>2, HandleTypes DEF StreamPart, BytesAccounted
  <2>2. CASE h = o
    <3>1. streams[h] = key /\ c.handle = h /\ conns[streams[h]] = c
      BY <1>4, <2>2 DEF o, c
    <3>2. got[h] + c.rx = arrived[h] /\ (h \in eof => c.rx = 0 /\ c.stage \in {"eof", "done", "aborted"})
      BY <2>1, <3>1 DEF Accounted
    <3>3. conns'[key].handle = h /\ conns'[key].rx = c.rx + n /\ conns'[key].stage = next
      BY <1>6, <3>1 DEF c
    <3>4. arrived'[h] = arrived[h] + n
      BY <1>7, <2>2
    <3>5. got[h] + (c.rx + n) = arrived[h] + n
      BY <1>5, <2>2, <3>2
    <3>6. h \in eof => c.rx + n = 0 /\ next \in {"eof", "done", "aborted"}
      BY <1>1, <1>3, <1>5, <3>2
    <3> QED BY <1>1, <3>1, <3>3, <3>4, <3>5, <3>6 DEF Accounted
  <2>3. CASE h # o
    <3>1. streams[h] # key
      BY <1>3, <1>4, <2>3, OwnerFacts DEF o, c
    <3>2. conns'[streams[h]] = conns[streams[h]] /\ arrived'[h] = arrived[h]
      BY <1>6, <1>7, <2>1, <2>3, <3>1
    <3> QED BY <1>1, <2>1, <3>2 DEF Accounted
  <2> QED BY <2>2, <2>3
<1>12. PortMapsExact' /\ FreshIds' /\ QueuesExact'
  <2>1. nextId \in Nat
    BY <1>2, TablesAssumption DEF TypeOK
  <2>2. \A h \in Handle : h >= nextId => arrived'[h] = arrived[h]
    BY <1>4, <1>7, <2>1 DEF Handle
  <2> QED BY <1>1, <2>2, SocketFrame
<1>13. HistoryExact' /\ SharingKnown'
  BY <1>1, <1>2 DEF StreamPart, HistoryExact, SharingKnown
<1> QED BY <1>8, <1>9, <1>10, <1>11, <1>12, <1>13 DEF TablesInv

\* tcp_read: a byte leaves the connection or the history for the application,
\* or the end of the stream is reported.
LEMMA TcpReadKeeps ==
    ASSUME TablesInv, NEW h \in Handle, TcpRead(h)
    PROVE  TablesInv'
<1> DEFINE key == streams[h]
           c == conns[key]
<1>1. TypeOK /\ StreamPart
  BY DEF TablesInv, StreamPart
<1>2. key # NoKey /\ key \in Key
  BY <1>1, HandleTypes DEF TcpRead
<1>3. UNCHANGED <<nextId, nextPort, udp, udpPorts, listeners, listenerPorts, streams,
                  closedOrder, arrived, released, shared>>
  BY DEF TcpRead
<1>4. h < nextId /\ ~(h >= nextId)
  BY <1>2, GivenOut
<1>5. closed[h] \in Nat /\ closed[h] <= MaxBytes + 1 /\ got[h] \in Nat /\ arrived[h] \in Nat
      /\ c.rx \in Nat /\ c.rx <= MaxBytes /\ MaxBytes \in Nat
  BY <1>1, <1>2, HandleTypes, ConnTypes, TablesAssumption
<1>6. \A g \in Handle : g # h /\ streams[g] = key => key \in shared
  BY <1>1, <1>2 DEF StreamPart, SharingKnown
<1>7. \A g \in Handle : streams[g] \notin shared \cup {NoKey} => streams[g] \in Key /\ Accounted(g) /\ Resolves(g)
  BY <1>1, HandleTypes DEF StreamPart, BytesAccounted, HandleResolves
<1>8. SharingKnown'
  BY <1>1, <1>3 DEF StreamPart, SharingKnown
<1>9. ASSUME c.stage # "none", c.rx > 0,
             conns' = [conns EXCEPT ![key].rx = @ - 1], got' = [got EXCEPT ![h] = @ + 1],
             UNCHANGED <<closed, eof>>
      PROVE  TablesInv'
  <2>1. \A k \in Key : /\ conns'[k].handle = conns[k].handle /\ conns'[k].stage = conns[k].stage
                       /\ conns'[k].rx = IF k = key THEN c.rx - 1 ELSE conns[k].rx
                       /\ k # key => conns'[k] = conns[k]
    BY <1>1, <1>9 DEF TypeOK
  <2>2. \A g \in Handle : got'[g] = IF g = h THEN got[h] + 1 ELSE got[g]
    BY <1>1, <1>9 DEF TypeOK
  <2>3. TypeOK'
    <3>1. c.rx - 1 \in 0 .. MaxBytes /\ got[h] + 1 \in Nat
      BY <1>5, <1>9
    <3>2. got' \in [Handle -> Nat]
      BY <1>1, <1>9, <3>1 DEF TypeOK
    <3>3. conns' \in [Key -> [handle : Handle \cup {0}, stage : Stage, rx : 0 .. MaxBytes]]
      BY <1>1, <1>2, <1>9, <3>1 DEF TypeOK
    <3> QED BY <1>1, <1>3, <1>9, <3>2, <3>3 DEF TypeOK
  <2>4. ConnsOK'
    <3> SUFFICES ASSUME NEW k \in Key PROVE ConnOK(k)'
      BY DEF ConnsOK
    <3>1. ConnOK(k)
      BY <1>1 DEF StreamPart, ConnsOK
    <3>2. CASE k = key
      <4>1. c.handle \in Handle /\ streams[c.handle] = k /\ closed[c.handle] = Absent
            /\ c.rx <= arrived[c.handle]
        BY <1>9, <3>1, <3>2 DEF ConnOK
      <4>2. arrived[c.handle] \in Nat
        BY <1>1, <4>1, HandleTypes
      <4>3. c.rx - 1 <= arrived[c.handle]
        <5> HIDE DEF c
        <5> QED BY <1>5, <4>1, <4>2
      <4> QED BY <1>3, <1>9, <2>1, <3>2, <4>1, <4>3 DEF ConnOK
    <3>3. CASE k # key
      BY <1>3, <1>9, <2>1, <3>1, <3>3 DEF ConnOK
    <3> QED BY <3>2, <3>3
  <2>5. HandleResolves'
    BY <1>3, <1>7, <1>9, <2>1 DEF HandleResolves, Resolves
  <2>6. BytesAccounted'
    <3> SUFFICES ASSUME NEW g \in Handle, streams[g] \notin shared \cup {NoKey} PROVE Accounted(g)'
      BY <1>3 DEF BytesAccounted
    <3>1. CASE g = h
      <4>1. c.handle = h
        BY <1>2, <1>9, <3>1, OwnerFacts
      <4>2. got[h] + c.rx = arrived[h] /\ h \notin eof
        BY <1>5, <1>7, <1>9, <3>1, <4>1 DEF Accounted
      <4>3. got[h] + 1 + (c.rx - 1) = arrived[h]
        <5> HIDE DEF c
        <5> QED BY <1>5, <4>2
      <4>4. got'[h] = got[h] + 1 /\ conns'[key].rx = c.rx - 1 /\ conns'[key].handle = h
        BY <1>2, <2>1, <2>2, <4>1
      <4> HIDE DEF c, key
      <4>5. streams'[h] = key
        BY <1>3 DEF key
      <4> QED BY <1>3, <1>9, <3>1, <4>2, <4>3, <4>4, <4>5 DEF Accounted
    <3>2. CASE g # h
      <4>1. streams[g] # key
        BY <1>6, <3>2
      <4>2. conns'[streams[g]] = conns[streams[g]] /\ got'[g] = got[g]
        BY <1>7, <2>1, <2>2, <3>2, <4>1
      <4> QED BY <1>3, <1>7, <1>9, <4>2 DEF Accounted
    <3> QED BY <3>1, <3>2
  <2>7. PortMapsExact' /\ FreshIds' /\ QueuesExact'
    <3>1. \A g \in Handle : g >= nextId => got'[g] = got[g]
      BY <1>4, <2>2
    <3> QED BY <1>3, <1>9, <3>1, SocketFrame
  <2>8. HistoryExact'
    BY <1>1, <1>3, <1>9 DEF StreamPart, HistoryExact
  <2> QED BY <1>8, <2>3, <2>4, <2>5, <2>6, <2>7, <2>8 DEF TablesInv
<1>10. ASSUME \/ c.stage \in {"eof", "done"} /\ c.rx = 0
              \/ c.stage = "none" /\ closed[h] = 0,
              eof' = eof \cup {h}, UNCHANGED <<conns, closed, got>>
       PROVE  TablesInv'
  <2>1. TypeOK'
    BY <1>1, <1>3, <1>10 DEF TypeOK
  <2>2. ConnsOK' /\ HandleResolves' /\ HistoryExact'
    BY <1>1, <1>3, <1>10 DEF StreamPart, ConnsOK, ConnOK, HandleResolves, Resolves, HistoryExact
  <2>3. BytesAccounted'
    <3> SUFFICES ASSUME NEW g \in Handle, streams[g] \notin shared \cup {NoKey} PROVE Accounted(g)'
      BY <1>3 DEF BytesAccounted
    <3>1. Accounted(g)
      BY <1>7
    <3>2. CASE g = h
      <4>1. c.stage # "none" => c.handle = h
        BY <1>2, <3>2, OwnerFacts
      <4>2. c.stage = "none" => c.handle # h
        BY <1>2, OwnerFacts
      <4> QED BY <1>3, <1>10, <3>1, <3>2, <4>1, <4>2 DEF Accounted
    <3>3. CASE g # h
      <4>1. g \in eof' <=> g \in eof
        BY <1>10, <3>3
      <4> QED BY <1>3, <1>10, <3>1, <4>1 DEF Accounted
    <3> QED BY <3>2, <3>3
  <2>4. PortMapsExact' /\ FreshIds' /\ QueuesExact'
    <3>1. \A g \in Handle : g >= nextId => (g \in eof' <=> g \in eof)
      BY <1>4, <1>10
    <3> QED BY <1>3, <1>10, <3>1, SocketFrame
  <2> QED BY <1>8, <2>1, <2>2, <2>3, <2>4 DEF TablesInv
<1>11. ASSUME c.stage = "none", closed[h] \notin {0, Absent},
              closed' = [closed EXCEPT ![h] = @ - 1], got' = [got EXCEPT ![h] = @ + 1],
              UNCHANGED <<conns, eof>>
       PROVE  TablesInv'
  <2>1. \A g \in Handle : /\ got'[g] = IF g = h THEN got[h] + 1 ELSE got[g]
                          /\ closed'[g] = IF g = h THEN closed[h] - 1 ELSE closed[g]
    BY <1>1, <1>11 DEF TypeOK
  <2>2. closed[h] - 1 \in 0 .. Absent /\ closed[h] - 1 # Absent /\ got[h] + 1 \in Nat
        /\ closed[h] # 0 /\ closed[h] # Absent
    BY <1>5, <1>11 DEF Absent
  <2>3. TypeOK'
    <3>1. closed' \in [Handle -> 0 .. Absent] /\ got' \in [Handle -> Nat]
      BY <1>1, <1>11, <2>2 DEF TypeOK
    <3> QED BY <1>1, <1>3, <1>11, <3>1 DEF TypeOK
  <2>4. \A g \in Handle : closed'[g] = Absent <=> closed[g] = Absent
    BY <2>1, <2>2
  <2>5. ConnsOK'
    <3> SUFFICES ASSUME NEW k \in Key PROVE ConnOK(k)'
      BY DEF ConnsOK
    <3>1. ConnOK(k)
      BY <1>1 DEF StreamPart, ConnsOK
    <3> QED BY <1>3, <1>11, <2>4, <3>1 DEF ConnOK
  <2>6. HandleResolves'
    BY <1>3, <1>7, <1>11, <2>4 DEF HandleResolves, Resolves
  <2>7. BytesAccounted'
    <3> SUFFICES ASSUME NEW g \in Handle, streams[g] \notin shared \cup {NoKey} PROVE Accounted(g)'
      BY <1>3 DEF BytesAccounted
    <3>1. Accounted(g)
      BY <1>7
    <3>2. CASE g = h
      <4>1. c.handle # h
        BY <1>2, <1>11, OwnerFacts
      <4>2. got[h] + closed[h] = arrived[h] /\ h \notin eof
        BY <1>11, <3>1, <3>2, <4>1 DEF Accounted
      <4>3. got[h] + 1 + (closed[h] - 1) = arrived[h]
        BY <1>5, <4>2
      <4>4. got'[h] = got[h] + 1 /\ closed'[h] = closed[h] - 1
        BY <2>1
      <4>5. conns'[streams'[h]].handle # h
        BY <1>3, <1>11, <4>1
      <4> QED BY <1>3, <1>11, <3>2, <4>2, <4>3, <4>4, <4>5 DEF Accounted
    <3>3. CASE g # h
      <4>1. got'[g] = got[g] /\ closed'[g] = closed[g]
        BY <2>1, <3>3
      <4> QED BY <1>3, <1>11, <3>1, <4>1 DEF Accounted
    <3> QED BY <3>2, <3>3
  <2>8. PortMapsExact' /\ FreshIds' /\ QueuesExact'
    <3>1. \A g \in Handle : g >= nextId => got'[g] = got[g] /\ closed'[g] = closed[g]
      BY <1>4, <2>1
    <3> QED BY <1>3, <1>11, <3>1, SocketFrame
  <2>9. HistoryExact'
    BY <1>1, <1>3, <2>4 DEF StreamPart, HistoryExact
  <2> QED BY <1>8, <2>3, <2>5, <2>6, <2>7, <2>8, <2>9 DEF TablesInv
<1> QED BY <1>9, <1>10, <1>11 DEF TcpRead

\* A connection enters the tables, on a key that has none.
LEMMA OpenKeeps ==
    ASSUME TablesInv, NEW key \in Key, conns[key].stage = "none", Open(key),
           UNCHANGED <<udp, closed, closedOrder, arrived, got, eof>>,
           \A h \in Handle : listeners'[h].port = listeners[h].port
    PROVE  /\ nextId \in Handle /\ nextId \in Nat /\ nextId' = nextId + 1 /\ nextId' \in 1 .. MaxId + 1
           /\ streams' \in [Handle -> Key \cup {NoKey}]
           /\ conns' \in [Key -> [handle : Handle \cup {0}, stage : Stage, rx : 0 .. MaxBytes]]
           /\ shared' \in SUBSET Key
           /\ \A h \in Handle : streams'[h] = IF h = nextId THEN key ELSE streams[h]
           /\ StreamPart'
           /\ \A h \in Handle : h >= nextId' => Unused(h)'
<1>1. TypeOK /\ FreshIds /\ StreamPart
  BY DEF TablesInv, StreamPart
<1>2. nextId \in Handle /\ nextId \in Nat /\ nextId' = nextId + 1 /\ nextId' \in 1 .. MaxId + 1
  BY <1>1, NewIdSound DEF Open
<1>3. Unused(nextId)
  BY <1>1, <1>2 DEF FreshIds
<1> DEFINE new == [handle |-> nextId, stage |-> "opening", rx |-> 0]
<1>4. /\ conns' = [conns EXCEPT ![key] = new]
      /\ streams' = [streams EXCEPT ![nextId] = key]
      /\ shared' = IF \E h \in Handle : streams[h] = key THEN shared \cup {key} ELSE shared
  BY DEF Open
<1>5. \A h \in Handle : streams'[h] = IF h = nextId THEN key ELSE streams[h]
  BY <1>1, <1>2, <1>4 DEF TypeOK
<1>6. \A k \in Key : conns'[k] = IF k = key THEN new ELSE conns[k]
  BY <1>1, <1>4 DEF TypeOK
<1>7. streams' \in [Handle -> Key \cup {NoKey}]
  BY <1>1, <1>2, <1>4 DEF TypeOK
<1>8. shared' \in SUBSET Key /\ shared \subseteq shared'
      /\ \A h \in Handle : streams[h] = key => key \in shared'
  BY <1>1, <1>4 DEF TypeOK
<1>9. conns' \in [Key -> [handle : Handle \cup {0}, stage : Stage, rx : 0 .. MaxBytes]]
  <2>1. new \in [handle : Handle \cup {0}, stage : Stage, rx : 0 .. MaxBytes]
    BY <1>2, TablesAssumption DEF Stage
  <2> HIDE DEF new
  <2> QED BY <1>1, <1>4, <2>1 DEF TypeOK
<1>10. key # NoKey
  BY NoKeyIsNone
<1>11. HistoryExact'
  BY <1>1 DEF StreamPart, HistoryExact
<1>12. ConnsOK'
  <2> SUFFICES ASSUME NEW k \in Key PROVE ConnOK(k)'
    BY DEF ConnsOK
  <2>1. CASE k = key
    <3>1. conns'[k].handle = nextId /\ conns'[k].stage = "opening" /\ conns'[k].rx = 0
      BY <1>6, <2>1
    <3>2. streams'[nextId] = key /\ closed'[nextId] = Absent /\ arrived'[nextId] = 0
      BY <1>2, <1>3, <1>5 DEF Unused
    <3> QED BY <1>2, <2>1, <3>1, <3>2 DEF ConnOK
  <2>2. CASE k # key
    <3>1. conns'[k] = conns[k] /\ ConnOK(k)
      BY <1>1, <1>6, <2>2 DEF StreamPart, ConnsOK
    <3>2. conns[k].stage # "none" => conns[k].handle \in Handle /\ conns[k].handle < nextId
      BY OwnerFacts
    <3>3. conns[k].stage # "none" => conns[k].handle # nextId
      BY <1>2, <3>2 DEF Handle
    <3>4. conns[k].stage # "none" => streams'[conns[k].handle] = streams[conns[k].handle]
      BY <1>5, <3>2, <3>3
    <3> QED BY <3>1, <3>4 DEF ConnOK
  <2> QED BY <2>1, <2>2
<1>13. SharingKnown'
  <2> SUFFICES ASSUME NEW g \in Handle, NEW h \in Handle, g # h, streams'[g] = streams'[h]
               PROVE  streams'[h] \in shared' \cup {NoKey}
    BY DEF SharingKnown
  <2>1. CASE g = nextId
    BY <1>5, <1>8, <2>1
  <2>2. CASE h = nextId
    BY <1>5, <1>8, <2>2
  <2>3. CASE g # nextId /\ h # nextId
    BY <1>1, <1>5, <1>8, <2>3 DEF StreamPart, SharingKnown
  <2> QED BY <2>1, <2>2, <2>3
<1>14. ASSUME NEW h \in Handle, streams'[h] \notin shared' \cup {NoKey}, h # nextId
       PROVE  /\ streams'[h] = streams[h] /\ conns'[streams[h]] = conns[streams[h]]
              /\ Resolves(h) /\ Accounted(h)
  <2>1. streams'[h] = streams[h] /\ streams[h] # key
    BY <1>5, <1>8, <1>14
  <2>2. streams[h] \in Key
    BY <1>1, <1>14, <2>1, HandleTypes
  <2>3. streams[h] \notin shared \cup {NoKey}
    BY <1>8, <1>14, <2>1
  <2> QED BY <1>1, <1>6, <2>1, <2>2, <2>3 DEF StreamPart, HandleResolves, BytesAccounted
<1>15. conns'[streams'[nextId]].handle = nextId /\ conns'[streams'[nextId]].rx = 0
  BY <1>2, <1>5, <1>6
<1>16. HandleResolves'
  <2> SUFFICES ASSUME NEW h \in Handle, streams'[h] \notin shared' \cup {NoKey} PROVE Resolves(h)'
    BY DEF HandleResolves
  <2>1. CASE h = nextId
    BY <1>15, <2>1 DEF Resolves
  <2>2. CASE h # nextId
    BY <1>14, <2>2 DEF Resolves
  <2> QED BY <2>1, <2>2
<1>17. BytesAccounted'
  <2> SUFFICES ASSUME NEW h \in Handle, streams'[h] \notin shared' \cup {NoKey} PROVE Accounted(h)'
    BY DEF BytesAccounted
  <2>1. CASE h = nextId
    BY <1>3, <1>15, <2>1 DEF Accounted, Unused
  <2>2. CASE h # nextId
    BY <1>14, <2>2 DEF Accounted
  <2> QED BY <2>1, <2>2
<1>18. \A h \in Handle : h >= nextId' => Unused(h)'
  <2> SUFFICES ASSUME NEW h \in Handle, h >= nextId' PROVE Unused(h)'
    OBVIOUS
  <2>1. h >= nextId /\ h # nextId
    BY <1>2 DEF Handle
  <2>2. Unused(h)
    BY <1>1, <2>1 DEF FreshIds
  <2> QED BY <1>5, <2>1, <2>2 DEF Unused
<1>19. StreamPart'
  BY <1>11, <1>12, <1>13, <1>16, <1>17 DEF StreamPart
<1> HIDE DEF new
<1> QED BY <1>2, <1>5, <1>7, <1>8, <1>9, <1>18, <1>19

\* tcp_connect and tcp_connect_from.
LEMMA TcpConnectKeeps ==
    ASSUME TablesInv, NEW asked \in ListenPort \cup {0}, NEW r \in Remote, TcpConnect(asked, r)
    PROVE  TablesInv'
<1>1. PICK p \in Port :
        /\ ChoosePort(asked, [q \in Port |-> 0], p)
        /\ conns[[port |-> p, remote |-> r]].stage = "none"
        /\ Open([port |-> p, remote |-> r])
        /\ UNCHANGED <<udp, udpPorts, listeners, listenerPorts, closed, closedOrder,
                       arrived, got, eof, released>>
  BY DEF TcpConnect
<1> DEFINE key == [port |-> p, remote |-> r]
<1>2. key \in Key
  BY DEF Key
<1>3. TypeOK /\ PortMapsExact /\ FreshIds /\ QueuesExact
  BY DEF TablesInv
<1>4. nextPort' \in Ephemeral
  BY <1>1, <1>3, ChooseSound
<1>5. conns[key].stage = "none" /\ Open(key)
  BY <1>1
<1> HIDE DEF key
<1>6. /\ nextId \in Handle /\ nextId \in Nat /\ nextId' = nextId + 1 /\ nextId' \in 1 .. MaxId + 1
      /\ streams' \in [Handle -> Key \cup {NoKey}]
      /\ conns' \in [Key -> [handle : Handle \cup {0}, stage : Stage, rx : 0 .. MaxBytes]]
      /\ shared' \in SUBSET Key
      /\ \A h \in Handle : streams'[h] = IF h = nextId THEN key ELSE streams[h]
      /\ StreamPart'
      /\ \A h \in Handle : h >= nextId' => Unused(h)'
  BY <1>1, <1>2, <1>5, OpenKeeps
<1>7. TypeOK'
  BY <1>1, <1>3, <1>4, <1>6 DEF TypeOK
<1>8. PortMapsExact'
  BY <1>1, <1>3 DEF PortMapsExact
<1>9. \A l \in Handle : /\ listeners[l].queue \in Seq(Handle)
                        /\ \A i \in DOMAIN listeners[l].queue :
                              listeners[l].queue[i] \in Handle /\ listeners[l].queue[i] < nextId
  <2> SUFFICES ASSUME NEW l \in Handle
               PROVE  /\ listeners[l].queue \in Seq(Handle)
                      /\ \A i \in DOMAIN listeners[l].queue :
                              listeners[l].queue[i] \in Handle /\ listeners[l].queue[i] < nextId
    OBVIOUS
  <2>1. listeners[l].queue \in Seq(Handle)
    BY <1>3 DEF TypeOK
  <2> QED BY <1>3, <2>1, SeqFacts DEF FreshIds
<1>10. FreshIds'
  <2>1. \A l \in Handle : \A i \in DOMAIN listeners[l].queue : listeners[l].queue[i] < nextId'
    BY <1>6, <1>9 DEF Handle
  <2> QED BY <1>1, <1>6, <2>1 DEF FreshIds
<1>11. QueuesExact'
  <2>1. ASSUME NEW h \in Handle, NEW g \in Range(listeners[h].queue), streams'[g] # NoKey
        PROVE  streams'[g].port = listeners[h].port
    <3>1. g \in Handle /\ g # nextId
      BY <1>6, <1>9 DEF Range, Handle
    <3>2. streams'[g] = streams[g]
      BY <1>6, <3>1
    <3> QED BY <1>3, <2>1, <3>2 DEF QueuesExact
  <2> QED BY <1>1, <1>3, <2>1 DEF QueuesExact, Listening
<1> QED BY <1>6, <1>7, <1>8, <1>10, <1>11 DEF TablesInv, StreamPart

\* A SYN finds a listener with room: the connection enters the tables and its
\* handle the accept queue.
LEMMA DispatchSynKeeps ==
    ASSUME TablesInv, NEW key \in Key, DispatchSyn(key)
    PROVE  TablesInv'
<1> DEFINE l == listenerPorts[key.port]
           q == listeners[l].queue
<1>1. /\ conns[key].stage = "none" /\ l # 0 /\ ~BacklogFull(l) /\ Open(key)
      /\ listeners' = [listeners EXCEPT ![l].queue = Append(@, nextId)]
      /\ UNCHANGED <<nextPort, udp, udpPorts, listenerPorts, closed, closedOrder,
                     arrived, got, eof, released>>
  BY DEF DispatchSyn
<1>2. TypeOK /\ PortMapsExact /\ FreshIds /\ QueuesExact
  BY DEF TablesInv
<1>3. key.port \in Port
  BY DEF Key
<1>4. l \in Handle
  BY <1>1, <1>2, <1>3 DEF TypeOK
<1>5. listeners[l].port = key.port /\ key.port # 0
  BY <1>2, <1>3, <1>4, NoKeyIsNone DEF PortMapsExact
<1> HIDE DEF l
<1>6. q \in Seq(Handle) /\ Len(q) \in Nat /\ Len(q) < Backlog /\ DOMAIN q = 1 .. Len(q)
  <2>1. q \in Seq(Handle)
    BY <1>2, <1>4 DEF TypeOK
  <2>2. ~(Len(q) >= Backlog)
    BY <1>1 DEF BacklogFull
  <2> QED BY <2>1, <2>2, SeqFacts, TablesAssumption
<1>7. nextId \in Handle
  BY <1>1, <1>2, NewIdSound DEF Open
<1> DEFINE r == Append(q, nextId)
<1>8. /\ r \in Seq(Handle) /\ Len(r) = Len(q) + 1 /\ DOMAIN r = 1 .. Len(q) + 1
      /\ \A i \in 1 .. Len(q) : r[i] = q[i]
      /\ r[Len(q) + 1] = nextId
  <2> HIDE DEF q
  <2>1. /\ r \in Seq(Handle) /\ Len(r) = Len(q) + 1
        /\ \A i \in 1 .. Len(q) : r[i] = q[i]
        /\ r[Len(q) + 1] = nextId
    BY <1>6, <1>7, AppendProperties
  <2> QED BY <2>1, SeqFacts
<1>9. /\ listeners' \in [Handle -> [port : Port \cup {0}, queue : Seq(Handle)]]
      /\ \A h \in Handle : /\ listeners'[h].port = listeners[h].port
                           /\ listeners'[h].queue = IF h = l THEN r ELSE listeners[h].queue
  <2>1. listeners' = [listeners EXCEPT ![l].queue = r]
    BY <1>1
  <2>2. r \in Seq(Handle)
    BY <1>8
  <2> HIDE DEF r
  <2> QED BY <1>2, <1>4, <2>1, <2>2 DEF TypeOK
<1>10. /\ nextId \in Nat /\ nextId' = nextId + 1 /\ nextId' \in 1 .. MaxId + 1
       /\ streams' \in [Handle -> Key \cup {NoKey}]
       /\ conns' \in [Key -> [handle : Handle \cup {0}, stage : Stage, rx : 0 .. MaxBytes]]
       /\ shared' \in SUBSET Key
       /\ \A h \in Handle : streams'[h] = IF h = nextId THEN key ELSE streams[h]
       /\ StreamPart'
       /\ \A h \in Handle : h >= nextId' => Unused(h)'
  <2> HIDE DEF r, q
  <2> QED BY <1>1, <1>9, OpenKeeps
<1>11. TypeOK'
  BY <1>1, <1>2, <1>9, <1>10 DEF TypeOK
<1>12. PortMapsExact'
  BY <1>1, <1>2, <1>9 DEF PortMapsExact
<1>13. \A h \in Handle : /\ listeners[h].queue \in Seq(Handle)
                         /\ \A i \in DOMAIN listeners[h].queue :
                               listeners[h].queue[i] \in Handle /\ listeners[h].queue[i] < nextId
  <2> SUFFICES ASSUME NEW h \in Handle
               PROVE  /\ listeners[h].queue \in Seq(Handle)
                      /\ \A i \in DOMAIN listeners[h].queue :
                              listeners[h].queue[i] \in Handle /\ listeners[h].queue[i] < nextId
    OBVIOUS
  <2>1. listeners[h].queue \in Seq(Handle)
    BY <1>2 DEF TypeOK
  <2> QED BY <1>2, <2>1, SeqFacts DEF FreshIds
<1> HIDE DEF r
\* An entry of a queue is an old entry of it, or the new handle at the end of l's.
<1>14. ASSUME NEW h \in Handle, NEW i \in DOMAIN listeners'[h].queue
       PROVE  \/ /\ i \in DOMAIN listeners[h].queue
                 /\ listeners'[h].queue[i] = listeners[h].queue[i]
                 /\ listeners'[h].queue[i] \in Handle
                 /\ listeners'[h].queue[i] < nextId
              \/ h = l /\ i = Len(q) + 1 /\ listeners'[h].queue[i] = nextId
  <2>1. CASE h # l
    BY <1>9, <1>13, <2>1
  <2>2. CASE h = l
    <3>1. listeners'[h].queue = r /\ i \in 1 .. Len(q) + 1
      BY <1>8, <1>9, <2>2
    <3>2. CASE i = Len(q) + 1
      BY <1>8, <2>2, <3>1, <3>2
    <3>3. CASE i \in 1 .. Len(q)
      <4>1. r[i] = q[i] /\ i \in DOMAIN q /\ q[i] \in Handle /\ q[i] < nextId
        BY <1>4, <1>6, <1>8, <1>13, <3>3
      <4> QED BY <2>2, <3>1, <4>1
    <3> QED BY <1>6, <3>1, <3>2, <3>3
  <2> QED BY <2>1, <2>2
<1>15. FreshIds'
  <2>1. \A h \in Handle : \A i \in DOMAIN listeners'[h].queue : listeners'[h].queue[i] < nextId'
    BY <1>10, <1>14 DEF Handle
  <2> QED BY <1>10, <2>1 DEF FreshIds
<1>16. QueuesExact'
  <2>1. \A h \in Handle : Len(listeners'[h].queue) <= Backlog
    <3> SUFFICES ASSUME NEW h \in Handle PROVE Len(listeners'[h].queue) <= Backlog
      OBVIOUS
    <3>1. CASE h = l
      BY <1>6, <1>8, <1>9, <3>1, TablesAssumption
    <3>2. CASE h # l
      BY <1>2, <1>9, <3>2 DEF QueuesExact
    <3> QED BY <3>1, <3>2
  <2>2. \A h \in Handle : listeners'[h].queue # <<>> => Listening(h)'
    BY <1>2, <1>5, <1>9 DEF QueuesExact, Listening
  <2>3. ASSUME NEW h \in Handle, NEW m \in Handle,
               NEW i \in DOMAIN listeners'[h].queue, NEW j \in DOMAIN listeners'[m].queue,
               listeners'[h].queue[i] = listeners'[m].queue[j]
        PROVE  h = m /\ i = j
    <3>1. nextId \in Nat /\ Handle \subseteq Nat
      BY <1>10 DEF Handle
    <3>2. CASE listeners'[h].queue[i] = nextId
      <4>1. ~(nextId < nextId)
        BY <3>1
      <4>2. h = l /\ i = Len(q) + 1
        BY <1>14, <3>2, <4>1
      <4>3. m = l /\ j = Len(q) + 1
        BY <1>14, <2>3, <3>2, <4>1
      <4> QED BY <4>2, <4>3
    <3>3. CASE listeners'[h].queue[i] # nextId
      <4>1. /\ i \in DOMAIN listeners[h].queue /\ j \in DOMAIN listeners[m].queue
            /\ listeners[h].queue[i] = listeners[m].queue[j]
        BY <1>14, <2>3, <3>3
      <4> QED BY <1>2, <4>1 DEF QueuesExact
    <3> QED BY <3>2, <3>3
  <2>4. ASSUME NEW h \in Handle, NEW g \in Range(listeners'[h].queue), streams'[g] # NoKey
        PROVE  streams'[g].port = listeners'[h].port
    <3>1. PICK i \in DOMAIN listeners'[h].queue : g = listeners'[h].queue[i]
      BY DEF Range
    <3>2. CASE h = l /\ g = nextId
      BY <1>5, <1>7, <1>9, <1>10, <3>2
    <3>3. CASE i \in DOMAIN listeners[h].queue /\ g = listeners[h].queue[i]
               /\ g \in Handle /\ g < nextId
      <4>1. g \in Range(listeners[h].queue)
        BY <3>3 DEF Range
      <4>2. g # nextId
        BY <1>10, <3>3 DEF Handle
      <4>3. streams'[g] = streams[g]
        BY <1>10, <3>3, <4>2
      <4> QED BY <1>2, <1>9, <2>4, <4>1, <4>3 DEF QueuesExact
    <3> QED BY <1>14, <3>1, <3>2, <3>3
  <2> QED BY <2>1, <2>2, <2>3, <2>4 DEF QueuesExact
<1> QED BY <1>10, <1>11, <1>12, <1>15, <1>16 DEF TablesInv, StreamPart

\* The connection that was opened as h is among those that go.
Moved(h, D) == streams[h] \in D /\ conns[streams[h]].handle = h

\* Handles P leave tcp_streams and connections D leave tcp_connections.  This is
\* sound when a connection that stays keeps its owner, and when a connection
\* that goes while its handle stays leaves its unread bytes in the history.
LEMMA ForgetKeeps ==
    ASSUME TablesInv, NEW P \in SUBSET Handle, NEW D \in SUBSET Key,
           UNCHANGED <<arrived, got, eof, shared>>,
           \A h \in Handle : streams'[h] = IF h \in P THEN NoKey ELSE streams[h],
           \A k \in Key : conns'[k] = IF k \in D THEN NoConn ELSE conns[k],
           \A k \in Key : k \notin D => conns[k].handle \notin P,
           \A h \in Handle \ P : \/ closed'[h] = closed[h]
                                 \/ Moved(h, D) /\ closed'[h] = conns[streams[h]].rx,
           \A h \in Handle \ P : Moved(h, D) /\ streams[h] \notin shared
                                    => closed'[h] = conns[streams[h]].rx
    PROVE  ConnsOK' /\ SharingKnown' /\ HandleResolves' /\ BytesAccounted'
<1>1. TypeOK /\ StreamPart
  BY DEF TablesInv, StreamPart
<1>2. NoConn.stage = "none" /\ NoConn.handle = 0 /\ 0 \notin Handle /\ NoKey \notin Key
  BY NoKeyIsNone DEF NoConn, Handle
<1>3. ConnsOK'
  <2> SUFFICES ASSUME NEW k \in Key PROVE ConnOK(k)'
    BY DEF ConnsOK
  <2>1. CASE k \in D
    BY <1>2, <2>1 DEF ConnOK
  <2>2. CASE k \notin D
    <3>1. conns'[k] = conns[k] /\ ConnOK(k) /\ conns[k].handle \notin P
      BY <1>1, <2>2 DEF StreamPart, ConnsOK
    <3>2. ASSUME conns[k].stage # "none"
          PROVE  LET o == conns[k].handle
                 IN  streams'[o] = streams[o] /\ closed'[o] = closed[o] /\ o \in Handle
      <4> DEFINE o == conns[k].handle
      <4>1. o \in Handle /\ streams[o] = k
        BY <3>2, OwnerFacts
      <4>2. ~Moved(o, D)
        BY <2>2, <4>1 DEF Moved
      <4> QED BY <3>1, <4>1, <4>2
    <3> QED BY <3>1, <3>2 DEF ConnOK
  <2> QED BY <2>1, <2>2
<1>4. SharingKnown'
  <2> SUFFICES ASSUME NEW g \in Handle, NEW h \in Handle, g # h, streams'[g] = streams'[h]
               PROVE  streams'[h] \in shared \cup {NoKey}
    BY DEF SharingKnown
  <2> QED BY <1>1 DEF StreamPart, SharingKnown
<1>5. ASSUME NEW h \in Handle, streams'[h] \notin shared \cup {NoKey}
      PROVE  Resolves(h)' /\ Accounted(h)'
  <2> DEFINE k == streams[h]
             c == conns[k]
  <2>1. h \notin P /\ streams'[h] = k /\ k \in Key /\ k \notin shared /\ Resolves(h) /\ Accounted(h)
    BY <1>1, <1>5, HandleTypes DEF StreamPart, HandleResolves, BytesAccounted
  <2>2. CASE k \notin D
    <3>1. conns'[k] = c /\ closed'[h] = closed[h]
      BY <2>1, <2>2 DEF Moved
    <3> QED BY <2>1, <3>1 DEF Resolves, Accounted
  <2>3. CASE k \in D /\ c.handle = h
    <3>1. Moved(h, D) /\ closed'[h] = c.rx
      BY <2>1, <2>3 DEF Moved
    <3>2. conns'[k].handle # h
      BY <1>2, <2>3
    <3>3. c.rx \in Nat /\ c.rx <= MaxBytes /\ c.rx # Absent
      <4>1. c.rx \in Nat /\ c.rx <= MaxBytes
        BY <1>1, <2>1, ConnTypes
      <4> HIDE DEF c
      <4> QED BY <4>1, TablesAssumption DEF Absent
    <3>4. got[h] + c.rx = arrived[h] /\ (h \in eof => c.rx = 0)
      BY <2>1, <2>3 DEF Accounted
    <3> HIDE DEF c
    <3> QED BY <2>1, <3>1, <3>2, <3>3, <3>4 DEF Resolves, Accounted
  <2>4. CASE k \in D /\ c.handle # h
    <3>1. ~Moved(h, D)
      BY <2>4 DEF Moved
    <3>2. closed'[h] = closed[h] /\ conns'[k].handle # h
      BY <1>2, <2>1, <2>4, <3>1
    <3> QED BY <2>1, <2>4, <3>2 DEF Resolves, Accounted
  <2> QED BY <2>2, <2>3, <2>4
<1>6. HandleResolves' /\ BytesAccounted'
  BY <1>5 DEF HandleResolves, BytesAccounted
<1> QED BY <1>3, <1>4, <1>6

\* tcp_release and the tail of tcp_abort: the handle leaves the history, the
\* eviction order and tcp_streams; D is the connection that goes with it.
LEMMA ReleaseKeeps ==
    ASSUME TablesInv, NEW h \in Handle, streams[h] # NoKey, Release(h),
           NEW D \in SUBSET {streams[h]},
           conns' = [k \in Key |-> IF k \in D THEN NoConn ELSE conns[k]],
           streams[h] \notin D => conns[streams[h]].handle # h,
           UNCHANGED <<nextId, nextPort, udp, udpPorts, listeners, listenerPorts,
                       arrived, got, eof, shared>>
    PROVE  TablesInv'
<1>1. TypeOK /\ HistoryExact /\ StreamPart
  BY DEF TablesInv, StreamPart
<1>2. streams[h] \in Key
  BY <1>1, HandleTypes
<1>3. /\ closed' = [closed EXCEPT ![h] = Absent]
      /\ closedOrder' = RemoveFirst(closedOrder, h)
      /\ streams' = [streams EXCEPT ![h] = NoKey]
      /\ released' = released \cup {h}
  BY DEF Release
<1>4. \A g \in Handle : /\ streams'[g] = IF g \in {h} THEN NoKey ELSE streams[g]
                        /\ closed'[g] = IF g = h THEN Absent ELSE closed[g]
  BY <1>1, <1>3 DEF TypeOK
<1>5. closedOrder \in Seq(Handle) /\ OnceEach(closedOrder)
  BY <1>1 DEF TypeOK, HistoryExact, OnceEach
<1>6. /\ closedOrder' \in Seq(Handle) /\ Len(closedOrder') <= Len(closedOrder)
      /\ OnceEach(closedOrder') /\ Range(closedOrder') = Range(closedOrder) \ {h}
  BY <1>3, <1>5, RemoveOne
<1>7. HistoryExact'
  <2>1. Range(closedOrder') = {g \in Handle : closed'[g] # Absent}
    BY <1>1, <1>4, <1>6 DEF HistoryExact
  <2>2. Len(closedOrder') <= MaxHistory
    BY <1>1, <1>5, <1>6, SeqFacts, TablesAssumption DEF HistoryExact
  <2> QED BY <1>6, <2>1, <2>2 DEF HistoryExact, OnceEach
<1>8. TypeOK'
  <2>1. Absent \in 0 .. Absent
    BY TablesAssumption DEF Absent
  <2>2. closed' \in [Handle -> 0 .. Absent] /\ streams' \in [Handle -> Key \cup {NoKey}]
    BY <1>1, <1>3, <2>1 DEF TypeOK
  <2>3. NoConn \in [handle : Handle \cup {0}, stage : Stage, rx : 0 .. MaxBytes]
    BY TablesAssumption DEF NoConn, Stage
  <2>4. conns' \in [Key -> [handle : Handle \cup {0}, stage : Stage, rx : 0 .. MaxBytes]]
    BY <1>1, <2>3 DEF TypeOK
  <2> QED BY <1>1, <1>3, <1>6, <2>2, <2>4 DEF TypeOK
<1>9. ConnsOK' /\ SharingKnown' /\ HandleResolves' /\ BytesAccounted'
  <2>1. D \in SUBSET Key /\ {h} \in SUBSET Handle
    BY <1>2
  <2>2. \A k \in Key : conns'[k] = IF k \in D THEN NoConn ELSE conns[k]
    OBVIOUS
  <2>3. \A k \in Key : k \notin D => conns[k].handle \notin {h}
    BY OwnerFacts
  <2>4. \A g \in Handle \ {h} : closed'[g] = closed[g]
    BY <1>4
  <2>5. \A g \in Handle \ {h} : Moved(g, D) => streams[g] \in shared
    <3> SUFFICES ASSUME NEW g \in Handle \ {h}, Moved(g, D) PROVE streams[g] \in shared
      OBVIOUS
    <3>1. streams[g] = streams[h]
      BY DEF Moved
    <3> QED BY <1>1, <3>1 DEF StreamPart, SharingKnown
  <2> QED BY <1>4, <2>1, <2>2, <2>3, <2>4, <2>5, ForgetKeeps
<1>10. PortMapsExact' /\ FreshIds' /\ QueuesExact'
  <2>1. ~(h >= nextId)
    BY GivenOut
  <2>2. \A g \in Handle : streams'[g] \in {streams[g], NoKey}
    BY <1>4
  <2>3. \A g \in Handle : g >= nextId => closed'[g] = closed[g]
    BY <1>4, <2>1
  <2> QED BY <2>2, <2>3, SocketFrame
<1> QED BY <1>7, <1>8, <1>9, <1>10 DEF TablesInv

\* tcp_release: the application is done with a stream whose connection is gone.
LEMMA TcpReleaseKeeps ==
    ASSUME TablesInv, NEW h \in Handle, TcpRelease(h)
    PROVE  TablesInv'
<1>1. /\ streams[h] # NoKey /\ conns[streams[h]].handle # h /\ Release(h) /\ conns' = conns
      /\ UNCHANGED <<nextId, nextPort, udp, udpPorts, listeners, listenerPorts,
                     arrived, got, eof, shared>>
  BY DEF TcpRelease
<1> DEFINE D == {}
<1>2. conns' = [k \in Key |-> IF k \in D THEN NoConn ELSE conns[k]]
  BY <1>1 DEF TablesInv, TypeOK
<1>3. D \in SUBSET {streams[h]}
  OBVIOUS
<1> HIDE DEF D
<1> QED BY <1>1, <1>2, <1>3, ReleaseKeeps

\* tcp_abort: the connection goes with the handle.
LEMMA TcpAbortKeeps ==
    ASSUME TablesInv, NEW h \in Handle, TcpAbort(h)
    PROVE  TablesInv'
<1>1. /\ streams[h] # NoKey /\ conns' = [conns EXCEPT ![streams[h]] = NoConn] /\ Release(h)
      /\ UNCHANGED <<nextId, nextPort, udp, udpPorts, listeners, listenerPorts,
                     arrived, got, eof, shared>>
  BY DEF TcpAbort
<1> DEFINE D == {streams[h]}
<1>2. conns' = [k \in Key |-> IF k \in D THEN NoConn ELSE conns[k]]
  BY <1>1 DEF TablesInv, TypeOK
<1>3. D \in SUBSET {streams[h]} /\ streams[h] \in D
  OBVIOUS
<1> HIDE DEF D
<1> QED BY <1>1, <1>2, <1>3, ReleaseKeeps

-----------------------------------------------------------------------------
(* Accept queues.                                                          *)

\* tcp_accept: a prefix of the queue goes.
LEMMA TcpAcceptKeeps ==
    ASSUME TablesInv, NEW h \in Handle, TcpAccept(h)
    PROVE  TablesInv'
<1> DEFINE q == listeners[h].queue
<1>1. PICK n \in 1 .. Len(q) : listeners' = [listeners EXCEPT ![h].queue = SubSeq(q, n + 1, Len(q))]
  BY DEF TcpAccept
<1>2. /\ Listening(h)
      /\ UNCHANGED <<nextId, nextPort, udp, udpPorts, listenerPorts, streams, conns,
                     closed, closedOrder, history>>
  BY DEF TcpAccept
<1>3. TypeOK /\ PortMapsExact /\ FreshIds /\ QueuesExact /\ StreamPart
  BY DEF TablesInv, StreamPart
<1>4. q \in Seq(Handle) /\ OnceEach(q)
  BY <1>3 DEF TypeOK, QueuesExact, OnceEach
<1>5. Len(q) \in Nat /\ DOMAIN q = 1 .. Len(q) /\ n \in 0 .. Len(q) /\ n \in Nat
  BY <1>4, SeqFacts
<1> DEFINE r == SubSeq(q, n + 1, Len(q))
<1>6. r \in Seq(Handle) /\ Len(r) = Len(q) - n /\ \A i \in 1 .. Len(r) : r[i] = q[n + i]
  <2> HIDE DEF q
  <2> QED BY <1>4, <1>5, DropOldest
<1>7. DOMAIN r = 1 .. Len(q) - n
  BY <1>6, SeqFacts
<1>8. /\ listeners' \in [Handle -> [port : Port \cup {0}, queue : Seq(Handle)]]
      /\ \A g \in Handle : /\ listeners'[g].port = listeners[g].port
                           /\ listeners'[g].queue = IF g = h THEN r ELSE listeners[g].queue
  <2>1. r \in Seq(Handle) /\ listeners' = [listeners EXCEPT ![h].queue = r]
    BY <1>1, <1>6
  <2> HIDE DEF r
  <2> QED BY <1>3, <2>1 DEF TypeOK
<1> HIDE DEF r
\* Where an entry of a queue stood before.
<1> DEFINE w(g, i) == IF g = h THEN n + i ELSE i
<1>9. ASSUME NEW g \in Handle, NEW i \in DOMAIN listeners'[g].queue
      PROVE  /\ w(g, i) \in DOMAIN listeners[g].queue
             /\ listeners'[g].queue[i] = listeners[g].queue[w(g, i)]
  <2>1. CASE g = h
    <3>1. i \in 1 .. Len(q) - n /\ listeners'[g].queue = r
      BY <1>7, <1>8, <2>1
    <3>2. n + i \in DOMAIN q /\ r[i] = q[n + i]
      <4> HIDE DEF q
      <4> QED BY <1>5, <1>6, <3>1
    <3> QED BY <2>1, <3>1, <3>2
  <2>2. CASE g # h
    BY <1>8, <2>2
  <2> QED BY <2>1, <2>2
<1>10. TypeOK'
  BY <1>2, <1>3, <1>8 DEF TypeOK, history
<1>11. PortMapsExact'
  <2>1. \A p \in Port, g \in Handle : udpPorts'[p] = g <=> udp'[g].port = p
    BY <1>2, <1>3 DEF PortMapsExact
  <2>2. \A p \in Port, g \in Handle : listenerPorts'[p] = g <=> listeners'[g].port = p
    <3>1. \A p \in Port, g \in Handle : listenerPorts[p] = g <=> listeners[g].port = p
      BY <1>3 DEF PortMapsExact
    <3>2. \A g \in Handle : listeners'[g].port = listeners[g].port
      BY <1>8
    <3> QED BY <1>2, <3>1, <3>2
  <2> QED BY <2>1, <2>2 DEF PortMapsExact
<1>12. FreshIds'
  <2>1. \A g \in Handle : g >= nextId => Unused(g)'
    BY <1>2, <1>3, <1>8 DEF FreshIds, Unused, history
  <2>2. ASSUME NEW g \in Handle, NEW i \in DOMAIN listeners'[g].queue
        PROVE  listeners'[g].queue[i] < nextId
    <3> HIDE DEF w
    <3> QED BY <1>3, <1>9 DEF FreshIds
  <2> QED BY <1>2, <2>1, <2>2 DEF FreshIds
<1>13. QueuesExact'
  <2>1. \A g \in Handle : Len(listeners'[g].queue) <= Backlog
    <3> SUFFICES ASSUME NEW g \in Handle PROVE Len(listeners'[g].queue) <= Backlog
      OBVIOUS
    <3>1. Len(listeners[g].queue) <= Backlog
      BY <1>3 DEF QueuesExact
    <3>2. CASE g = h
      <4>1. Len(listeners'[g].queue) = Len(q) - n /\ Len(q) <= Backlog
        BY <1>6, <1>8, <3>1, <3>2
      <4> DEFINE y == Len(listeners'[g].queue)
                 z == Len(q)
      <4>2. y = z - n /\ z <= Backlog /\ z \in Nat /\ n \in Nat /\ Backlog \in Nat
        BY <1>5, <4>1, TablesAssumption
      <4>3. y <= Backlog
        <5> HIDE DEF y, z
        <5> QED BY <4>2
      <4> QED BY <4>3
    <3>3. CASE g # h
      BY <1>8, <3>1, <3>3
    <3> QED BY <3>2, <3>3
  <2>2. \A g \in Handle : listeners'[g].queue # <<>> => Listening(g)'
    BY <1>2, <1>3, <1>8 DEF QueuesExact, Listening
  <2>3. ASSUME NEW g \in Handle, NEW m \in Handle,
               NEW i \in DOMAIN listeners'[g].queue, NEW j \in DOMAIN listeners'[m].queue,
               listeners'[g].queue[i] = listeners'[m].queue[j]
        PROVE  g = m /\ i = j
    <3>1. g = m /\ w(g, i) = w(m, j)
      <4> HIDE DEF w
      <4> QED BY <1>3, <1>9, <2>3 DEF QueuesExact
    <3>2. i \in Nat /\ j \in Nat
      <4>1. listeners'[g].queue \in Seq(Handle) /\ listeners'[m].queue \in Seq(Handle)
        BY <1>8
      <4> QED BY <4>1, SeqFacts
    <3> QED BY <1>5, <3>1, <3>2
  <2>4. ASSUME NEW g \in Handle, NEW f \in Range(listeners'[g].queue), streams[f] # NoKey
        PROVE  streams[f].port = listeners'[g].port
    <3>1. PICK i \in DOMAIN listeners'[g].queue : f = listeners'[g].queue[i]
      BY DEF Range
    <3>2. f \in Range(listeners[g].queue)
      <4> HIDE DEF w
      <4> QED BY <1>9, <3>1 DEF Range
    <3> QED BY <1>3, <1>8, <2>4, <3>2 DEF QueuesExact
  <2> QED BY <1>2, <2>1, <2>2, <2>3, <2>4 DEF QueuesExact
<1>14. StreamPart'
  BY <1>2, <1>3, StreamPartFrame
<1> QED BY <1>10, <1>11, <1>12, <1>13, <1>14 DEF TablesInv, StreamPart

\* tcp_listener_close: the listener goes with the streams nobody has accepted.
LEMMA TcpListenerCloseKeeps ==
    ASSUME TablesInv, NEW h \in Handle, TcpListenerClose(h)
    PROVE  TablesInv'
<1> DEFINE q == listeners[h].queue
           P == Range(q)
           D == QueuedKeys(h) \cap Key
           p == listeners[h].port
<1>1. /\ p # 0
      /\ listeners' = [listeners EXCEPT ![h] = [port |-> 0, queue |-> <<>>]]
      /\ listenerPorts' = [listenerPorts EXCEPT ![p] = 0]
      /\ conns' = [k \in Key |-> IF k \in QueuedKeys(h) THEN NoConn ELSE conns[k]]
      /\ streams' = [g \in Handle |-> IF g \in P THEN NoKey ELSE streams[g]]
      /\ released' = released \cup P
      /\ UNCHANGED <<nextId, nextPort, udp, udpPorts, closed, closedOrder,
                     arrived, got, eof, shared>>
  BY DEF TcpListenerClose, Listening
<1>2. TypeOK /\ PortMapsExact /\ FreshIds /\ QueuesExact /\ StreamPart
  BY DEF TablesInv, StreamPart
<1>3. p \in Port /\ q \in Seq(Handle)
  BY <1>1, <1>2 DEF TypeOK
<1>4. P \in SUBSET Handle
  BY <1>3, SeqFacts
<1>5. listenerPorts[p] = h
  BY <1>2, <1>3 DEF PortMapsExact
<1>6. \A g \in Handle : /\ listeners'[g].port = IF g = h THEN 0 ELSE listeners[g].port
                        /\ listeners'[g].queue = IF g = h THEN <<>> ELSE listeners[g].queue
  BY <1>1, <1>2 DEF TypeOK
<1>7. \A x \in Port : listenerPorts'[x] = IF x = p THEN 0 ELSE listenerPorts[x]
  BY <1>1, <1>2, <1>3 DEF TypeOK
<1>8. \A g \in Handle : streams'[g] = IF g \in P THEN NoKey ELSE streams[g]
  BY <1>1
<1>9. \A k \in Key : conns'[k] = IF k \in D THEN NoConn ELSE conns[k]
  BY <1>1
<1>10. \A k : k \in QueuedKeys(h) <=> \E g \in P : streams[g] = k
  BY DEF QueuedKeys
<1> HIDE DEF P, D
<1>11. TypeOK'
  <2>1. listeners' \in [Handle -> [port : Port \cup {0}, queue : Seq(Handle)]]
    <3>1. [port |-> 0, queue |-> <<>>] \in [port : Port \cup {0}, queue : Seq(Handle)]
      OBVIOUS
    <3> QED BY <1>1, <1>2, <3>1 DEF TypeOK
  <2>2. listenerPorts' \in [Port -> Handle \cup {0}]
    BY <1>1, <1>2, <1>3 DEF TypeOK
  <2>3. NoConn \in [handle : Handle \cup {0}, stage : Stage, rx : 0 .. MaxBytes]
    BY TablesAssumption DEF NoConn, Stage
  <2>4. conns' \in [Key -> [handle : Handle \cup {0}, stage : Stage, rx : 0 .. MaxBytes]]
    BY <1>1, <1>2, <2>3 DEF TypeOK
  <2>5. streams' \in [Handle -> Key \cup {NoKey}] /\ released' \in SUBSET Handle
    BY <1>1, <1>2, <1>4 DEF TypeOK
  <2> QED BY <1>1, <1>2, <2>1, <2>2, <2>4, <2>5 DEF TypeOK
<1>12. PortMapsExact'
  <2>1. ASSUME NEW x \in Port, NEW g \in Handle PROVE listenerPorts'[x] = g <=> listeners'[g].port = x
    <3>1. 0 \notin Port /\ 0 \notin Handle
      BY NoKeyIsNone DEF Handle
    <3>2. listenerPorts[x] = g <=> listeners[g].port = x
      BY <1>2 DEF PortMapsExact
    <3> QED BY <1>5, <1>6, <1>7, <3>1, <3>2
  <2>2. \A x \in Port, g \in Handle : udpPorts'[x] = g <=> udp'[g].port = x
    BY <1>1, <1>2 DEF PortMapsExact
  <2> QED BY <2>1, <2>2 DEF PortMapsExact
<1>13. FreshIds'
  <2>1. \A g \in Handle : g >= nextId => Unused(g)'
    BY <1>1, <1>2, <1>6, <1>8 DEF FreshIds, Unused
  <2>2. ASSUME NEW g \in Handle, NEW i \in DOMAIN listeners'[g].queue
        PROVE  listeners'[g].queue[i] < nextId
    <3>1. g # h
      BY <1>6
    <3> QED BY <1>2, <1>6, <3>1 DEF FreshIds
  <2> QED BY <1>1, <2>1, <2>2 DEF FreshIds
<1>14. QueuesExact'
  <2>1. \A g \in Handle : Len(listeners'[g].queue) <= Backlog
    BY <1>2, <1>6, TablesAssumption DEF QueuesExact
  <2>2. \A g \in Handle : listeners'[g].queue # <<>> => Listening(g)'
    BY <1>2, <1>6 DEF QueuesExact, Listening
  <2>3. ASSUME NEW g \in Handle, NEW m \in Handle,
               NEW i \in DOMAIN listeners'[g].queue, NEW j \in DOMAIN listeners'[m].queue,
               listeners'[g].queue[i] = listeners'[m].queue[j]
        PROVE  g = m /\ i = j
    <3>1. g # h /\ m # h
      BY <1>6
    <3> QED BY <1>2, <1>6, <2>3, <3>1 DEF QueuesExact
  <2>4. ASSUME NEW g \in Handle, NEW f \in Range(listeners'[g].queue), streams'[f] # NoKey
        PROVE  streams'[f].port = listeners'[g].port
    <3>1. g # h
      BY <1>6 DEF Range
    <3>2. f \in Handle
      <4>1. listeners[g].queue \in Seq(Handle)
        BY <1>2 DEF TypeOK
      <4> QED BY <1>6, <3>1, <4>1, SeqFacts
    <3>3. streams'[f] = streams[f]
      BY <1>8, <2>4, <3>2
    <3> QED BY <1>2, <1>6, <2>4, <3>1, <3>3 DEF QueuesExact
  <2> QED BY <2>1, <2>2, <2>3, <2>4 DEF QueuesExact
<1>15. ConnsOK' /\ SharingKnown' /\ HandleResolves' /\ BytesAccounted'
  <2>1. D \in SUBSET Key
    BY DEF D
  <2>2. \A k \in Key : k \notin D => conns[k].handle \notin P
    <3> SUFFICES ASSUME NEW k \in Key, k \notin D, conns[k].handle \in P PROVE FALSE
      OBVIOUS
    <3>1. streams[conns[k].handle] = k
      BY <1>4, OwnerFacts
    <3> QED BY <1>10, <3>1 DEF D
  <2>3. \A g \in Handle \ P : closed'[g] = closed[g]
    BY <1>1
  <2>4. \A g \in Handle \ P : Moved(g, D) => streams[g] \in shared
    <3> SUFFICES ASSUME NEW g \in Handle \ P, Moved(g, D) PROVE streams[g] \in shared
      OBVIOUS
    <3>1. PICK f \in P : streams[f] = streams[g]
      BY <1>10 DEF Moved, D
    <3>2. streams[g] # NoKey
      BY <2>1, NoKeyIsNone DEF Moved
    <3> QED BY <1>2, <1>4, <3>1, <3>2 DEF StreamPart, SharingKnown
  <2>5. UNCHANGED <<arrived, got, eof, shared>>
    BY <1>1
  <2> QED BY <1>4, <1>8, <1>9, <2>1, <2>2, <2>3, <2>4, <2>5, ForgetKeeps
<1>16. HistoryExact'
  BY <1>1, <1>2 DEF StreamPart, HistoryExact
<1> QED BY <1>11, <1>12, <1>13, <1>14, <1>15, <1>16 DEF TablesInv

-----------------------------------------------------------------------------
(* Timers.                                                                 *)

\* Two lists without a common entry, one after the other.
LEMMA ConcatOnce ==
    ASSUME NEW S, NEW s \in Seq(S), NEW t \in Seq(S), OnceEach(s), OnceEach(t),
           Range(s) \cap Range(t) = {}
    PROVE  /\ s \o t \in Seq(S) /\ OnceEach(s \o t) /\ Len(s \o t) = Len(s) + Len(t)
           /\ Range(s \o t) = Range(s) \cup Range(t)
           /\ \A i \in 1 .. Len(s) : (s \o t)[i] = s[i]
<1> DEFINE u == s \o t
           m == Len(s)
           n == Len(t)
<1>1. m \in Nat /\ DOMAIN s = 1 .. m /\ (\A x : x \in Range(s) <=> \E i \in 1 .. m : s[i] = x)
  BY SeqFacts
<1>2. n \in Nat /\ DOMAIN t = 1 .. n /\ (\A x : x \in Range(t) <=> \E i \in 1 .. n : t[i] = x)
  BY SeqFacts
<1>3. u \in Seq(S) /\ Len(u) = m + n /\ \A i \in 1 .. m + n : u[i] = IF i <= m THEN s[i] ELSE t[i - m]
  BY ConcatProperties
<1>4. Range(u) = Range(s) \cup Range(t)
  BY RangeConcatenation
<1>5. DOMAIN u = 1 .. m + n
  <2> HIDE DEF u
  <2> QED BY <1>3, SeqFacts
<1> HIDE DEF u, m, n
<1>6. \A i \in 1 .. m + n : \/ i \in 1 .. m /\ u[i] = s[i] /\ u[i] \in Range(s)
                            \/ i - m \in 1 .. n /\ ~(i <= m) /\ u[i] = t[i - m] /\ u[i] \in Range(t)
  <2> SUFFICES ASSUME NEW i \in 1 .. m + n
               PROVE  \/ i \in 1 .. m /\ u[i] = s[i] /\ u[i] \in Range(s)
                      \/ i - m \in 1 .. n /\ ~(i <= m) /\ u[i] = t[i - m] /\ u[i] \in Range(t)
    OBVIOUS
  <2>1. CASE i <= m
    <3>1. i \in 1 .. m
      BY <1>1, <1>2, <2>1
    <3> QED BY <1>1, <1>3, <2>1, <3>1
  <2>2. CASE ~(i <= m)
    <3>1. i - m \in 1 .. n
      BY <1>1, <1>2, <2>2
    <3> QED BY <1>2, <1>3, <2>2, <3>1
  <2> QED BY <2>1, <2>2
<1>7. OnceEach(u)
  <2> SUFFICES ASSUME NEW i \in 1 .. m + n, NEW j \in 1 .. m + n, u[i] = u[j] PROVE i = j
    BY <1>5 DEF OnceEach
  <2>1. CASE i \in 1 .. m /\ u[i] = s[i] /\ u[i] \in Range(s)
    <3>1. j \in 1 .. m /\ u[j] = s[j]
      BY <1>6, <2>1
    <3> QED BY <1>1, <2>1, <3>1 DEF OnceEach
  <2>2. CASE i - m \in 1 .. n /\ u[i] = t[i - m] /\ u[i] \in Range(t)
    <3>1. j - m \in 1 .. n /\ u[j] = t[j - m]
      BY <1>6, <2>2
    <3>2. i - m = j - m
      BY <1>2, <2>2, <3>1 DEF OnceEach
    <3> QED BY <1>1, <1>2, <3>2
  <2> QED BY <1>6, <2>1, <2>2
<1>8. \A i \in 1 .. m : u[i] = s[i]
  BY <1>1, <1>2, <1>3
<1> QED BY <1>3, <1>4, <1>7, <1>8 DEF u, m, n

\* Finitely many connections: each has its own handle.  A list as long as the
\* set of finished connections that names all their handles names each once.
LEMMA ReapOrder ==
    ASSUME TablesInv, NEW done \in SUBSET Key, \A k \in done : conns[k].stage # "none",
           NEW new \in [1 .. Cardinality(done) -> {conns[k].handle : k \in done}],
           Range(new) = {conns[k].handle : k \in done}
    PROVE  new \in Seq(Handle) /\ OnceEach(new)
<1> DEFINE reaped == {conns[k].handle : k \in done}
           f == [k \in done |-> conns[k].handle]
           c == Cardinality(done)
<1>1. \A k \in done : conns[k].handle \in Handle /\ streams[conns[k].handle] = k
  BY OwnerFacts
<1>2. \A k \in done : f[k] = conns[k].handle
  OBVIOUS
<1>3. \A a, b \in done : f[a] = f[b] => a = b
  BY <1>1, <1>2
<1>4. f \in [done -> Handle] /\ f \in [done -> reaped] /\ DOMAIN f = done
  BY <1>1
<1>5. \A h \in reaped : \E k \in done : f[k] = h
  BY <1>2
<1> HIDE DEF f
<1>6. f \in Injection(done, Handle) /\ f \in Bijection(done, reaped)
  <2>1. IsInjective(f)
    BY <1>3, <1>4 DEF IsInjective
  <2> HIDE DEF reaped
  <2> QED BY <2>1, <1>4, <1>5 DEF Injection, Surjection, Bijection
<1>7. IsFiniteSet(Handle)
  BY FS_Interval, TablesAssumption DEF Handle
<1>8. IsFiniteSet(done)
  BY <1>6, <1>7, FS_Injection
<1>9. c \in Nat
  BY <1>8, FS_CardinalityType
<1>10. IsFiniteSet(reaped) /\ Cardinality(reaped) = c
  <2>1. ExistsBijection(done, reaped)
    BY <1>6 DEF ExistsBijection
  <2> HIDE DEF reaped
  <2> QED BY <1>8, <2>1, FS_Bijection
<1> HIDE DEF c, reaped
<1>11. IsFiniteSet(1 .. c) /\ Cardinality(1 .. c) = c
  BY <1>9, FS_Interval
<1>12. new \in [1 .. c -> reaped] /\ DOMAIN new = 1 .. c /\ Range(new) = reaped
  BY DEF c, reaped
<1>13. new \in Surjection(1 .. c, reaped)
  BY <1>12 DEF Surjection, Range
<1>14. new \in Injection(1 .. c, reaped)
  BY <1>10, <1>11, <1>13, FS_Surjection
<1>15. OnceEach(new)
  BY <1>14 DEF Injection, IsInjective, OnceEach
<1>16. reaped \subseteq Handle
  BY <1>1 DEF reaped
<1>17. new \in [1 .. c -> Handle]
  BY <1>12, <1>16
<1> QED BY <1>9, <1>15, <1>17

\* What step_timers did: done are the connections reaped, new their handles in
\* the order they entered closed_order, n how many of the oldest went.
Reaped(done, new, n) ==
    LET order == closedOrder \o new
        evicted == {order[i] : i \in 1 .. n}
    IN  /\ order \in Seq(Handle) /\ OnceEach(order)
        /\ n = Excess(Len(order)) /\ n \in 0 .. Len(order)
        /\ Len(order) - n <= MaxHistory
        /\ n > 0 => Len(order) - n = MaxHistory
        /\ Range(order) = Range(closedOrder) \cup Range(new)
        /\ \A i \in DOMAIN closedOrder : order[i] = closedOrder[i]
        /\ \A h \in Handle : h \in Range(new) <=> \E k \in done : conns[k].handle = h
        /\ closedOrder' = SubSeq(order, n + 1, Len(order))
        /\ \A h \in Handle : closed'[h] = IF h \in evicted THEN Absent
                                          ELSE IF h \in Range(new) THEN conns[streams[h]].rx
                                          ELSE closed[h]
        /\ \A h \in Handle : streams'[h] = IF h \in evicted THEN NoKey ELSE streams[h]
        /\ \A k \in Key : conns'[k] = IF k \in done THEN NoConn ELSE conns[k]

\* A call of step_timers reaps some connections in some order and evicts.
LEMMA StepTimersReaps ==
    ASSUME TablesInv, StepTimers
    PROVE  \E done \in SUBSET Key : \E new, n :
              (\A k \in done : conns[k].stage # "none") /\ Reaped(done, new, n)
<1>1. TypeOK /\ HistoryExact
  BY DEF TablesInv
<1>2. PICK gone \in SUBSET {k \in Key : conns[k].stage \in {"opening", "open", "eof"}} :
        LET done == gone \cup {k \in Key : conns[k].stage \in Reapable}
            reaped == {conns[k].handle : k \in done}
            keyOf(h) == CHOOSE k \in done : conns[k].handle = h
        IN  /\ \E new \in [1 .. Cardinality(done) -> reaped] :
                  LET order == closedOrder \o new
                      n == Excess(Len(order))
                      evicted == Evicted(order)
                  IN  /\ Range(new) = reaped
                      /\ closedOrder' = SubSeq(order, n + 1, Len(order))
                      /\ closed' = [h \in Handle |-> IF h \in evicted THEN Absent
                                                    ELSE IF h \in reaped THEN Residual(conns[keyOf(h)])
                                                    ELSE closed[h]]
                      /\ streams' = WithoutHandles(evicted)
            /\ conns' = [k \in Key |-> IF k \in done THEN NoConn ELSE conns[k]]
  BY DEF StepTimers
<1> DEFINE done == gone \cup {k \in Key : conns[k].stage \in Reapable}
           reaped == {conns[k].handle : k \in done}
           keyOf(h) == CHOOSE k \in done : conns[k].handle = h
<1>3. done \in SUBSET Key /\ \A k \in done : conns[k].stage # "none"
  BY DEF Reapable
<1>4. conns' = [k \in Key |-> IF k \in done THEN NoConn ELSE conns[k]]
  BY <1>2
<1>5. PICK new \in [1 .. Cardinality(done) -> reaped] :
          LET order == closedOrder \o new
              n == Excess(Len(order))
              evicted == Evicted(order)
          IN  /\ Range(new) = reaped
              /\ closedOrder' = SubSeq(order, n + 1, Len(order))
              /\ closed' = [h \in Handle |-> IF h \in evicted THEN Absent
                                            ELSE IF h \in reaped THEN Residual(conns[keyOf(h)])
                                            ELSE closed[h]]
              /\ streams' = WithoutHandles(evicted)
  BY <1>2
<1> DEFINE order == closedOrder \o new
           n == Excess(Len(order))
           evicted == {order[i] : i \in 1 .. n}
           ev == Evicted(order)
<1>6. evicted = ev
  BY DEF Evicted
<1> HIDE DEF done
<1>7. \A h \in reaped : keyOf(h) = streams[h]
  <2> SUFFICES ASSUME NEW h \in reaped PROVE keyOf(h) = streams[h]
    OBVIOUS
  <2>1. \E k \in done : conns[k].handle = h
    OBVIOUS
  <2>2. keyOf(h) \in done /\ conns[keyOf(h)].handle = h
    BY <2>1
  <2> HIDE DEF keyOf
  <2> QED BY <1>3, <2>2, OwnerFacts
<1>8. /\ Range(new) = reaped
      /\ closedOrder' = SubSeq(order, n + 1, Len(order))
      /\ closed' = [h \in Handle |-> IF h \in ev THEN Absent
                                    ELSE IF h \in reaped THEN Residual(conns[keyOf(h)])
                                    ELSE closed[h]]
      /\ streams' = WithoutHandles(ev)
  BY <1>5
<1>9. new \in Seq(Handle) /\ OnceEach(new)
  BY <1>3, <1>8, ReapOrder
<1>10. closedOrder \in Seq(Handle) /\ OnceEach(closedOrder)
  BY <1>1 DEF TypeOK, HistoryExact, OnceEach
<1>11. Range(closedOrder) \cap Range(new) = {}
  <2> SUFFICES ASSUME NEW h, h \in Range(closedOrder), h \in reaped PROVE FALSE
    BY <1>8
  <2>1. closed[h] # Absent
    BY <1>1 DEF HistoryExact
  <2>2. PICK k \in done : conns[k].handle = h
    OBVIOUS
  <2> QED BY <1>3, <2>1, <2>2, OwnerFacts
<1>12. \A h \in Handle : h \in Range(new) <=> \E k \in done : conns[k].handle = h
  BY <1>8
<1> HIDE DEF reaped, keyOf
<1>13. /\ order \in Seq(Handle) /\ OnceEach(order)
       /\ Range(order) = Range(closedOrder) \cup Range(new)
       /\ \A i \in 1 .. Len(closedOrder) : order[i] = closedOrder[i]
  BY <1>9, <1>10, <1>11, ConcatOnce
<1>14. DOMAIN closedOrder = 1 .. Len(closedOrder)
  BY <1>10, SeqFacts
<1>15. Len(order) \in Nat
  <2> HIDE DEF order
  <2> QED BY <1>13, SeqFacts
<1>16. /\ n \in 0 .. Len(order) /\ Len(order) - n <= MaxHistory
       /\ n > 0 => Len(order) - n = MaxHistory
  <2> HIDE DEF order
  <2> QED BY <1>15, TablesAssumption DEF Excess
<1>17. \A h \in Handle : closed'[h] = IF h \in evicted THEN Absent
                                      ELSE IF h \in Range(new) THEN conns[streams[h]].rx
                                      ELSE closed[h]
  <2> HIDE DEF evicted, ev
  <2> QED BY <1>6, <1>7, <1>8 DEF Residual
<1>18. \A h \in Handle : streams'[h] = IF h \in evicted THEN NoKey ELSE streams[h]
  <2> HIDE DEF evicted, ev
  <2> QED BY <1>6, <1>8 DEF WithoutHandles
<1>19. \A k \in Key : conns'[k] = IF k \in done THEN NoConn ELSE conns[k]
  BY <1>4
<1>20. closedOrder' = SubSeq(order, n + 1, Len(order))
  BY <1>8
<1>21. n = Excess(Len(order))
  OBVIOUS
<1>22. Reaped(done, new, n)
  BY <1>12, <1>13, <1>14, <1>16, <1>17, <1>18, <1>19, <1>20, <1>21 DEF Reaped
<1> HIDE DEF n
<1> QED BY <1>3, <1>22

\* step_timers: finished connections move to the history, the oldest records
\* of the history go.
LEMMA StepTimersKeeps ==
    ASSUME TablesInv, StepTimers
    PROVE  TablesInv'
<1>1. TypeOK /\ HistoryExact /\ StreamPart
  BY DEF TablesInv, StreamPart
<1>0. PICK done \in SUBSET Key : \E new, n : (\A k \in done : conns[k].stage # "none") /\ Reaped(done, new, n)
  BY StepTimersReaps
<1>2. PICK new, n : (\A k \in done : conns[k].stage # "none") /\ Reaped(done, new, n)
  BY <1>0
<1>3. UNCHANGED <<nextId, nextPort, udp, udpPorts, listeners, listenerPorts, history>>
  BY DEF StepTimers
<1> DEFINE order == closedOrder \o new
           evicted == {order[i] : i \in 1 .. n}
<1>4. /\ order \in Seq(Handle) /\ OnceEach(order)
      /\ n \in 0 .. Len(order) /\ Len(order) - n <= MaxHistory
      /\ Range(order) = Range(closedOrder) \cup Range(new)
      /\ closedOrder' = SubSeq(order, n + 1, Len(order))
  BY <1>2 DEF Reaped
<1>5. \A h \in Handle : h \in Range(new) <=> \E k \in done : conns[k].handle = h
  BY <1>2 DEF Reaped
<1>6. /\ \A h \in Handle : closed'[h] = IF h \in evicted THEN Absent
                                        ELSE IF h \in Range(new) THEN conns[streams[h]].rx
                                        ELSE closed[h]
      /\ \A h \in Handle : streams'[h] = IF h \in evicted THEN NoKey ELSE streams[h]
      /\ \A k \in Key : conns'[k] = IF k \in done THEN NoConn ELSE conns[k]
  BY <1>2 DEF Reaped
<1> HIDE DEF order
<1>7. /\ closedOrder' \in Seq(Handle) /\ Len(closedOrder') = Len(order) - n
      /\ OnceEach(closedOrder') /\ Range(closedOrder') = Range(order) \ evicted
  <2>1. order \in Seq(Handle) /\ OnceEach(order) /\ n \in 0 .. Len(order)
    BY <1>4
  <2>2. LET t == SubSeq(order, n + 1, Len(order))
        IN  /\ t \in Seq(Handle) /\ Len(t) = Len(order) - n /\ OnceEach(t)
            /\ Range(t) = Range(order) \ evicted
    BY <2>1, DropOldest
  <2> HIDE DEF evicted
  <2> QED BY <1>4, <2>2
<1>8. evicted \in SUBSET Handle
  BY <1>4, SeqFacts
<1> HIDE DEF evicted
<1>9. ASSUME NEW h \in Handle, h \in Range(new)
      PROVE  /\ streams[h] \in done /\ conns[streams[h]].handle = h
             /\ conns[streams[h]].rx \in 0 .. Absent /\ conns[streams[h]].rx # Absent
             /\ closed[h] = Absent
  <2>1. PICK k \in done : conns[k].handle = h
    BY <1>5, <1>9
  <2>2. streams[h] = k /\ closed[h] = Absent
    BY <1>2, <2>1, OwnerFacts
  <2>3. conns[k].rx \in Nat /\ conns[k].rx <= MaxBytes
    BY <1>1, ConnTypes
  <2>4. conns[k].rx \in 0 .. Absent /\ conns[k].rx # Absent
    BY <2>3, TablesAssumption DEF Absent
  <2> QED BY <2>1, <2>2, <2>4
<1>10. TypeOK'
  <2>1. Absent \in 0 .. Absent
    BY TablesAssumption DEF Absent
  <2>2. \A h \in Handle : closed'[h] \in 0 .. Absent
    BY <1>1, <1>6, <1>9, <2>1 DEF TypeOK
  <2>3. \A h \in Handle : streams'[h] \in Key \cup {NoKey}
    BY <1>1, <1>6 DEF TypeOK
  <2>4. NoConn \in [handle : Handle \cup {0}, stage : Stage, rx : 0 .. MaxBytes]
    BY TablesAssumption DEF NoConn, Stage
  <2>5. \A k \in Key : conns'[k] \in [handle : Handle \cup {0}, stage : Stage, rx : 0 .. MaxBytes]
    BY <1>1, <1>6, <2>4 DEF TypeOK
  <2>6. /\ \E X : closed' = [h \in Handle |-> X[h]]
        /\ \E X : streams' = [h \in Handle |-> X[h]]
        /\ \E X : conns' = [k \in Key |-> X[k]]
    <3>1. \E X : closed' = [h \in Handle |-> X[h]]
      BY DEF StepTimers
    <3>2. \E X : streams' = [h \in Handle |-> X[h]]
      BY DEF StepTimers, WithoutHandles
    <3>3. \E X : conns' = [k \in Key |-> X[k]]
      BY DEF StepTimers
    <3> QED BY <3>1, <3>2, <3>3
  <2> QED BY <1>1, <1>3, <1>7, <2>2, <2>3, <2>5, <2>6 DEF TypeOK, history
<1>11. HistoryExact'
  <2>1. \A h \in Handle : h \in Range(closedOrder) <=> closed[h] # Absent
    BY <1>1 DEF HistoryExact
  <2>2. ASSUME NEW h \in Handle PROVE h \in Range(closedOrder') <=> closed'[h] # Absent
    BY <1>4, <1>6, <1>7, <1>9, <2>1
  <2>3. Range(closedOrder') \subseteq Handle
    BY <1>7, SeqFacts
  <2>4. Range(closedOrder') = {h \in Handle : closed'[h] # Absent}
    BY <2>2, <2>3
  <2>5. Len(closedOrder') <= MaxHistory
    BY <1>4, <1>7
  <2> QED BY <1>7, <2>4, <2>5 DEF HistoryExact, OnceEach
<1>12. ConnsOK' /\ SharingKnown' /\ HandleResolves' /\ BytesAccounted'
  <2>1. UNCHANGED <<arrived, got, eof, shared>>
    BY <1>3 DEF history
  <2>2. \A k \in Key : k \notin done => conns[k].handle \notin evicted
    <3> SUFFICES ASSUME NEW k \in Key, k \notin done, conns[k].handle \in evicted PROVE FALSE
      OBVIOUS
    <3> DEFINE h == conns[k].handle
    <3>1. h \in Handle
      BY <1>8
    <3>2. streams[h] = k /\ closed[h] = Absent
      BY <3>1, OwnerFacts
    <3>3. h \notin Range(closedOrder)
      BY <1>1, <3>2 DEF HistoryExact
    <3>4. evicted \subseteq Range(order)
      <4>1. \A x : x \in Range(order) <=> \E i \in 1 .. Len(order) : order[i] = x
        BY <1>4, SeqFacts
      <4>2. \A i \in 1 .. n : i \in 1 .. Len(order)
        <5>1. Len(order) \in Nat
          BY <1>4, SeqFacts
        <5> QED BY <1>4, <5>1
      <4> QED BY <4>1, <4>2 DEF evicted
    <3>5. h \in Range(new)
      BY <1>4, <3>3, <3>4
    <3> QED BY <1>9, <3>1, <3>2, <3>5
  <2>3. \A h \in Handle \ evicted : \/ closed'[h] = closed[h]
                                    \/ Moved(h, done) /\ closed'[h] = conns[streams[h]].rx
    BY <1>6, <1>9 DEF Moved
  <2>4. \A h \in Handle \ evicted : Moved(h, done) => closed'[h] = conns[streams[h]].rx
    BY <1>5, <1>6 DEF Moved
  <2> QED BY <1>6, <1>8, <2>1, <2>2, <2>3, <2>4, ForgetKeeps
<1>13. PortMapsExact' /\ FreshIds' /\ QueuesExact'
  <2>1. UNCHANGED <<nextId, udp, udpPorts, listeners, listenerPorts>>
    BY <1>3
  <2>2. \A h \in Handle : streams'[h] \in {streams[h], NoKey}
    BY <1>6
  <2>3. ASSUME NEW h \in Handle, h >= nextId
        PROVE  closed'[h] = closed[h] /\ arrived'[h] = arrived[h] /\ got'[h] = got[h]
               /\ (h \in eof' <=> h \in eof)
    <3>1. streams[h] = NoKey /\ closed[h] = Absent
      BY <2>3 DEF TablesInv, FreshIds, Unused
    <3>2. h \notin Range(new)
      BY <1>9, <3>1, NoKeyIsNone
    <3> QED BY <1>3, <1>6, <3>1, <3>2 DEF history
  <2> QED BY <2>1, <2>2, <2>3, SocketFrame
<1> QED BY <1>10, <1>11, <1>12, <1>13 DEF TablesInv

-----------------------------------------------------------------------------
(* The inductive invariant, and what follows from it.                      *)

\* The empty tables.
LEMMA TablesInit == Init => TablesInv
<1> SUFFICES ASSUME Init PROVE TablesInv
  OBVIOUS
<1>1. NoConn \in [handle : Handle \cup {0}, stage : Stage, rx : 0 .. MaxBytes]
      /\ NoConn.stage = "none" /\ NoConn.handle = 0 /\ 0 \notin Handle
  BY TablesAssumption DEF NoConn, Stage, Handle
<1>2. Absent \in 0 .. Absent /\ 1 \in 1 .. MaxId + 1 /\ EphLow \in Ephemeral /\ 0 \in 0 .. MaxBytes
  BY TablesAssumption DEF Absent, Ephemeral
<1>3. <<>> \in Seq(Handle) /\ Len(<<>>) = 0 /\ DOMAIN <<>> = {} /\ Range(<<>>) = {}
  BY DEF Range
<1>4. TypeOK
  BY <1>1, <1>2, <1>3 DEF Init, TypeOK
<1>5. 0 \notin Port /\ NoKey \notin Key
  BY NoKeyIsNone
<1>6. PortMapsExact
  BY <1>1, <1>5 DEF Init, PortMapsExact
<1>7. \A h \in Handle : listeners[h].queue = <<>> /\ listeners[h].port = 0 /\ udp[h].port = 0
                        /\ streams[h] = NoKey /\ closed[h] = Absent
  BY DEF Init
<1>8. FreshIds
  BY <1>3, <1>7 DEF Init, FreshIds, Unused
<1>9. QueuesExact
  BY <1>3, <1>7, TablesAssumption DEF QueuesExact
<1>10. HistoryExact
  BY <1>3, <1>7, TablesAssumption DEF Init, HistoryExact
<1>11. ConnsOK /\ SharingKnown /\ HandleResolves /\ BytesAccounted
  BY <1>1, <1>7 DEF Init, ConnsOK, ConnOK, SharingKnown, HandleResolves, BytesAccounted
<1> QED BY <1>4, <1>6, <1>8, <1>9, <1>10, <1>11 DEF TablesInv

\* No call of the socket interface, no segment and no timer breaks the tables.
LEMMA TablesNext == TablesInv /\ [Next]_vars => TablesInv'
<1> SUFFICES ASSUME TablesInv, [Next]_vars PROVE TablesInv'
  OBVIOUS
<1>1. CASE \E asked \in ListenPort \cup {0} : UdpBind(asked) \/ TcpListen(asked)
  BY <1>1, UdpBindKeeps, TcpListenKeeps
<1>2. CASE \E p \in Port : DispatchUdp(p)
  BY <1>2, DispatchUdpKeeps
<1>3. CASE \E h \in Handle : UdpRecvFrom(h) \/ UdpClose(h)
  BY <1>3, UdpRecvFromKeeps, UdpCloseKeeps
<1>4. CASE \E h \in Handle : TcpAccept(h) \/ TcpListenerClose(h)
  BY <1>4, TcpAcceptKeeps, TcpListenerCloseKeeps
<1>5. CASE \E asked \in ListenPort \cup {0}, r \in Remote : TcpConnect(asked, r)
  BY <1>5, TcpConnectKeeps
<1>6. CASE \E k \in Key : DispatchSyn(k) \/ DispatchSegment(k)
  BY <1>6, DispatchSynKeeps, DispatchSegmentKeeps
<1>7. CASE \E h \in Handle : TcpRead(h) \/ TcpRelease(h) \/ TcpAbort(h)
  BY <1>7, TcpReadKeeps, TcpReleaseKeeps, TcpAbortKeeps
<1>8. CASE StepTimers
  BY <1>8, StepTimersKeeps
<1>9. CASE UNCHANGED vars
  <2>1. StreamPart'
    BY <1>9, StreamPartFrame DEF vars, tables, TablesInv, StreamPart
  <2>2. TypeOK' /\ PortMapsExact'
    BY <1>9 DEF vars, tables, history, TablesInv, TypeOK, PortMapsExact
  <2>3. FreshIds' /\ QueuesExact'
    BY <1>9 DEF vars, tables, history, TablesInv, FreshIds, Unused, QueuesExact, Listening
  <2> QED BY <2>1, <2>2, <2>3 DEF TablesInv, StreamPart
<1> QED BY <1>1, <1>2, <1>3, <1>4, <1>5, <1>6, <1>7, <1>8, <1>9 DEF Next

\* What the run checks follows from the invariant.
LEMMA TablesImplies == TablesInv => TablesExact /\ HandlesLead /\ EofMeansDrained
<1> SUFFICES ASSUME TablesInv PROVE TablesExact /\ HandlesLead /\ EofMeansDrained
  OBVIOUS
<1>1. TablesExact
  BY AllocateSound DEF TablesInv, TablesExact, TypeOK
<1>2. HandlesLead
  BY OwnerFacts DEF TablesInv, HandlesLead, ConnectionOwned
<1>3. EofMeansDrained
  <2> SUFFICES ASSUME NEW h \in eof, streams[h] \notin shared \cup {NoKey} PROVE got[h] = arrived[h]
    BY DEF EofMeansDrained
  <2>1. h \in Handle /\ got[h] \in Nat /\ TypeOK
    BY DEF TablesInv, TypeOK
  <2>2. Accounted(h)
    BY <2>1 DEF TablesInv, BytesAccounted
  <2>3. got[h] + 0 = arrived[h]
    BY <2>2 DEF Accounted
  <2> QED BY <2>1, <2>3
<1> QED BY <1>1, <1>2, <1>3

\* TablesInv is an invariant of the runtime.
THEOREM TablesInductive == Spec => []TablesInv
  BY TablesInit, TablesNext, PTL DEF Spec

\* After every call, segment or timer the port maps, the accept queues, the
\* history of finished streams and the answers of allocate_ephemeral_port agree
\* with the socket tables, for every size of every table.
THEOREM TablesAlwaysExact == Spec => []TablesExact
  BY TablesInductive, TablesImplies, PTL

\* No connection is left without a handle that reaches it, and no handle in
\* tcp_streams without an answer, whatever was released, aborted, reaped or
\* evicted, and in whatever order.
THEOREM HandlesAlwaysLead == Spec => []HandlesLead
  BY TablesInductive, TablesImplies, PTL

\* tcp_read reports the end of a stream only after every byte of it, also when
\* the connection was reaped with bytes unread.
THEOREM EofAlwaysDrained == Spec => []EofMeansDrained
  BY TablesInductive, TablesImplies, PTL

\* One step of EvictsOldestAtLimit, for one handle.
EvictsOldest(h) ==
    Known(h) /\ ~Known(h)' /\ streams[h] \notin shared =>
       \/ h \in released'
       \/ /\ Len(closedOrder') = MaxHistory
          /\ \A i \in DOMAIN closedOrder :
                (\A j \in DOMAIN closedOrder : closedOrder[j] = h => i < j)
                   => closed'[closedOrder[i]] = Absent

\* A step that drops no record and takes no connection from its owner.
LEMMA NothingForgotten ==
    ASSUME \A g \in Handle : closed'[g] = Absent => closed[g] = Absent,
           \A k \in Key : conns[k].handle \in Handle => conns'[k].handle = conns[k].handle
    PROVE  \A h \in Handle : EvictsOldest(h)
  BY DEF EvictsOldest, Known

\* A step that takes connections from their owners only where the owner is
\* released by it or its four-tuple is shared.
LEMMA OnlyReleased ==
    ASSUME TablesInv,
           \A g \in Handle : closed'[g] = Absent => closed[g] = Absent \/ g \in released',
           \A k \in Key : conns[k].handle \in Handle =>
              \/ conns'[k].handle = conns[k].handle
              \/ conns[k].handle \in released' \/ k \in shared
    PROVE  \A h \in Handle : EvictsOldest(h)
<1> SUFFICES ASSUME NEW h \in Handle, Known(h), ~Known(h)', streams[h] \notin shared
             PROVE  h \in released'
  BY DEF EvictsOldest
<1>1. CASE closed[h] # Absent
  BY <1>1 DEF Known
<1>2. CASE \E k \in Key : conns[k].handle = h
  <2>1. PICK k \in Key : conns[k].handle = h
    BY <1>2
  <2>2. streams[h] = k
    BY <2>1, OwnerFacts
  <2> QED BY <2>1, <2>2 DEF Known
<1> QED BY <1>1, <1>2 DEF Known

\* tcp_release and tcp_abort forget a stream the application gave up.
LEMMA ReleaseEvicts ==
    ASSUME TablesInv, NEW h \in Handle, TcpRelease(h) \/ TcpAbort(h)
    PROVE  \A g \in Handle : EvictsOldest(g)
<1>1. TypeOK /\ SharingKnown
  BY DEF TablesInv
<1>2. streams[h] # NoKey /\ streams[h] \in Key
  BY <1>1, HandleTypes DEF TcpRelease, TcpAbort
<1>3. closed' = [closed EXCEPT ![h] = Absent] /\ released' = released \cup {h}
  BY DEF TcpRelease, TcpAbort, Release
<1>4. \A g \in Handle : closed'[g] = Absent => closed[g] = Absent \/ g \in released'
  BY <1>1, <1>3 DEF TypeOK
<1>5. conns' = conns \/ conns' = [conns EXCEPT ![streams[h]] = NoConn]
  BY DEF TcpRelease, TcpAbort
<1>6. \A k \in Key : conns[k].handle \in Handle =>
              \/ conns'[k].handle = conns[k].handle
              \/ conns[k].handle \in released' \/ k \in shared
  <2> SUFFICES ASSUME NEW k \in Key, conns[k].handle \in Handle, conns'[k] # conns[k],
                      conns[k].handle # h
               PROVE  k \in shared
    BY <1>3
  <2>1. k = streams[h]
    BY <1>1, <1>2, <1>5 DEF TypeOK
  <2>2. streams[conns[k].handle] = k
    BY OwnerFacts
  <2> QED BY <1>1, <1>2, <2>1, <2>2 DEF SharingKnown
<1> QED BY <1>4, <1>6, OnlyReleased

\* tcp_listener_close forgets the streams of its queue.
LEMMA CloseEvicts ==
    ASSUME TablesInv, NEW h \in Handle, TcpListenerClose(h)
    PROVE  \A g \in Handle : EvictsOldest(g)
<1> DEFINE P == Range(listeners[h].queue)
<1>1. /\ conns' = [k \in Key |-> IF k \in QueuedKeys(h) THEN NoConn ELSE conns[k]]
      /\ released' = released \cup P /\ closed' = closed
  BY DEF TcpListenerClose
<1>2. TypeOK /\ SharingKnown
  BY DEF TablesInv
<1>3. P \subseteq Handle
  <2>1. listeners[h].queue \in Seq(Handle)
    BY <1>2 DEF TypeOK
  <2> QED BY <2>1, SeqFacts
<1>4. \A k \in Key : conns[k].handle \in Handle =>
              \/ conns'[k].handle = conns[k].handle
              \/ conns[k].handle \in released' \/ k \in shared
  <2> SUFFICES ASSUME NEW k \in Key, conns[k].handle \in Handle, conns'[k] # conns[k],
                      conns[k].handle \notin P
               PROVE  k \in shared
    BY <1>1
  <2>1. k \in QueuedKeys(h)
    BY <1>1
  <2>2. PICK g \in P : streams[g] = k
    BY <2>1 DEF QueuedKeys
  <2>3. streams[conns[k].handle] = k /\ k # NoKey
    BY OwnerFacts, NoKeyIsNone
  <2> QED BY <1>2, <1>3, <2>2, <2>3 DEF SharingKnown
<1>5. \A g \in Handle : closed'[g] = Absent => closed[g] = Absent \/ g \in released'
  BY <1>1
<1> QED BY <1>4, <1>5, OnlyReleased

\* reap_closed forgets a stream only at the limit, and the oldest first.
LEMMA ReapEvicts ==
    ASSUME TablesInv, StepTimers
    PROVE  \A h \in Handle : EvictsOldest(h)
<1>0. PICK done \in SUBSET Key : \E new, n : (\A k \in done : conns[k].stage # "none") /\ Reaped(done, new, n)
  BY StepTimersReaps
<1>1. PICK new, n : (\A k \in done : conns[k].stage # "none") /\ Reaped(done, new, n)
  BY <1>0
<1> DEFINE order == closedOrder \o new
           evicted == {order[i] : i \in 1 .. n}
<1>2. /\ order \in Seq(Handle) /\ OnceEach(order) /\ n \in 0 .. Len(order)
      /\ n > 0 => Len(order) - n = MaxHistory
      /\ \A i \in DOMAIN closedOrder : order[i] = closedOrder[i]
      /\ closedOrder' = SubSeq(order, n + 1, Len(order))
  BY <1>1 DEF Reaped
<1>3. \A h \in Handle : h \in Range(new) <=> \E k \in done : conns[k].handle = h
  BY <1>1 DEF Reaped
<1>4. /\ \A h \in Handle : closed'[h] = IF h \in evicted THEN Absent
                                        ELSE IF h \in Range(new) THEN conns[streams[h]].rx
                                        ELSE closed[h]
      /\ \A k \in Key : conns'[k] = IF k \in done THEN NoConn ELSE conns[k]
  BY <1>1 DEF Reaped
<1>5. closedOrder \in Seq(Handle) /\ TypeOK
  BY DEF TablesInv, TypeOK
<1>6. Len(closedOrder) \in Nat /\ DOMAIN closedOrder = 1 .. Len(closedOrder)
      /\ \A i \in DOMAIN closedOrder : closedOrder[i] \in Handle
  BY <1>5, SeqFacts
<1> HIDE DEF order
<1>7. Len(order) \in Nat /\ Len(closedOrder') = Len(order) - n
  <2>1. LET t == SubSeq(order, n + 1, Len(order)) IN Len(t) = Len(order) - n
    BY <1>2, DropOldest
  <2> QED BY <1>2, <2>1, SeqFacts
<1> SUFFICES ASSUME NEW h \in Handle, Known(h), ~Known(h)'
             PROVE  /\ Len(closedOrder') = MaxHistory
                    /\ \A i \in DOMAIN closedOrder :
                          (\A j \in DOMAIN closedOrder : closedOrder[j] = h => i < j)
                             => closed'[closedOrder[i]] = Absent
  BY DEF EvictsOldest
<1>8. h \in evicted
  <2> HIDE DEF evicted
  <2> SUFFICES ASSUME h \notin evicted PROVE FALSE
    OBVIOUS
  <2>1. closed'[h] = Absent /\ \A k \in Key : conns'[k].handle # h
    BY DEF Known
  <2>2. CASE h \in Range(new)
    <3>1. PICK k \in done : conns[k].handle = h
      BY <1>3, <2>2
    <3>2. streams[h] = k
      BY <3>1, OwnerFacts
    <3>3. conns[k].rx \in Nat /\ conns[k].rx <= MaxBytes
      BY <1>5, ConnTypes
    <3>4. conns[k].rx # Absent
      BY <3>3, TablesAssumption DEF Absent
    <3> QED BY <1>4, <2>1, <2>2, <3>2, <3>4
  <2>3. CASE h \notin Range(new)
    <3>1. closed[h] = Absent
      BY <1>4, <2>1, <2>3
    <3>2. PICK k \in Key : conns[k].handle = h
      BY <3>1 DEF Known
    <3>3. conns'[k] = conns[k]
      BY <1>3, <1>4, <2>3, <3>2
    <3> QED BY <2>1, <3>2, <3>3
  <2> QED BY <2>2, <2>3
<1>9. PICK e \in 1 .. n : order[e] = h
  BY <1>8
<1>10. e \in Nat /\ n \in Nat /\ e <= n /\ n > 0
  BY <1>2, <1>7, <1>9
<1>11. ASSUME NEW i \in DOMAIN closedOrder,
              \A j \in DOMAIN closedOrder : closedOrder[j] = h => i < j
       PROVE  closed'[closedOrder[i]] = Absent
  <2>1. i \in Nat /\ i >= 1
    BY <1>6
  <2>2. i < e
    <3>1. CASE e \in DOMAIN closedOrder
      BY <1>2, <1>9, <1>11, <3>1
    <3>2. CASE e \notin DOMAIN closedOrder
      BY <1>6, <1>10, <2>1, <3>2
    <3> QED BY <3>1, <3>2
  <2>3. i \in 1 .. n /\ order[i] = closedOrder[i]
    BY <1>2, <1>10, <2>1, <2>2
  <2>4. closedOrder[i] \in evicted /\ closedOrder[i] \in Handle
    BY <1>6, <2>3
  <2> HIDE DEF evicted
  <2> QED BY <1>4, <2>4
<1> QED BY <1>2, <1>7, <1>10, <1>11

\* A finished stream is forgotten only when the application gives it up, or at
\* MAX_CLOSED_STREAM_HISTORY together with all that finished before it.
THEOREM AlwaysEvictsOldest == Spec => EvictsOldestAtLimit
<1> DEFINE A == \A h \in Handle : EvictsOldest(h)
<1>1. TablesInv /\ [Next]_vars => A \/ UNCHANGED vars
  <2> SUFFICES ASSUME TablesInv, Next PROVE A
    OBVIOUS
  <2>1. TypeOK
    BY DEF TablesInv
  <2>2. CASE \/ \E asked \in ListenPort \cup {0} : UdpBind(asked) \/ TcpListen(asked)
             \/ \E p \in Port : DispatchUdp(p)
             \/ \E h \in Handle : UdpRecvFrom(h) \/ UdpClose(h) \/ TcpAccept(h)
    <3>1. UNCHANGED <<closed, conns>>
      BY <2>2 DEF UdpBind, TcpListen, DispatchUdp, UdpRecvFrom, UdpClose, TcpAccept
    <3> QED BY <3>1, NothingForgotten
  <2>3. CASE \/ \E asked \in ListenPort \cup {0}, r \in Remote : TcpConnect(asked, r)
             \/ \E k \in Key : DispatchSyn(k)
    <3>1. PICK key \in Key : conns[key].stage = "none" /\ Open(key) /\ closed' = closed
      <4>1. \A p \in Port, r \in Remote : [port |-> p, remote |-> r] \in Key
        BY DEF Key
      <4> QED BY <2>3, <4>1 DEF TcpConnect, DispatchSyn
    <3>2. conns[key].handle = 0 /\ 0 \notin Handle
      BY <3>1, OwnerFacts DEF Handle
    <3>3. \A k \in Key : k # key => conns'[k] = conns[k]
      BY <2>1, <3>1 DEF Open, TypeOK
    <3> QED BY <3>1, <3>2, <3>3, NothingForgotten
  <2>4. CASE \E k \in Key : DispatchSegment(k)
    <3>1. closed' = closed
      BY <2>4 DEF DispatchSegment
    <3>2. \A k \in Key : conns'[k].handle = conns[k].handle
      BY <2>1, <2>4 DEF DispatchSegment, TypeOK
    <3> QED BY <3>1, <3>2, NothingForgotten
  <2>5. ASSUME NEW h \in Handle, TcpRead(h) PROVE A
    <3>1. \A k \in Key : conns'[k].handle = conns[k].handle
      <4>1. conns' = conns \/ conns' = [conns EXCEPT ![streams[h]].rx = @ - 1]
        BY <2>5 DEF TcpRead
      <4>2. conns \in [Key -> [handle : Handle \cup {0}, stage : Stage, rx : 0 .. MaxBytes]]
        BY <2>1 DEF TypeOK
      <4>3. ASSUME conns' = [conns EXCEPT ![streams[h]].rx = @ - 1], NEW k \in Key
            PROVE  conns'[k].handle = conns[k].handle
        BY <4>2, <4>3
      <4> QED BY <4>1, <4>3
    <3>2. \A g \in Handle : closed'[g] = Absent => closed[g] = Absent
      <4>1. \/ closed' = closed
            \/ closed' = [closed EXCEPT ![h] = @ - 1] /\ closed[h] \notin {0, Absent}
        BY <2>5 DEF TcpRead
      <4>2. closed[h] \in Nat /\ closed[h] <= MaxBytes + 1 /\ MaxBytes \in Nat
        BY <2>1, HandleTypes, TablesAssumption
      <4>3. closed[h] - 1 # Absent
        BY <4>2 DEF Absent
      <4> QED BY <2>1, <4>1, <4>3 DEF TypeOK
    <3> QED BY <3>1, <3>2, NothingForgotten
  <2>6. CASE \E h \in Handle : TcpListenerClose(h)
    BY <2>6, CloseEvicts
  <2>7. CASE \E h \in Handle : TcpRelease(h) \/ TcpAbort(h)
    BY <2>7, ReleaseEvicts
  <2>8. CASE StepTimers
    BY <2>8, ReapEvicts
  <2> HIDE DEF A
  <2> QED BY <2>2, <2>3, <2>4, <2>5, <2>6, <2>7, <2>8 DEF Next
<1>2. EvictsOldestAtLimit <=> [][A]_vars
  BY DEF EvictsOldestAtLimit, EvictsOldest
<1> HIDE DEF A
<1> QED BY <1>1, <1>2, TablesInductive, PTL DEF Spec
====
