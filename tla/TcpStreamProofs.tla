--------------------------- MODULE TcpStreamProofs ---------------------------
(***************************************************************************)
(* Safety of the two hosts for every value of the constants: any initial   *)
(* sequence numbers and segment sizes, any data, any buffer capacities, any *)
(* number of faults.                                                       *)
(*                                                                         *)
(* First, every method of TcpConnection, for an arbitrary segment and      *)
(* arbitrary constants.  ConnOK is the part of the inductive invariant     *)
(* that speaks of one connection; each handler is shown to keep it, to     *)
(* emit well-formed segments and never to withdraw offered window.         *)
(*                                                                         *)
(* Then each host by itself.  IInv is inductive because ConnOK is          *)
(* preserved for an arbitrary segment: nothing about what is on the wire   *)
(* is needed beyond its type.  The one fact about the socket tables is     *)
(* that a slot still free holds the connection as it was created, so that  *)
(* a SYN starts from empty queues.                                         *)
(*                                                                         *)
(* The last part is about what is in flight: the two directions of a       *)
(* connection carry what the applications wrote when one host opens the    *)
(* connection and the other listens.  StreamInv says of every segment on   *)
(* the wire or waiting to be sent that its payload is the slice of the     *)
(* sender's stream that its number names, that its SYN and FIN have the    *)
(* numbers before and after the stream, and that what it acknowledges was  *)
(* received.  Everything a host has parked, delivered or queued is such a  *)
(* slice too.  The sender's fields that these facts mention only advance,  *)
(* so a segment stays good however long the network holds it.              *)
(***************************************************************************)
EXTENDS TcpPair, MCTcpPair, TLAPS, FiniteSetTheorems, SequenceTheorems,
        WellFoundedInduction, NaturalsInduction

-----------------------------------------------------------------------------
(* What every method of TcpConnection preserves.                           *)

\* The first sequence number the connection will not take.
Edge(c) == c.rcv_nxt + CurrentRcvWnd(c)

\* The receive buffer is within its capacity and parked data within the window;
\* nothing is parked before the peer's initial sequence number is known.
ReceiveOK(c) ==
    /\ Len(c.rx) <= RcvCapacity
    /\ \A s \in c.ooo : EndOf(s) <= Edge(c)
    /\ c.state \in {"Listen", "SynSent"} => c.ooo = {}

\* bytes_in_flight is the unacknowledged sequence space.
FlightOK(c) ==
    c.state \notin {"Closed", "TimeWait"} => c.snd_una + c.cc.in_flight = c.snd_nxt

ConnOK(c) == c \in Connection /\ ReceiveOK(c) /\ FlightOK(c)

\* What a handler that returned r on connection c guarantees.
Keeps(c, r) ==
    /\ ConnOK(r.c)
    /\ r.out \in Seq(Segment)
    /\ c.state \notin {"Closed", "Listen", "SynSent"} => Edge(r.c) >= Edge(c)

\* d has the receive side of c.
SameReceive(c, d) == d.rcv_nxt = c.rcv_nxt /\ d.rx = c.rx /\ d.ooo = c.ooo

-----------------------------------------------------------------------------
(* Naturals, sequences *)

\* A set of naturals that is not empty has a least element.
LEMMA NatMinimum ==
    ASSUME NEW T \in SUBSET Nat, T # {}
    PROVE  \E x \in T : \A y \in T : x <= y
<1> DEFINE R == OpToRel(<, Nat)
<1>1. IsWellFoundedOn(R, Nat)
  BY NatLessThanWellFounded
<1>2. \E x \in T : \A y \in T : ~(<<y, x>> \in R)
  <2> HIDE DEF R
  <2> QED BY <1>1, WFMin
<1>3. \A x, y \in Nat : ~(<<y, x>> \in R) => x <= y
  BY DEF R, OpToRel
<1> QED BY <1>2, <1>3

\* The saturating operations stay in the naturals.
LEMMA Saturating ==
    ASSUME NEW a \in Nat, NEW b \in Nat
    PROVE  /\ MinOf(a, b) \in Nat /\ MaxOf(a, b) \in Nat /\ Monus(a, b) \in Nat
           /\ MinOf(a, b) <= a /\ MinOf(a, b) <= b
           /\ MaxOf(a, b) >= a /\ MaxOf(a, b) >= b
  BY DEF MinOf, MaxOf, Monus

\* The growth of congestion avoidance is a natural number.
LEMMA Quotient ==
    ASSUME NEW a \in Nat, NEW b \in Nat, b > 0
    PROVE  a \div b \in Nat
  OBVIOUS

\* A part of a sequence of bytes, and its length.
LEMMA Slice ==
    ASSUME NEW S, NEW s \in Seq(S), NEW i \in Nat \ {0}, NEW j \in Int, j <= Len(s)
    PROVE  /\ SubSeq(s, i, j) \in Seq(S)
           /\ Len(SubSeq(s, i, j)) = IF i <= j THEN j - i + 1 ELSE 0
<1>1. \A k \in i .. j : s[k] \in S
  BY ElementOfSeq, LenProperties
<1>2. i \in Int
  OBVIOUS
<1> QED BY <1>1, <1>2, SubSeqProperties

-----------------------------------------------------------------------------
(* The congestion controller *)

\* CongestionControl::on_ack releases what was acknowledged.
LEMMA OnAckOK ==
    ASSUME NEW cc \in CongestionControl, NEW n \in Nat
    PROVE  /\ OnAck(cc, n) \in CongestionControl
           /\ OnAck(cc, n).in_flight = Monus(cc.in_flight, n)
<1>1. cc.mss * cc.mss \in Nat
  BY DEF CongestionControl
<1>2. cc.cwnd > 0 => (cc.mss * cc.mss) \div cc.cwnd \in Nat
  <2>1. cc.cwnd \in Nat BY DEF CongestionControl
  <2> QED BY <1>1, <2>1, Quotient
<1>3. GrownCwnd(cc, n) \in Nat
  <2> DEFINE q == (cc.mss * cc.mss) \div cc.cwnd
  <2>1. cc.cwnd > 0 => q \in Nat BY <1>2
  <2>2. /\ cc.cwnd \in Nat /\ cc.mss \in Nat /\ cc.ssthresh \in Nat
        /\ cc.state \in CongestionState
    BY DEF CongestionControl
  <2>3. cc.cwnd > 0 => MaxOf(q, 1) \in Nat
    <3> HIDE DEF q
    <3> QED BY <2>1, Saturating
  <2>4. MinOf(n, cc.mss) \in Nat
    BY <2>2, Saturating
  <2>5. GrownCwnd(cc, n) =
          CASE cc.state = "SlowStart" -> cc.cwnd + MinOf(n, cc.mss)
            [] cc.state = "CongestionAvoidance" ->
                  IF cc.cwnd > 0 THEN cc.cwnd + MaxOf(q, 1) ELSE cc.cwnd
            [] cc.state = "FastRecovery" -> cc.ssthresh
    BY DEF GrownCwnd
  <2> HIDE DEF q
  <2> QED BY <2>2, <2>3, <2>4, <2>5 DEF CongestionState
<1>4. Monus(cc.in_flight, n) \in Nat
  BY Saturating DEF CongestionControl
<1> DEFINE g == GrownCwnd(cc, n)
           f == Monus(cc.in_flight, n)
           s == IF cc.state = "SlowStart" /\ g < cc.ssthresh
                THEN "SlowStart" ELSE "CongestionAvoidance"
<1>5. OnAck(cc, n) = [cc EXCEPT !.in_flight = f, !.cwnd = g, !.dup_ack_count = 0, !.state = s]
  BY DEF OnAck
<1>6. g \in Nat /\ f \in Nat /\ s \in CongestionState
  BY <1>3, <1>4 DEF CongestionState
<1> HIDE DEF g, f, s
<1>7. OnAck(cc, n) \in CongestionControl
  <2>1. [cc EXCEPT !.in_flight = f, !.cwnd = g, !.dup_ack_count = 0, !.state = s]
          \in CongestionControl
    BY <1>6 DEF CongestionControl
  <2> QED BY <1>5, <2>1
<1>8. OnAck(cc, n).in_flight = f
  BY <1>5 DEF CongestionControl
<1> QED BY <1>7, <1>8 DEF f

\* The halved window is a natural number.
LEMMA HalvedOK ==
    ASSUME NEW cc \in CongestionControl
    PROVE  Halved(cc) \in Nat
<1>1. cc.cwnd \in Nat /\ cc.mss \in Nat
  BY DEF CongestionControl
<1>2. cc.cwnd \div 2 \in Nat /\ 2 * cc.mss \in Nat
  BY <1>1
<1> QED BY <1>2, Saturating DEF Halved

\* on_dup_ack leaves bytes_in_flight alone.
LEMMA OnDupAckOK ==
    ASSUME NEW cc \in CongestionControl
    PROVE  OnDupAck(cc) \in CongestionControl /\ OnDupAck(cc).in_flight = cc.in_flight
<1>1. Halved(cc) \in Nat
  BY HalvedOK
<1>2. CASE TriggersFastRetransmit(cc)
  <2> DEFINE h == Halved(cc)
             w == h + 3 * cc.mss
  <2>1. w \in Nat /\ h \in Nat
    BY <1>1 DEF CongestionControl
  <2>2. OnDupAck(cc) = [cc EXCEPT !.dup_ack_count = 3, !.ssthresh = h, !.cwnd = w,
                                  !.state = "FastRecovery"]
    BY <1>2 DEF OnDupAck
  <2> HIDE DEF w, h
  <2>3. [cc EXCEPT !.dup_ack_count = 3, !.ssthresh = h, !.cwnd = w, !.state = "FastRecovery"]
          \in CongestionControl
    BY <2>1 DEF CongestionControl, CongestionState
  <2>4. OnDupAck(cc).in_flight = cc.in_flight
    BY <2>2 DEF CongestionControl
  <2> QED BY <2>2, <2>3, <2>4
<1>3. CASE ~TriggersFastRetransmit(cc)
  <2> DEFINE w == IF cc.dup_ack_count >= 3 /\ cc.state = "FastRecovery"
                  THEN cc.cwnd + cc.mss ELSE cc.cwnd
             k == cc.dup_ack_count + 1
  <2>1. w \in Nat /\ k \in Nat
    BY DEF CongestionControl
  <2>2. OnDupAck(cc) = [cc EXCEPT !.dup_ack_count = k, !.cwnd = w]
    BY <1>3 DEF OnDupAck
  <2> HIDE DEF w, k
  <2> QED BY <2>1, <2>2 DEF CongestionControl
<1> QED BY <1>2, <1>3

\* on_timeout leaves bytes_in_flight alone.
LEMMA OnTimeoutOK ==
    ASSUME NEW cc \in CongestionControl
    PROVE  OnTimeout(cc) \in CongestionControl /\ OnTimeout(cc).in_flight = cc.in_flight
<1>1. Halved(cc) \in Nat
  BY HalvedOK
<1> QED BY <1>1 DEF OnTimeout, CongestionControl, CongestionState

\* So does the MSS option.
LEMMA SetMssOK ==
    ASSUME NEW cc \in CongestionControl, NEW n \in Nat
    PROVE  /\ [cc EXCEPT !.mss = n] \in CongestionControl
           /\ [cc EXCEPT !.mss = n].in_flight = cc.in_flight
  BY DEF CongestionControl

\* record_sent charges exactly what was sent.
LEMMA RecordSentOK ==
    ASSUME NEW cc \in CongestionControl, NEW n \in Nat
    PROVE  /\ RecordSent(cc, n) \in CongestionControl
           /\ RecordSent(cc, n).in_flight = cc.in_flight + n
  BY DEF RecordSent, CongestionControl

-----------------------------------------------------------------------------
(* The connection: new connections, windows, acknowledgements *)

\* new_server and new_client make a connection that satisfies ConnOK, with empty
\* queues and nothing in flight.
LEMMA NewConnectionOK ==
    ASSUME NEW state \in {"Closed", "Listen"}, NEW isn \in Nat, NEW mss \in Nat \ {0}
    PROVE  /\ ConnOK(NewConnection(state, isn, mss))
           /\ NewConnection(state, isn, mss).ooo = {}
           /\ NewConnection(state, isn, mss).state = state
           /\ NewConnection(state, isn, mss).snd_una = isn
           /\ NewConnection(state, isn, mss).snd_nxt = isn
           /\ NewConnection(state, isn, mss).cc.in_flight = 0
<1> DEFINE cc == [NewCongestion(DefaultMss) EXCEPT !.mss = mss]
<1>1. cc \in CongestionControl /\ cc.in_flight = 0
  BY SsthreshAssumption, EndpointAssumption
     DEF NewCongestion, CongestionControl, CongestionState
<1>2. <<>> \in Seq(Byte) /\ Len(<<>>) = 0
  BY EmptySeq
<1>3. NewConnection(state, isn, mss).cc = cc
  BY DEF NewConnection
<1> HIDE DEF cc
<1>4. NewConnection(state, isn, mss) \in Connection
  <2> SUFFICES ASSUME TRUE PROVE NewConnection(state, isn, mss) \in Connection
    OBVIOUS
  <2>1. [NewCongestion(DefaultMss) EXCEPT !.mss = mss] \in CongestionControl
    BY <1>1 DEF cc
  <2> QED BY <2>1, <1>2, EndpointAssumption DEF NewConnection, Connection, TcpState
<1>5. NewConnection(state, isn, mss).rx = <<>>
  BY DEF NewConnection
<1>6. /\ NewConnection(state, isn, mss).ooo = {}
      /\ NewConnection(state, isn, mss).state = state
      /\ NewConnection(state, isn, mss).snd_una = isn
      /\ NewConnection(state, isn, mss).snd_nxt = isn
  BY DEF NewConnection
<1> QED BY <1>1, <1>2, <1>3, <1>4, <1>5, <1>6, EndpointAssumption
        DEF ConnOK, ReceiveOK, FlightOK

\* The window is a natural number, and the buffer and the window make up the
\* capacity.
LEMMA WindowOK ==
    ASSUME NEW c \in Connection
    PROVE  /\ CurrentRcvWnd(c) \in Nat
           /\ Edge(c) \in Nat
           /\ Len(c.rx) \in Nat
           /\ Len(c.rx) <= RcvCapacity => Len(c.rx) + CurrentRcvWnd(c) = RcvCapacity
<1>1. Len(c.rx) \in Nat /\ c.rcv_nxt \in Nat
  BY LenProperties DEF Connection
<1> DEFINE n == Len(c.rx)
<1>2. CurrentRcvWnd(c) = IF RcvCapacity >= n THEN RcvCapacity - n ELSE 0
  BY DEF CurrentRcvWnd, Monus
<1>3. n \in Nat
  BY <1>1
<1> HIDE DEF n
<1>4. CurrentRcvWnd(c) \in Nat /\ (n <= RcvCapacity => n + CurrentRcvWnd(c) = RcvCapacity)
  BY <1>2, <1>3, EndpointAssumption
<1> QED BY <1>1, <1>4 DEF Edge, n

\* A change that leaves the receive side alone keeps ReceiveOK and the edge.
LEMMA SameReceiveOK ==
    ASSUME NEW c, NEW d, ReceiveOK(c), SameReceive(c, d),
           d.state \in {"Listen", "SynSent"} => d.ooo = {}
    PROVE  ReceiveOK(d) /\ Edge(d) = Edge(c)
  BY DEF ReceiveOK, SameReceive, Edge, CurrentRcvWnd

\* The blocks of a SACK option are pairs of sequence numbers.
LEMMA SackOptionOK ==
    ASSUME NEW c \in Connection
    PROVE  SackOption(c) \in SUBSET (Nat \X Nat)
<1>1. \A s \in c.ooo : s.seq \in Nat /\ EndOf(s) \in Nat
  BY LenProperties DEF Connection, OooSegment, EndOf
<1>2. SackBlocks(c.ooo) \in SUBSET (Nat \X Nat)
  BY <1>1 DEF SackBlocks
<1> QED BY <1>2 DEF SackOption

\* The segments a connection builds are well formed.
LEMMA AckSegmentOK ==
    ASSUME NEW c \in Connection, NEW seq \in Nat
    PROVE  AckSegment(c, seq) \in Segment
<1>1. CurrentRcvWnd(c) \in Nat
  BY WindowOK
<1>2. <<>> \in Seq(Byte)
  BY EmptySeq
<1> QED BY <1>1, <1>2 DEF AckSegment, Segment, Connection

\* build_ack
LEMMA BuildAckOK ==
    ASSUME NEW c, ConnOK(c)
    PROVE  Keeps(c, BuildAck(c)) /\ SameReceive(c, BuildAck(c).c)
           /\ BuildAck(c).c.state = c.state
<1> DEFINE w == CurrentRcvWnd(c)
           d == [c EXCEPT !.last_advertised_wnd = w]
           m == [AckSegment(c, c.snd_nxt) EXCEPT !.sack = SackOption(c)]
<1>1. c \in Connection /\ ReceiveOK(c) /\ FlightOK(c)
  BY DEF ConnOK
<1>2. w \in Nat /\ Edge(c) \in Nat
  BY <1>1, WindowOK
<1>3. m \in Segment
  <2>1. c.snd_nxt \in Nat BY <1>1 DEF Connection
  <2>2. AckSegment(c, c.snd_nxt) \in Segment BY <1>1, <2>1, AckSegmentOK
  <2>3. SackOption(c) \in SUBSET (Nat \X Nat) BY <1>1, SackOptionOK
  <2> QED BY <2>2, <2>3 DEF Segment
<1>4. BuildAck(c).c = d /\ BuildAck(c).out = <<m>>
  BY DEF BuildAck, Result
<1>5. d \in Connection
  <2> HIDE DEF w
  <2> QED BY <1>1, <1>2 DEF Connection
<1>6. /\ SameReceive(c, d) /\ d.state = c.state
      /\ d.snd_una = c.snd_una /\ d.snd_nxt = c.snd_nxt /\ d.cc = c.cc
  BY <1>1 DEF SameReceive, Connection
<1> HIDE DEF d, m
<1>7. ReceiveOK(d) /\ Edge(d) = Edge(c)
  BY <1>1, <1>6, SameReceiveOK DEF ReceiveOK, SameReceive
<1>8. <<m>> \in Seq(Segment)
  BY <1>3
<1> QED BY <1>1, <1>2, <1>4, <1>5, <1>6, <1>7, <1>8 DEF Keeps, ConnOK, FlightOK

-----------------------------------------------------------------------------
(* Reassembly *)

\* A function on 1 .. n is a sequence of length n.
LEMMA FcnIsSeq ==
    ASSUME NEW S, NEW n \in Nat, NEW f \in [1 .. n -> S]
    PROVE  f \in Seq(S) /\ Len(f) = n
<1>1. f \in Seq(S)
  BY SeqDef
<1>2. DOMAIN f = 1 .. n /\ DOMAIN f = 1 .. Len(f) /\ Len(f) \in Nat
  BY <1>1, LenProperties
<1> QED BY <1>1, <1>2

\* A covered position has a parked byte.
LEMMA ParkedByteOK ==
    ASSUME NEW segs \in SUBSET OooSegment, NEW k \in Nat, \E s \in segs : Covers(s, k)
    PROVE  ParkedByte(segs, k) \in Byte
<1> DEFINE C == {s \in segs : Covers(s, k)}
           T == {s.seq : s \in C}
           P(s) == Covers(s, k) /\ \A t \in segs : Covers(t, k) => s.seq <= t.seq
<1>1. T \in SUBSET Nat /\ T # {}
  BY DEF OooSegment
<1>2. PICK x \in T : \A y \in T : x <= y
  BY <1>1, NatMinimum
<1>3. \E s \in segs : P(s)
  BY <1>2
<1>4. (CHOOSE s \in segs : P(s)) \in segs /\ P(CHOOSE s \in segs : P(s))
  BY <1>3
<1> DEFINE s0 == CHOOSE s \in segs : P(s)
<1>5. s0 \in segs /\ Covers(s0, k)
  BY <1>4
<1>6. ParkedByte(segs, k) = s0.data[k - s0.seq + 1]
  BY DEF ParkedByte
<1> HIDE DEF s0
<1>7. s0.seq \in Nat /\ s0.data \in Seq(Byte) /\ Len(s0.data) \in Nat
  BY <1>5, LenProperties DEF OooSegment
<1>8. s0.seq <= k /\ k < s0.seq + Len(s0.data)
  BY <1>5 DEF Covers, EndOf
<1> DEFINE i == k - s0.seq + 1
           n == Len(s0.data)
<1>9. i \in 1 .. Len(s0.data)
  <2> n \in Nat BY <1>7
  <2> k < s0.seq + n BY <1>8
  <2> HIDE DEF n
  <2>1. i \in 1 .. n BY <1>7, <1>8
  <2> QED BY <2>1 DEF n
<1> HIDE DEF i
<1>10. s0.data[i] \in Byte
  BY <1>7, <1>9, ElementOfSeq
<1> QED BY <1>6, <1>10 DEF i

\* The contiguous data ends somewhere, at rcv_nxt or at the end of a parked
\* segment.
LEMMA ContiguousExists ==
    ASSUME NEW c \in Connection, ReceiveOK(c)
    PROVE  \E m \in {c.rcv_nxt} \cup {EndOf(s) : s \in c.ooo} : ContiguousTo(c, m)
<1> DEFINE U == {k \in Nat : c.rcv_nxt <= k /\ ~ \E s \in c.ooo : Covers(s, k)}
<1>1. Edge(c) \in Nat /\ c.rcv_nxt \in Nat /\ c.rcv_nxt <= Edge(c)
  <2>1. c.rcv_nxt \in Nat BY DEF Connection
  <2> QED BY <2>1, WindowOK DEF Edge
<1>2. \A s \in c.ooo : s.seq \in Nat /\ EndOf(s) \in Nat /\ EndOf(s) <= Edge(c)
  BY LenProperties DEF Connection, OooSegment, EndOf, ReceiveOK
<1>3. Edge(c) \in U
  BY <1>1, <1>2 DEF Covers
<1>4. PICK m \in U : \A y \in U : m <= y
  BY <1>3, NatMinimum
<1>5. \A k \in c.rcv_nxt .. (m - 1) : \E s \in c.ooo : Covers(s, k)
  <2> SUFFICES ASSUME NEW k \in c.rcv_nxt .. (m - 1), ~ \E s \in c.ooo : Covers(s, k)
               PROVE  FALSE
    OBVIOUS
  <2>1. k \in Nat /\ k < m /\ c.rcv_nxt <= k
    BY <1>1, <1>4
  <2>2. k \in U
    BY <2>1
  <2> QED BY <1>4, <2>1, <2>2
<1>6. ContiguousTo(c, m)
  BY <1>4, <1>5 DEF ContiguousTo
<1>7. CASE m = c.rcv_nxt
  BY <1>6, <1>7
<1>8. CASE m # c.rcv_nxt
  <2>1. m - 1 \in c.rcv_nxt .. (m - 1) /\ m \in Nat
    BY <1>1, <1>4, <1>8
  <2>2. PICK s \in c.ooo : Covers(s, m - 1)
    BY <1>5, <2>1
  <2>3. ~Covers(s, m)
    BY <1>4
  <2>4. EndOf(s) = m
    BY <1>2, <2>1, <2>2, <2>3 DEF Covers
  <2> QED BY <1>6, <2>4
<1> QED BY <1>7, <1>8

\* The fields that reassembly leaves alone.
SameSend(c, d) ==
    d.state = c.state /\ d.snd_una = c.snd_una /\ d.snd_nxt = c.snd_nxt /\ d.cc = c.cc

\* drain_ooo moves data from the reassembly queue into the buffer without
\* overfilling it, although the window it was accepted for does not count it.
LEMMA DrainOooOK ==
    ASSUME NEW c \in Connection, ReceiveOK(c)
    PROVE  /\ DrainOoo(c) \in Connection /\ ReceiveOK(DrainOoo(c))
           /\ Edge(DrainOoo(c)) = Edge(c) /\ SameSend(c, DrainOoo(c))
<1> DEFINE M == {c.rcv_nxt} \cup {EndOf(s) : s \in c.ooo}
           m == CHOOSE m \in M : ContiguousTo(c, m)
           n == m - c.rcv_nxt
           f == [i \in 1 .. n |-> ParkedByte(c.ooo, c.rcv_nxt + i - 1)]
           o == {s \in c.ooo : EndOf(s) > m}
           x == c.rx \o f
           d == [c EXCEPT !.rx = x, !.rcv_nxt = m, !.ooo = o]
<1>1. m \in M /\ ContiguousTo(c, m)
  BY ContiguousExists
<1>2. DrainOoo(c) = d
  BY DEF DrainOoo
<1>3. c.rcv_nxt \in Nat /\ c.rx \in Seq(Byte) /\ c.ooo \in SUBSET OooSegment
  BY DEF Connection
<1>4. /\ Edge(c) \in Nat /\ CurrentRcvWnd(c) \in Nat /\ Len(c.rx) \in Nat
      /\ Edge(c) = c.rcv_nxt + CurrentRcvWnd(c)
      /\ Len(c.rx) + CurrentRcvWnd(c) = RcvCapacity
  BY WindowOK DEF Edge, ReceiveOK
<1>5. \A s \in c.ooo : EndOf(s) \in Nat /\ EndOf(s) <= Edge(c)
  BY <1>3, LenProperties DEF OooSegment, EndOf, ReceiveOK
<1>6. m \in Nat /\ c.rcv_nxt <= m /\ m <= Edge(c)
  <2> HIDE DEF m
  <2>1. c.rcv_nxt <= m BY <1>1 DEF ContiguousTo
  <2> QED BY <1>1, <1>3, <1>4, <1>5, <2>1
<1>7. \A i \in 1 .. n : ParkedByte(c.ooo, c.rcv_nxt + i - 1) \in Byte
  <2> SUFFICES ASSUME NEW i \in 1 .. n
               PROVE  ParkedByte(c.ooo, c.rcv_nxt + i - 1) \in Byte
    OBVIOUS
  <2> HIDE DEF m
  <2>1. c.rcv_nxt + i - 1 \in c.rcv_nxt .. (m - 1) /\ c.rcv_nxt + i - 1 \in Nat
    BY <1>3, <1>6
  <2>2. \E s \in c.ooo : Covers(s, c.rcv_nxt + i - 1)
    BY <1>1, <2>1 DEF ContiguousTo
  <2> QED BY <1>3, <2>1, <2>2, ParkedByteOK
<1>8. n \in Nat /\ f \in [1 .. n -> Byte]
  <2>1. n \in Nat
    <3> HIDE DEF m
    <3> QED BY <1>3, <1>6
  <2>2. f \in [1 .. n -> Byte] BY <1>7
  <2> QED BY <2>1, <2>2
<1> HIDE DEF f
<1>9. f \in Seq(Byte) /\ Len(f) = n
  BY <1>8, FcnIsSeq
<1>10. x \in Seq(Byte) /\ Len(x) = Len(c.rx) + n
  BY <1>3, <1>9, ConcatProperties
<1> HIDE DEF x, m
<1>11. d \in Connection
  <2>1. o \in SUBSET OooSegment BY <1>3
  <2> HIDE DEF o
  <2> QED BY <1>6, <1>10, <2>1 DEF Connection
<1>12. d.rx = x /\ d.rcv_nxt = m /\ d.ooo = o /\ SameSend(c, d)
  BY DEF Connection, SameSend
<1> HIDE DEF d
<1>13. Len(d.rx) <= RcvCapacity
  BY <1>3, <1>4, <1>6, <1>8, <1>10, <1>12, EndpointAssumption
<1>14. Edge(d) = Edge(c)
  <2>1. /\ Len(d.rx) + CurrentRcvWnd(d) = RcvCapacity
        /\ CurrentRcvWnd(d) \in Nat
    BY <1>11, <1>13, WindowOK
  <2>2. Edge(d) = m + CurrentRcvWnd(d)
    BY <1>12 DEF Edge
  <2>3. Len(c.rx) + n + CurrentRcvWnd(d) = RcvCapacity
    BY <1>10, <1>12, <2>1
  <2>4. CurrentRcvWnd(c) = n + CurrentRcvWnd(d)
    <3> DEFINE a == Len(c.rx)
               w == CurrentRcvWnd(c)
               v == CurrentRcvWnd(d)
    <3>1. a \in Nat /\ w \in Nat /\ v \in Nat /\ n \in Nat /\ a + w = a + n + v
      BY <1>4, <1>8, <2>1, <2>3
    <3> HIDE DEF a, w, v, n
    <3>2. w = n + v BY <3>1
    <3> QED BY <3>2 DEF w, v
  <2>5. m = c.rcv_nxt + n
    BY <1>3, <1>6
  <2> HIDE DEF n
  <2> QED BY <1>3, <1>4, <1>8, <2>1, <2>2, <2>4, <2>5
<1>15. ReceiveOK(d)
  <2>1. \A s \in d.ooo : EndOf(s) <= Edge(d)
    BY <1>5, <1>12, <1>14
  <2>2. d.state \in {"Listen", "SynSent"} => d.ooo = {}
    BY <1>12 DEF SameSend, ReceiveOK
  <2> QED BY <1>13, <2>1, <2>2 DEF ReceiveOK
<1> QED BY <1>2, <1>11, <1>12, <1>14, <1>15

\* buffer_ooo keeps what is parked within the window.
LEMMA BufferOooOK ==
    ASSUME NEW c \in Connection, ReceiveOK(c), c.state \notin {"Listen", "SynSent"},
           NEW seq \in Nat, NEW data \in Seq(Byte), seq + Len(data) <= Edge(c)
    PROVE  /\ BufferOoo(c, seq, data) \in Connection /\ ReceiveOK(BufferOoo(c, seq, data))
           /\ Edge(BufferOoo(c, seq, data)) = Edge(c) /\ SameSend(c, BufferOoo(c, seq, data))
<1> DEFINE new  == [seq |-> seq, data |-> data]
           kept == {s \in c.ooo : ~(seq <= s.seq /\ EndOf(s) <= EndOf(new))}
           d(o) == [c EXCEPT !.ooo = o]
<1>1. new \in OooSegment /\ EndOf(new) <= Edge(c)
  BY DEF OooSegment, EndOf
<1>2. c.ooo \in SUBSET OooSegment
  BY DEF Connection
<1>3. \A o \in SUBSET (c.ooo \cup {new}) :
        /\ d(o) \in Connection /\ ReceiveOK(d(o)) /\ Edge(d(o)) = Edge(c) /\ SameSend(c, d(o))
  <2> SUFFICES ASSUME NEW o \in SUBSET (c.ooo \cup {new})
               PROVE  /\ d(o) \in Connection /\ ReceiveOK(d(o))
                      /\ Edge(d(o)) = Edge(c) /\ SameSend(c, d(o))
    OBVIOUS
  <2>1. o \in SUBSET OooSegment
    BY <1>1, <1>2
  <2>2. d(o) \in Connection
    BY <2>1 DEF Connection
  <2>3. /\ d(o).ooo = o /\ d(o).rx = c.rx /\ d(o).rcv_nxt = c.rcv_nxt
        /\ SameSend(c, d(o))
    BY DEF Connection, SameSend
  <2>4. Edge(d(o)) = Edge(c)
    BY <2>3 DEF Edge, CurrentRcvWnd
  <2>5. \A s \in o : EndOf(s) <= Edge(c)
    BY <1>1 DEF ReceiveOK
  <2> HIDE DEF d
  <2>6. ReceiveOK(d(o))
    BY <2>3, <2>4, <2>5 DEF ReceiveOK, SameSend
  <2> QED BY <2>2, <2>3, <2>4, <2>6
<1>4. kept \in SUBSET (c.ooo \cup {new}) /\ (kept \cup {new}) \in SUBSET (c.ooo \cup {new})
  OBVIOUS
<1>5. /\ ReceiveOK(c) /\ Edge(c) = Edge(c) /\ SameSend(c, c)
  BY DEF SameSend
<1>6. \/ BufferOoo(c, seq, data) = c
      \/ BufferOoo(c, seq, data) = d(kept)
      \/ BufferOoo(c, seq, data) = d(kept \cup {new})
  <2> DEFINE P == \E s \in c.ooo : s.seq <= seq /\ EndOf(new) <= EndOf(s)
             Q == OooBytes(kept) + Len(data) > MaxOooBytes
  <2>1. BufferOoo(c, seq, data) = IF P THEN c ELSE IF Q THEN d(kept) ELSE d(kept \cup {new})
    BY DEF BufferOoo
  <2> HIDE DEF P, Q, d, kept
  <2> QED BY <2>1
<1> HIDE DEF d, kept, new
<1> QED BY <1>3, <1>4, <1>5, <1>6

\* accept_data trims to the window: the edge does not move, and everything taken
\* lies below it.
LEMMA AcceptDataOK ==
    ASSUME NEW c, ConnOK(c), c.state \notin {"Listen", "SynSent"},
           NEW seq \in Nat, NEW data \in Seq(Byte)
    PROVE  /\ ConnOK(AcceptData(c, seq, data))
           /\ Edge(AcceptData(c, seq, data)) = Edge(c)
           /\ SameSend(c, AcceptData(c, seq, data))
<1> DEFINE n == Len(data)
           w == CurrentRcvWnd(c)
           lo == MaxOf(seq, c.rcv_nxt)
           hi == MinOf(seq + n, c.rcv_nxt + w)
           fresh == SubSeq(data, lo - seq + 1, hi - seq)
           x == c.rx \o fresh
           d == [c EXCEPT !.rx = x, !.rcv_nxt = hi]
<1>1. c \in Connection /\ ReceiveOK(c) /\ FlightOK(c)
  BY DEF ConnOK
<1>2. /\ c.rcv_nxt \in Nat /\ c.rx \in Seq(Byte) /\ n \in Nat /\ w \in Nat
      /\ Len(c.rx) \in Nat /\ Len(c.rx) + w = RcvCapacity
      /\ Edge(c) = c.rcv_nxt + w
  BY <1>1, WindowOK, LenProperties DEF Connection, ReceiveOK, Edge
<1>3. AcceptData(c, seq, data) =
        IF lo >= hi THEN c
        ELSE IF lo = c.rcv_nxt THEN DrainOoo(d) ELSE BufferOoo(c, lo, fresh)
  BY DEF AcceptData
<1>4. /\ lo \in Nat /\ hi \in Nat /\ lo >= seq /\ lo >= c.rcv_nxt
      /\ hi <= seq + n /\ hi <= Edge(c)
  <2> HIDE DEF n, w
  <2>1. seq + n \in Nat /\ c.rcv_nxt + w \in Nat BY <1>2
  <2> QED BY <1>2, <2>1, Saturating
<1> HIDE DEF lo, hi
<1>5. CASE lo >= hi
  BY <1>3, <1>5 DEF SameSend
<1>6. ASSUME lo < hi
      PROVE  fresh \in Seq(Byte) /\ Len(fresh) = hi - lo
  <2> DEFINE i == lo - seq + 1
             j == hi - seq
  <2>1. i \in Nat \ {0} /\ j \in Int /\ j <= n /\ i <= j /\ j - i + 1 = hi - lo
    <3> HIDE DEF n
    <3> QED BY <1>2, <1>4, <1>6
  <2>2. j <= Len(data) BY <2>1
  <2> HIDE DEF i, j
  <2>3. /\ SubSeq(data, i, j) \in Seq(Byte)
        /\ Len(SubSeq(data, i, j)) = IF i <= j THEN j - i + 1 ELSE 0
    BY <2>1, <2>2, Slice
  <2> QED BY <2>1, <2>3 DEF i, j
<1> HIDE DEF fresh
<1>7. CASE lo < hi /\ lo = c.rcv_nxt
  <2> DEFINE k == Len(fresh)
             a == Len(c.rx)
             r == c.rcv_nxt
  <2>1. /\ k \in Nat /\ hi = r + k /\ r \in Nat /\ w \in Nat /\ a \in Nat
        /\ a + w = RcvCapacity /\ Edge(c) = r + w
    BY <1>2, <1>4, <1>6, <1>7
  <2>2. x \in Seq(Byte) /\ Len(x) = a + k
    BY <1>2, <1>6, <1>7, ConcatProperties
  <2>3. d \in Connection
    <3> HIDE DEF x
    <3> QED BY <1>1, <1>4, <2>2 DEF Connection
  <2>4. d.rx = x /\ d.rcv_nxt = hi /\ d.ooo = c.ooo /\ SameSend(c, d)
    BY <1>1 DEF Connection, SameSend
  <2> HIDE DEF d, x, k, a, r, w
  <2>5. Len(d.rx) <= RcvCapacity
    <3>1. a + k <= a + w
      BY <1>4, <2>1
    <3> QED BY <2>1, <2>2, <2>4, <3>1
  <2>6. Edge(d) = Edge(c) /\ ReceiveOK(d)
    <3> DEFINE v == CurrentRcvWnd(d)
    <3>1. a + k + v = RcvCapacity /\ v \in Nat
      BY <2>2, <2>3, <2>4, <2>5, WindowOK
    <3>2. Edge(d) = hi + v
      BY <2>4 DEF Edge
    <3> HIDE DEF v
    <3>3. Edge(d) = Edge(c)
      BY <2>1, <3>1, <3>2
    <3> QED BY <1>1, <2>4, <2>5, <3>3 DEF ReceiveOK, SameSend
  <2>7. /\ DrainOoo(d) \in Connection /\ ReceiveOK(DrainOoo(d))
        /\ Edge(DrainOoo(d)) = Edge(d) /\ SameSend(d, DrainOoo(d))
    BY <2>3, <2>6, DrainOooOK
  <2>8. AcceptData(c, seq, data) = DrainOoo(d)
    BY <1>3, <1>4, <1>7
  <2>9. SameSend(c, DrainOoo(d))
    BY <2>4, <2>7 DEF SameSend
  <2>10. FlightOK(DrainOoo(d))
    BY <1>1, <2>9 DEF FlightOK, SameSend
  <2> QED BY <2>6, <2>7, <2>8, <2>9, <2>10 DEF ConnOK
<1>8. CASE lo < hi /\ lo # c.rcv_nxt
  <2>1. lo + Len(fresh) <= Edge(c)
    BY <1>2, <1>4, <1>6, <1>8
  <2> DEFINE b == BufferOoo(c, lo, fresh)
  <2>2. b \in Connection /\ ReceiveOK(b) /\ Edge(b) = Edge(c) /\ SameSend(c, b)
    BY <1>1, <1>4, <1>6, <1>8, <2>1, BufferOooOK
  <2>3. AcceptData(c, seq, data) = b
    BY <1>3, <1>4, <1>8
  <2> HIDE DEF b
  <2>4. FlightOK(b)
    BY <1>1, <2>2 DEF FlightOK, SameSend
  <2> QED BY <2>2, <2>3, <2>4 DEF ConnOK
<1> QED BY <1>4, <1>5, <1>7, <1>8

-----------------------------------------------------------------------------
(* The retransmission queue and the application's calls *)

\* A change to the send side alone.
LEMMA SendSideOK ==
    ASSUME NEW c, ConnOK(c), NEW d \in Connection, SameReceive(c, d), FlightOK(d),
           d.state \in {"Listen", "SynSent"} => d.state = c.state,
           NEW out \in Seq(Segment)
    PROVE  Keeps(c, Result(d, out)) /\ Edge(d) = Edge(c)
<1>1. c \in Connection /\ ReceiveOK(c)
  BY DEF ConnOK
<1>2. d.state \in {"Listen", "SynSent"} => d.ooo = {}
  BY <1>1 DEF ReceiveOK, SameReceive
<1>3. ReceiveOK(d) /\ Edge(d) = Edge(c)
  BY <1>1, <1>2, SameReceiveOK
<1>4. Edge(d) \in Nat
  BY WindowOK
<1>5. Result(d, out).c = d /\ Result(d, out).out = out
  BY DEF Result
<1> QED BY <1>3, <1>4, <1>5 DEF Keeps, ConnOK

\* A handler that returns d and emits nothing.
LEMMA QuietlyOK ==
    ASSUME NEW c, ConnOK(c), NEW d, ConnOK(d),
           c.state \notin {"Closed", "Listen", "SynSent"} => Edge(d) >= Edge(c)
    PROVE  Keeps(c, Quietly(d))
<1>1. Quietly(d).c = d /\ Quietly(d).out = <<>>
  BY DEF Quietly, Result
<1>2. <<>> \in Seq(Segment)
  BY EmptySeq
<1> QED BY <1>1, <1>2 DEF Keeps

\* An early return.
LEMMA NothingOK ==
    ASSUME NEW c, ConnOK(c)
    PROVE  Keeps(c, Quietly(c))
<1>1. Edge(c) \in Nat
  BY WindowOK DEF ConnOK
<1> QED BY <1>1, QuietlyOK

\* An acknowledgement releases exactly the bytes it covers.
LEMMA SlideToOK ==
    ASSUME NEW c \in Connection, NEW ack \in Nat
    PROVE  /\ SlideTo(c, ack) \in Connection /\ SameReceive(c, SlideTo(c, ack))
           /\ SlideTo(c, ack).state = c.state
           /\ SlideTo(c, ack).snd_una = ack
           /\ SlideTo(c, ack).snd_nxt = c.snd_nxt
           /\ c.snd_una <= ack /\ ack <= c.snd_nxt /\ c.snd_una + c.cc.in_flight = c.snd_nxt
                => ack + SlideTo(c, ack).cc.in_flight = c.snd_nxt
<1> DEFINE n == Monus(ack, c.snd_una)
           cc == OnAck(c.cc, n)
           q == RetireAcked(c.rtq, ack)
           d == [c EXCEPT !.snd_una = ack, !.cc = cc, !.rtq = q]
<1>1. /\ c.cc \in CongestionControl /\ c.cc.in_flight \in Nat
      /\ c.snd_una \in Nat /\ c.snd_nxt \in Nat /\ c.rtq \in SUBSET RetransmitSegment
  BY DEF Connection, CongestionControl
<1>2. n \in Nat
  BY <1>1, Saturating
<1>3. q \in SUBSET RetransmitSegment
  BY <1>1 DEF RetireAcked
<1>4. cc \in CongestionControl /\ cc.in_flight = Monus(c.cc.in_flight, n)
  <2> HIDE DEF n
  <2> QED BY <1>1, <1>2, OnAckOK
<1>5. SlideTo(c, ack) = d
  BY DEF SlideTo
<1>6. ASSUME c.snd_una <= ack, ack <= c.snd_nxt, c.snd_una + c.cc.in_flight = c.snd_nxt
      PROVE  ack + cc.in_flight = c.snd_nxt
  <2>1. n = ack - c.snd_una
    BY <1>1, <1>6 DEF Monus
  <2> DEFINE f == c.cc.in_flight
             g == cc.in_flight
  <2>2. g = IF f >= n THEN f - n ELSE 0
    BY <1>4 DEF Monus
  <2>3. f \in Nat /\ c.snd_una + f = c.snd_nxt
    BY <1>1, <1>6
  <2> HIDE DEF n, f, g, cc
  <2>4. ack + g = c.snd_nxt
    BY <1>1, <1>6, <2>1, <2>2, <2>3
  <2> QED BY <2>4 DEF g
<1> HIDE DEF n, cc, q
<1>7. d \in Connection
  BY <1>3, <1>4 DEF Connection
<1>8. /\ SameReceive(c, d) /\ d.state = c.state /\ d.snd_una = ack /\ d.snd_nxt = c.snd_nxt
      /\ d.cc = cc
  BY DEF Connection, SameReceive
<1> HIDE DEF d
<1> QED BY <1>5, <1>6, <1>7, <1>8

\* track_for_retransmit charges the sequence space of the entry.
LEMMA TrackOK ==
    ASSUME NEW c \in Connection, NEW e \in RetransmitSegment, NEW n \in Nat, e.end = e.seq + n
    PROVE  LET d == TrackForRetransmit(c, e)
           IN  /\ d \in Connection /\ SameReceive(c, d) /\ d.state = c.state
               /\ d.snd_una = c.snd_una /\ d.snd_nxt = c.snd_nxt
               /\ d.cc.in_flight = c.cc.in_flight + n
<1> DEFINE k == e.end - e.seq
           cc == RecordSent(c.cc, k)
           q == c.rtq \cup {e}
           d == [c EXCEPT !.rtq = q, !.cc = cc]
<1>1. k = n
  BY DEF RetransmitSegment
<1>2. c.cc \in CongestionControl /\ q \in SUBSET RetransmitSegment
  BY DEF Connection
<1>3. cc \in CongestionControl /\ cc.in_flight = c.cc.in_flight + n
  BY <1>1, <1>2, RecordSentOK
<1>4. TrackForRetransmit(c, e) = d
  BY DEF TrackForRetransmit
<1> HIDE DEF cc, q, k
<1>5. d \in Connection
  BY <1>2, <1>3 DEF Connection
<1>6. /\ SameReceive(c, d) /\ d.state = c.state /\ d.snd_una = c.snd_una
      /\ d.snd_nxt = c.snd_nxt /\ d.cc = cc
  BY DEF Connection, SameReceive
<1> HIDE DEF d
<1> QED BY <1>3, <1>4, <1>5, <1>6

\* A retransmission queue that is not empty has a first entry.
LEMMA FirstOK ==
    ASSUME NEW q \in SUBSET RetransmitSegment, q # {}
    PROVE  First(q) \in q
<1> DEFINE T == {e.seq : e \in q}
<1>1. T \in SUBSET Nat /\ T # {}
  BY DEF RetransmitSegment
<1>2. PICK x \in T : \A y \in T : x <= y
  BY <1>1, NatMinimum
<1>3. \E e \in q : \A f \in q : e.seq <= f.seq
  BY <1>2
<1> QED BY <1>3 DEF First

\* retransmit_oldest resends without charging again.
LEMMA RetransmitOldestOK ==
    ASSUME NEW c, ConnOK(c)
    PROVE  Keeps(c, RetransmitOldest(c)) /\ SameReceive(c, RetransmitOldest(c).c)
           /\ RetransmitOldest(c).c.state = c.state
<1> DEFINE e == First(Unsacked(c))
           m == [AckSegment(c, e.seq) EXCEPT
                   !.syn = e.syn, !.isAck = e.isAck, !.fin = e.fin, !.data = e.data,
                   !.mss = IF e.syn THEN c.local_mss ELSE 0,
                   !.sackOk = e.syn /\ c.sack_permitted,
                   !.sack = IF e.syn THEN {} ELSE SackOption(c)]
           e1 == [e EXCEPT !.retransmits = @ + 1]
           q == (c.rtq \ {e}) \cup {e1}
           d == [c EXCEPT !.rtq = q]
<1>1. c \in Connection /\ ReceiveOK(c) /\ FlightOK(c)
  BY DEF ConnOK
<1>2. RetransmitOldest(c) = IF Unsacked(c) = {} \/ e.retransmits >= MaxRetransmits
                            THEN Quietly(c) ELSE Result(d, <<m>>)
  BY DEF RetransmitOldest
<1>3. CASE RetransmitOldest(c) = Quietly(c)
  <2>1. Quietly(c).c = c
    BY DEF Quietly, Result
  <2> QED BY <1>3, <2>1, NothingOK DEF SameReceive
<1>4. CASE Unsacked(c) # {} /\ RetransmitOldest(c) = Result(d, <<m>>)
  <2>1. Unsacked(c) \in SUBSET RetransmitSegment /\ c.rtq \in SUBSET RetransmitSegment
    BY <1>1 DEF Unsacked, Connection
  <2>2. e \in RetransmitSegment
    BY <1>4, <2>1, FirstOK
  <2> HIDE DEF e
  <2>3. e1 \in RetransmitSegment
    BY <2>2 DEF RetransmitSegment
  <2>4. q \in SUBSET RetransmitSegment
    BY <2>1, <2>3
  <2> HIDE DEF q
  <2>5. d \in Connection
    BY <1>1, <2>4 DEF Connection
  <2>6. /\ SameReceive(c, d) /\ d.state = c.state /\ d.snd_una = c.snd_una
        /\ d.snd_nxt = c.snd_nxt /\ d.cc = c.cc
    BY <1>1 DEF Connection, SameReceive
  <2> HIDE DEF d
  <2>7. m \in Segment
    <3> DEFINE mss == IF e.syn THEN c.local_mss ELSE 0
               ok == e.syn /\ c.sack_permitted
               sack == IF e.syn THEN {} ELSE SackOption(c)
               a == AckSegment(c, e.seq)
    <3>1. /\ e.seq \in Nat /\ e.syn \in BOOLEAN /\ e.isAck \in BOOLEAN /\ e.fin \in BOOLEAN
          /\ e.data \in Seq(Byte)
      BY <2>2 DEF RetransmitSegment
    <3>2. a \in Segment
      BY <1>1, <3>1, AckSegmentOK
    <3>3. c.local_mss \in Nat /\ c.sack_permitted \in BOOLEAN
      BY <1>1 DEF Connection
    <3>4. mss \in Nat
      BY <3>3
    <3>5. ok \in BOOLEAN
      OBVIOUS
    <3>6. sack \in SUBSET (Nat \X Nat)
      BY <1>1, SackOptionOK
    <3> HIDE DEF mss, ok, sack, a
    <3>7. [a EXCEPT !.syn = e.syn, !.isAck = e.isAck, !.fin = e.fin, !.data = e.data,
                    !.mss = mss, !.sackOk = ok, !.sack = sack] \in Segment
      BY <3>1, <3>2, <3>4, <3>5, <3>6 DEF Segment
    <3> QED BY <3>7 DEF mss, ok, sack, a
  <2> HIDE DEF m
  <2>8. FlightOK(d)
    BY <1>1, <2>6 DEF FlightOK
  <2>9. <<m>> \in Seq(Segment)
    BY <2>7
  <2>10. Keeps(c, Result(d, <<m>>))
    BY <2>5, <2>6, <2>8, <2>9, SendSideOK
  <2>11. Result(d, <<m>>).c = d
    BY DEF Result
  <2> QED BY <1>4, <2>6, <2>10, <2>11
<1> HIDE DEF d, m, e
<1> QED BY <1>2, <1>3, <1>4

\* write
LEMMA WriteOK ==
    ASSUME NEW c, ConnOK(c), NEW data \in Seq(Byte)
    PROVE  /\ ConnOK(Write(c, data)) /\ Edge(Write(c, data)) = Edge(c)
           /\ Len(Write(c, data).tx) - Len(c.tx) \in Nat
<1> DEFINE a == Len(c.tx)
           b == Len(data)
           n == MinOf(Monus(SndBufferCapacity, a), b)
           p == SubSeq(data, 1, n)
           x == c.tx \o p
           d == [c EXCEPT !.tx = x]
<1>1. c \in Connection /\ ReceiveOK(c) /\ FlightOK(c)
  BY DEF ConnOK
<1>2. a \in Nat /\ b \in Nat /\ c.tx \in Seq(Byte)
  BY <1>1, LenProperties DEF Connection
<1>3. n \in Nat /\ n <= b
  <2> HIDE DEF a, b
  <2>1. Monus(SndBufferCapacity, a) \in Nat
    BY <1>2, Saturating, EndpointAssumption
  <2> QED BY <1>2, <2>1, Saturating
<1>4. n <= Len(data) /\ n \in Int
  BY <1>3
<1>5. p \in Seq(Byte) /\ Len(p) \in Nat
  <2> HIDE DEF n
  <2>1. p \in Seq(Byte) BY <1>4, Slice
  <2> QED BY <2>1, LenProperties
<1>6. Write(c, data) = d
  BY DEF Write
<1> HIDE DEF p
<1>7. x \in Seq(Byte) /\ Len(x) = a + Len(p)
  BY <1>2, <1>5, ConcatProperties
<1> HIDE DEF x
<1>8. d \in Connection
  BY <1>1, <1>7 DEF Connection
<1>9. SameReceive(c, d) /\ SameSend(c, d) /\ d.tx = x
  BY <1>1 DEF Connection, SameReceive, SameSend
<1> HIDE DEF d
<1>10. ReceiveOK(d) /\ Edge(d) = Edge(c) /\ FlightOK(d)
  BY <1>1, <1>9, SameReceiveOK DEF SameSend, SameReceive, ReceiveOK, FlightOK
<1>11. Len(d.tx) - Len(c.tx) \in Nat
  BY <1>2, <1>5, <1>7, <1>9
<1> QED BY <1>6, <1>8, <1>10, <1>11 DEF ConnOK

\* read makes room: the edge moves right.
LEMMA ReadOK ==
    ASSUME NEW c, ConnOK(c), NEW n \in Nat, n <= Len(c.rx)
    PROVE  /\ ConnOK(Read(c, n)) /\ Edge(Read(c, n)) >= Edge(c)
           /\ Read(c, n).state = c.state /\ SubSeq(c.rx, 1, n) \in Seq(Byte)
<1> DEFINE a == Len(c.rx)
           x == SubSeq(c.rx, n + 1, a)
           d == [c EXCEPT !.rx = x]
           w == CurrentRcvWnd(c)
           v == CurrentRcvWnd(d)
           r == c.rcv_nxt
<1>1. c \in Connection /\ ReceiveOK(c) /\ FlightOK(c)
  BY DEF ConnOK
<1>2. c.rx \in Seq(Byte) /\ a \in Nat /\ r \in Nat
  BY <1>1, LenProperties DEF Connection
<1>3. x \in Seq(Byte) /\ Len(x) = a - n
  <2>1. n + 1 \in Nat \ {0} /\ a \in Int /\ a <= Len(c.rx)
    BY <1>2
  <2>2. /\ x \in Seq(Byte)
        /\ Len(x) = IF n + 1 <= a THEN a - (n + 1) + 1 ELSE 0
    <3> HIDE DEF a
    <3> QED BY <1>2, <2>1, Slice
  <2>3. n <= a
    OBVIOUS
  <2> HIDE DEF a, x
  <2> QED BY <1>2, <2>2, <2>3
<1>4. SubSeq(c.rx, 1, n) \in Seq(Byte)
  BY <1>2, Slice
<1>5. Read(c, n) = d
  BY DEF Read
<1> HIDE DEF x
<1>6. d \in Connection
  BY <1>1, <1>3 DEF Connection
<1>7. /\ SameSend(c, d) /\ d.rx = x /\ d.ooo = c.ooo /\ d.rcv_nxt = r
  BY <1>1 DEF Connection, SameSend
<1> HIDE DEF d
<1>8. /\ w \in Nat /\ a + w = RcvCapacity /\ Edge(c) = r + w /\ Edge(c) \in Nat
      /\ v \in Nat /\ Edge(d) = r + v /\ Edge(d) \in Nat
      /\ Len(d.rx) <= RcvCapacity => (a - n) + v = RcvCapacity
  BY <1>1, <1>3, <1>6, <1>7, WindowOK DEF ReceiveOK, Edge
<1>9. n <= a
  OBVIOUS
<1>10. Len(d.rx) <= RcvCapacity
  <2>1. Len(d.rx) = a - n
    BY <1>3, <1>7
  <2> HIDE DEF a, w
  <2> QED BY <1>2, <1>8, <1>9, <2>1
<1>11. Edge(d) >= Edge(c)
  <2>1. (a - n) + v = a + w
    BY <1>8, <1>10
  <2> HIDE DEF a, w, v, r
  <2> QED BY <1>2, <1>8, <1>9, <2>1
<1>12. ReceiveOK(d)
  <2>1. \A s \in c.ooo : EndOf(s) \in Nat /\ EndOf(s) <= Edge(c)
    BY <1>1, LenProperties DEF Connection, OooSegment, EndOf, ReceiveOK
  <2>2. \A s \in d.ooo : EndOf(s) <= Edge(d)
    BY <1>7, <1>8, <1>11, <2>1
  <2> QED BY <1>1, <1>7, <1>10, <2>2 DEF ReceiveOK, SameSend
<1>13. FlightOK(d)
  BY <1>1, <1>7 DEF FlightOK, SameSend
<1> QED BY <1>4, <1>5, <1>6, <1>7, <1>11, <1>12, <1>13 DEF ConnOK, SameSend

\* What the code sends when it takes one sequence number for a SYN or a FIN: c1 is
\* the connection with snd_nxt advanced, and the entry is charged.
LEMMA NumberedOK ==
    ASSUME NEW c \in Connection, c.snd_una + c.cc.in_flight = c.snd_nxt,
           NEW c1 \in Connection, c1.snd_una = c.snd_una, c1.cc = c.cc,
           c1.snd_nxt = c.snd_nxt + 1,
           NEW syn \in BOOLEAN, NEW isAck \in BOOLEAN, NEW fin \in BOOLEAN
    PROVE  LET d == TrackForRetransmit(c1, RtqEntry(c.snd_nxt, 1, syn, isAck, fin, <<>>))
           IN  /\ d \in Connection /\ SameReceive(c1, d) /\ d.state = c1.state
               /\ FlightOK(d)
<1> DEFINE e == RtqEntry(c.snd_nxt, 1, syn, isAck, fin, <<>>)
           d == TrackForRetransmit(c1, e)
<1>1. c.snd_nxt \in Nat /\ c.snd_una \in Nat /\ c.cc.in_flight \in Nat /\ <<>> \in Seq(Byte)
  BY EmptySeq DEF Connection, CongestionControl
<1>2. e \in RetransmitSegment /\ e.end = e.seq + 1
  BY <1>1 DEF RtqEntry, RetransmitSegment
<1> HIDE DEF e
<1>3. /\ d \in Connection /\ SameReceive(c1, d) /\ d.state = c1.state
      /\ d.snd_una = c1.snd_una /\ d.snd_nxt = c1.snd_nxt
      /\ d.cc.in_flight = c1.cc.in_flight + 1
  BY <1>2, TrackOK
<1> HIDE DEF d
<1>4. FlightOK(d)
  <2> DEFINE f == c.cc.in_flight
  <2>1. d.cc.in_flight = f + 1
    BY <1>3
  <2>2. f \in Nat /\ c.snd_una + f = c.snd_nxt
    BY <1>1
  <2> HIDE DEF f
  <2> QED BY <1>1, <1>3, <2>1, <2>2 DEF FlightOK
<1> QED BY <1>3, <1>4 DEF d, e

\* initiate_syn, on the connection new_client made
LEMMA InitiateSynOK ==
    ASSUME NEW c, ConnOK(c), c.state = "Closed", c.ooo = {},
           c.snd_una + c.cc.in_flight = c.snd_nxt
    PROVE  Keeps(c, InitiateSyn(c))
<1> DEFINE a == AckSegment(c, c.snd_nxt)
           m == [a EXCEPT !.ack = 0, !.isAck = FALSE, !.syn = TRUE,
                          !.mss = c.local_mss, !.sackOk = TRUE]
           k == c.snd_nxt + 1
           c1 == [c EXCEPT !.state = "SynSent", !.snd_nxt = k]
           d == TrackForRetransmit(c1, RtqEntry(c.snd_nxt, 1, TRUE, FALSE, FALSE, <<>>))
<1>1. c \in Connection /\ ReceiveOK(c) /\ c.snd_nxt \in Nat /\ c.local_mss \in Nat
  BY DEF ConnOK, Connection
<1>2. c1 \in Connection
  <2>1. k \in Nat BY <1>1
  <2> HIDE DEF k
  <2> QED BY <1>1, <2>1 DEF Connection, TcpState
<1>3. /\ SameReceive(c, c1) /\ c1.state = "SynSent" /\ c1.snd_una = c.snd_una /\ c1.cc = c.cc
      /\ c1.snd_nxt = c.snd_nxt + 1
  BY <1>1 DEF Connection, SameReceive
<1> HIDE DEF c1
<1>4. d \in Connection /\ SameReceive(c1, d) /\ d.state = c1.state /\ FlightOK(d)
  BY <1>1, <1>2, <1>3, NumberedOK
<1>5. a \in Segment
  BY <1>1, AckSegmentOK
<1> HIDE DEF a
<1>6. m \in Segment
  BY <1>1, <1>5 DEF Segment
<1>7. InitiateSyn(c) = Result(d, <<m>>)
  BY DEF InitiateSyn, a, c1
<1> HIDE DEF d, m
<1>8. SameReceive(c, d)
  BY <1>3, <1>4 DEF SameReceive
<1>9. ReceiveOK(d)
  BY <1>1, <1>8, SameReceiveOK DEF SameReceive
<1>10. Result(d, <<m>>).c = d /\ Result(d, <<m>>).out = <<m>>
  BY DEF Result
<1>11. <<m>> \in Seq(Segment)
  BY <1>6
<1> QED BY <1>4, <1>7, <1>9, <1>10, <1>11 DEF Keeps, ConnOK

\* emit_fin
LEMMA EmitFinOK ==
    ASSUME NEW c, ConnOK(c)
    PROVE  Keeps(c, EmitFin(c)) /\ SameReceive(c, EmitFin(c).c)
<1> DEFINE a == AckSegment(c, c.snd_nxt)
           m == [a EXCEPT !.fin = TRUE]
           s == IF c.state = "Established" THEN "FinWait1" ELSE "LastAck"
           k == c.snd_nxt + 1
           c1 == [c EXCEPT !.state = s, !.snd_nxt = k, !.fin_sent = TRUE]
           d == TrackForRetransmit(c1, RtqEntry(c.snd_nxt, 1, FALSE, TRUE, TRUE, <<>>))
<1>1. c \in Connection /\ ReceiveOK(c) /\ FlightOK(c) /\ c.snd_nxt \in Nat
  BY DEF ConnOK, Connection
<1>2. EmitFin(c) = IF MayEmitFin(c) THEN Result(d, <<m>>) ELSE Quietly(c)
  BY DEF EmitFin
<1>3. CASE ~MayEmitFin(c)
  <2>1. Quietly(c).c = c
    BY DEF Quietly, Result
  <2> QED BY <1>2, <1>3, <2>1, NothingOK DEF SameReceive
<1>4. CASE MayEmitFin(c)
  <2>1. s \in {"FinWait1", "LastAck"} /\ s \in TcpState
    BY DEF TcpState
  <2> HIDE DEF s
  <2>2. c1 \in Connection
    <3>1. k \in Nat BY <1>1
    <3> HIDE DEF k
    <3> QED BY <1>1, <2>1, <3>1 DEF Connection
  <2>3. /\ SameReceive(c, c1) /\ c1.state = s /\ c1.snd_una = c.snd_una /\ c1.cc = c.cc
        /\ c1.snd_nxt = c.snd_nxt + 1
    BY <1>1 DEF Connection, SameReceive
  <2>4. c.snd_una + c.cc.in_flight = c.snd_nxt
    BY <1>1, <1>4 DEF MayEmitFin, FlightOK
  <2> HIDE DEF c1
  <2>5. d \in Connection /\ SameReceive(c1, d) /\ d.state = c1.state /\ FlightOK(d)
    BY <1>1, <2>2, <2>3, <2>4, NumberedOK
  <2>6. a \in Segment
    BY <1>1, AckSegmentOK
  <2> HIDE DEF a
  <2>7. m \in Segment
    BY <2>6 DEF Segment
  <2> HIDE DEF d, m
  <2>8. SameReceive(c, d)
    BY <2>3, <2>5 DEF SameReceive
  <2>9. <<m>> \in Seq(Segment)
    BY <2>7
  <2>10. Keeps(c, Result(d, <<m>>))
    BY <2>1, <2>3, <2>5, <2>8, <2>9, SendSideOK
  <2>11. Result(d, <<m>>).c = d
    BY DEF Result
  <2> QED BY <1>2, <1>4, <2>8, <2>10, <2>11
<1> QED BY <1>3, <1>4

\* initiate_close
LEMMA InitiateCloseOK ==
    ASSUME NEW c, ConnOK(c)
    PROVE  Keeps(c, InitiateClose(c))
<1> DEFINE c1 == [c EXCEPT !.close_requested = TRUE]
<1>1. c \in Connection /\ ReceiveOK(c) /\ FlightOK(c)
  BY DEF ConnOK
<1>2. c1 \in Connection
  BY <1>1 DEF Connection
<1>3. SameReceive(c, c1) /\ SameSend(c, c1)
  BY <1>1 DEF Connection, SameReceive, SameSend
<1>4. InitiateClose(c) = IF c.state \notin {"Established", "CloseWait"} THEN Quietly(c)
                         ELSE IF c.tx = <<>> THEN EmitFin(c1) ELSE Quietly(c1)
  BY DEF InitiateClose
<1> HIDE DEF c1
<1>5. ReceiveOK(c1) /\ Edge(c1) = Edge(c) /\ FlightOK(c1) /\ Edge(c) \in Nat
  BY <1>1, <1>3, SameReceiveOK, WindowOK DEF SameReceive, SameSend, ReceiveOK, FlightOK
<1>6. ConnOK(c1)
  BY <1>2, <1>5 DEF ConnOK
<1>7. Keeps(c, Quietly(c)) /\ Keeps(c, Quietly(c1))
  BY <1>5, <1>6, QuietlyOK, NothingOK
<1>8. Keeps(c1, EmitFin(c1))
  BY <1>6, EmitFinOK
<1>9. Keeps(c, EmitFin(c1))
  BY <1>3, <1>5, <1>8 DEF Keeps, SameSend
<1> QED BY <1>4, <1>7, <1>9

-----------------------------------------------------------------------------
(* handle_segment *)

\* The options of a segment, whatever they say, touch neither the receive side nor
\* the accounting.
LEMMA ApplyOptionsOK ==
    ASSUME NEW c, ConnOK(c), NEW m \in Segment
    PROVE  /\ ConnOK(ApplyOptions(c, m)) /\ Edge(ApplyOptions(c, m)) = Edge(c)
           /\ ApplyOptions(c, m).state = c.state
<1> DEFINE p == IF m.mss # 0 THEN m.mss ELSE c.peer_mss
           cc == IF m.mss # 0 THEN [c.cc EXCEPT !.mss = m.mss] ELSE c.cc
           k == c.sack_permitted \/ m.sackOk
           S(e) == e.sacked \/ \E b \in m.sack : b[1] <= e.seq /\ e.end <= b[2]
           q == {[e EXCEPT !.sacked = S(e)] : e \in c.rtq}
           d == [c EXCEPT !.peer_mss = p, !.cc = cc, !.sack_permitted = k, !.rtq = q]
<1>1. c \in Connection /\ ReceiveOK(c) /\ FlightOK(c)
  BY DEF ConnOK
<1>2. /\ c.peer_mss \in Nat \ {0} /\ m.mss \in Nat /\ c.cc \in CongestionControl
      /\ c.rtq \in SUBSET RetransmitSegment
  BY <1>1 DEF Connection, Segment
<1>3. p \in Nat \ {0}
  BY <1>2
<1>4. cc \in CongestionControl /\ cc.in_flight = c.cc.in_flight
  BY <1>2, SetMssOK
<1>5. k \in BOOLEAN
  OBVIOUS
<1>6. q \in SUBSET RetransmitSegment
  <2>1. \A e \in c.rtq : S(e) \in BOOLEAN
    OBVIOUS
  <2> HIDE DEF S
  <2>2. \A e \in c.rtq : [e EXCEPT !.sacked = S(e)] \in RetransmitSegment
    BY <1>2, <2>1 DEF RetransmitSegment
  <2> QED BY <2>2
<1>7. ApplyOptions(c, m) = d
  BY DEF ApplyOptions
<1> HIDE DEF p, cc, k, q
<1>8. d \in Connection
  BY <1>1, <1>3, <1>4, <1>5, <1>6 DEF Connection
<1>9. /\ SameReceive(c, d) /\ d.state = c.state /\ d.snd_una = c.snd_una
      /\ d.snd_nxt = c.snd_nxt /\ d.cc = cc
  BY <1>1 DEF Connection, SameReceive
<1> HIDE DEF d
<1>10. ReceiveOK(d) /\ Edge(d) = Edge(c)
  BY <1>1, <1>9, SameReceiveOK DEF ReceiveOK, SameReceive
<1>11. FlightOK(d)
  BY <1>1, <1>4, <1>9 DEF FlightOK
<1> QED BY <1>7, <1>8, <1>9, <1>10, <1>11 DEF ConnOK

\* A reset, acceptable or not.
LEMMA OnRstOK ==
    ASSUME NEW c, ConnOK(c), NEW m \in Segment
    PROVE  Keeps(c, Quietly(OnRst(c, m)))
<1> DEFINE d == [c EXCEPT !.state = "Closed", !.rtq = {}, !.tx = <<>>, !.ooo = {}]
<1>1. c \in Connection /\ ReceiveOK(c) /\ Edge(c) \in Nat
  BY WindowOK DEF ConnOK
<1>2. <<>> \in Seq(Byte)
  BY EmptySeq
<1>3. d \in Connection
  BY <1>1, <1>2 DEF Connection, TcpState
<1>4. d.state = "Closed" /\ d.ooo = {} /\ d.rx = c.rx /\ d.rcv_nxt = c.rcv_nxt
  BY <1>1 DEF Connection
<1>5. OnRst(c, m) = IF RstAcceptable(c, m) THEN d ELSE c
  BY DEF OnRst
<1> HIDE DEF d
<1>6. ConnOK(d) /\ Edge(d) = Edge(c)
  BY <1>1, <1>3, <1>4 DEF ConnOK, ReceiveOK, FlightOK, Edge, CurrentRcvWnd
<1>7. Keeps(c, Quietly(d))
  BY <1>1, <1>6, QuietlyOK
<1> QED BY <1>5, <1>7, NothingOK

\* LISTEN: the SYN-ACK takes one number.
LEMMA OnListenOK ==
    ASSUME NEW c, ConnOK(c), NEW m \in Segment, c.state = "Listen"
    PROVE  Keeps(c, OnListen(c, m))
<1> DEFINE r == m.seq + 1
           k == c.snd_nxt + 1
           c1 == [c EXCEPT !.rcv_nxt = r, !.snd_wnd = m.wnd, !.snd_nxt = k,
                           !.state = "SynReceived"]
           a == AckSegment(c1, c.snd_nxt)
           p == [a EXCEPT !.syn = TRUE, !.mss = c.local_mss, !.sackOk = c.sack_permitted]
           d == TrackForRetransmit(c1, RtqEntry(c.snd_nxt, 1, TRUE, TRUE, FALSE, <<>>))
<1>1. c \in Connection /\ ReceiveOK(c) /\ FlightOK(c)
  BY DEF ConnOK
<1>2. /\ c.snd_nxt \in Nat /\ c.local_mss \in Nat /\ c.sack_permitted \in BOOLEAN
      /\ m.wnd \in Nat /\ m.seq \in Nat
  BY <1>1 DEF Connection, Segment
<1>3. c1 \in Connection
  <2>1. k \in Nat /\ r \in Nat BY <1>2
  <2> HIDE DEF k, r
  <2> QED BY <1>1, <1>2, <2>1 DEF Connection, TcpState
<1>4. /\ c1.ooo = c.ooo /\ c1.rx = c.rx /\ c1.state = "SynReceived"
      /\ c1.snd_una = c.snd_una /\ c1.cc = c.cc /\ c1.snd_nxt = c.snd_nxt + 1
  BY <1>1 DEF Connection
<1>5. OnListen(c, m) = IF m.syn THEN Result(d, <<p>>) ELSE Quietly(c)
  BY DEF OnListen
<1> HIDE DEF c1
<1>6. d \in Connection /\ SameReceive(c1, d) /\ d.state = c1.state /\ FlightOK(d)
  <2>1. c.snd_una + c.cc.in_flight = c.snd_nxt
    BY <1>1 DEF FlightOK
  <2> QED BY <1>1, <1>3, <1>4, <2>1, NumberedOK
<1>7. a \in Segment
  BY <1>2, <1>3, AckSegmentOK
<1> HIDE DEF a
<1>8. p \in Segment
  BY <1>2, <1>7 DEF Segment
<1> HIDE DEF d, p
<1>9. <<p>> \in Seq(Segment)
  BY <1>8
<1>10. ReceiveOK(d)
  BY <1>1, <1>4, <1>6 DEF ReceiveOK, SameReceive
<1>11. Result(d, <<p>>).c = d /\ Result(d, <<p>>).out = <<p>>
  BY DEF Result
<1>12. Keeps(c, Result(d, <<p>>))
  BY <1>6, <1>9, <1>10, <1>11 DEF Keeps, ConnOK
<1> QED BY <1>5, <1>12, NothingOK

\* SYN_SENT: the SYN-ACK acknowledges all that was sent; a bare SYN acknowledges
\* nothing.
LEMMA OnSynSentOK ==
    ASSUME NEW c, ConnOK(c), NEW m \in Segment, c.state = "SynSent"
    PROVE  Keeps(c, OnSynSent(c, m))
<1> DEFINE r == m.seq + 1
           s == SlideTo(c, m.ack)
           open == [s EXCEPT !.rcv_nxt = r, !.snd_wnd = m.wnd, !.state = "Established"]
           half == [c EXCEPT !.rcv_nxt = r, !.state = "SynReceived"]
           ack == AckSegment(open, open.snd_nxt)
           b == AckSegment(half, half.snd_nxt)
           syn == [b EXCEPT !.syn = TRUE]
<1>1. c \in Connection /\ ReceiveOK(c) /\ FlightOK(c)
  BY DEF ConnOK
<1>2. /\ c.snd_nxt \in Nat /\ c.snd_una \in Nat /\ c.cc.in_flight \in Nat
      /\ m.wnd \in Nat /\ m.ack \in Nat /\ m.seq \in Nat
  BY <1>1 DEF Connection, Segment, CongestionControl
<1>3. c.snd_una + c.cc.in_flight = c.snd_nxt
  BY <1>1 DEF FlightOK
<1>4. r \in Nat
  BY <1>2
<1>5. /\ s \in Connection /\ SameReceive(c, s)
      /\ s.snd_una = m.ack /\ s.snd_nxt = c.snd_nxt
      /\ m.ack = c.snd_nxt => m.ack + s.cc.in_flight = c.snd_nxt
  <2>1. c.snd_una <= c.snd_nxt
    <3> DEFINE f == c.cc.in_flight
    <3>1. f \in Nat /\ c.snd_una + f = c.snd_nxt BY <1>2, <1>3
    <3> HIDE DEF f
    <3> QED BY <1>2, <3>1
  <2>2. m.ack = c.snd_nxt => c.snd_una <= m.ack /\ m.ack <= c.snd_nxt
    BY <1>2, <2>1
  <2>3. /\ s \in Connection /\ SameReceive(c, s)
        /\ s.snd_una = m.ack /\ s.snd_nxt = c.snd_nxt
        /\ c.snd_una <= m.ack /\ m.ack <= c.snd_nxt /\ c.snd_una + c.cc.in_flight = c.snd_nxt
             => m.ack + s.cc.in_flight = c.snd_nxt
    BY <1>1, <1>2, SlideToOK
  <2> HIDE DEF s
  <2> QED BY <1>3, <2>2, <2>3
<1>6. OnSynSent(c, m) =
        IF m.syn /\ m.isAck
        THEN IF m.ack = c.snd_nxt THEN Result(open, <<ack>>) ELSE Quietly(c)
        ELSE IF m.syn THEN Result(half, <<syn>>) ELSE Quietly(c)
  BY DEF OnSynSent
<1> HIDE DEF s, r
<1>7. open \in Connection
  BY <1>2, <1>4, <1>5 DEF Connection, TcpState
<1>8. /\ open.ooo = s.ooo /\ open.rx = s.rx /\ open.state = "Established"
      /\ open.snd_una = s.snd_una /\ open.cc = s.cc /\ open.snd_nxt = s.snd_nxt
  BY <1>5 DEF Connection
<1>9. half \in Connection
  BY <1>1, <1>4 DEF Connection, TcpState
<1>10. /\ half.ooo = c.ooo /\ half.rx = c.rx /\ half.state = "SynReceived"
       /\ half.snd_una = c.snd_una /\ half.cc = c.cc /\ half.snd_nxt = c.snd_nxt
  BY <1>1 DEF Connection
<1> HIDE DEF open, half
<1>11. c.ooo = {} /\ Len(c.rx) <= RcvCapacity
  BY <1>1 DEF ReceiveOK
<1>12. ReceiveOK(open) /\ ReceiveOK(half)
  BY <1>5, <1>8, <1>10, <1>11 DEF ReceiveOK, SameReceive
<1>13. FlightOK(half)
  BY <1>3, <1>10 DEF FlightOK
<1>14. ack \in Segment /\ b \in Segment
  BY <1>2, <1>5, <1>7, <1>8, <1>9, <1>10, AckSegmentOK
<1> HIDE DEF ack, b
<1>15. syn \in Segment
  BY <1>14 DEF Segment
<1> HIDE DEF syn
<1>16. <<ack>> \in Seq(Segment) /\ <<syn>> \in Seq(Segment)
  BY <1>14, <1>15
<1>17. Keeps(c, Result(half, <<syn>>))
  <2>1. Result(half, <<syn>>).c = half /\ Result(half, <<syn>>).out = <<syn>>
    BY DEF Result
  <2> QED BY <1>9, <1>12, <1>13, <1>16, <2>1 DEF Keeps, ConnOK
<1>18. m.ack = c.snd_nxt => Keeps(c, Result(open, <<ack>>))
  <2>1. Result(open, <<ack>>).c = open /\ Result(open, <<ack>>).out = <<ack>>
    BY DEF Result
  <2>2. m.ack = c.snd_nxt => FlightOK(open)
    BY <1>5, <1>8 DEF FlightOK
  <2> QED BY <1>7, <1>12, <1>16, <2>1, <2>2 DEF Keeps, ConnOK
<1>19. Keeps(c, Quietly(c))
  BY NothingOK
<1> QED BY <1>6, <1>17, <1>18, <1>19

\* An acknowledgement within what was sent, with the window it announces, and the
\* state the connection moves to.
LEMMA SlideOK ==
    ASSUME NEW c, ConnOK(c), NEW ack \in Nat, NEW wnd \in Nat,
           c.snd_una + c.cc.in_flight = c.snd_nxt, c.snd_una <= ack, ack <= c.snd_nxt
    PROVE  LET d == SlideTo([c EXCEPT !.snd_wnd = wnd], ack)
           IN  ConnOK(d) /\ Edge(d) = Edge(c) /\ d.state = c.state /\ d.snd_nxt = c.snd_nxt
<1> DEFINE cw == [c EXCEPT !.snd_wnd = wnd]
           d == SlideTo(cw, ack)
<1>1. c \in Connection /\ ReceiveOK(c) /\ FlightOK(c)
  BY DEF ConnOK
<1>2. cw \in Connection
  BY <1>1 DEF Connection
<1>3. SameReceive(c, cw) /\ SameSend(c, cw)
  BY <1>1 DEF Connection, SameReceive, SameSend
<1> HIDE DEF cw
<1>4. /\ cw.snd_una = c.snd_una /\ cw.snd_nxt = c.snd_nxt /\ cw.state = c.state
      /\ cw.cc.in_flight = c.cc.in_flight
  BY <1>3 DEF SameSend
<1>5. /\ d \in Connection /\ SameReceive(cw, d) /\ d.state = cw.state /\ d.snd_una = ack
      /\ d.snd_nxt = cw.snd_nxt
      /\ ack + d.cc.in_flight = cw.snd_nxt
  BY <1>2, <1>4, SlideToOK
<1> HIDE DEF d
<1>6. SameReceive(c, d) /\ d.state = c.state /\ FlightOK(d) /\ d.snd_nxt = c.snd_nxt
  BY <1>3, <1>4, <1>5 DEF SameReceive, FlightOK
<1>7. ReceiveOK(d) /\ Edge(d) = Edge(c)
  BY <1>1, <1>6, SameReceiveOK DEF SameReceive, ReceiveOK
<1>8. ConnOK(d) /\ Edge(d) = Edge(c) /\ d.state = c.state /\ d.snd_nxt = c.snd_nxt
  BY <1>5, <1>6, <1>7 DEF ConnOK
<1> QED BY <1>8 DEF d, cw

\* A handler that continues from what an earlier step of the same call left.
LEMMA ChainOK ==
    ASSUME NEW c, ConnOK(c), NEW d, ConnOK(d), NEW r, Keeps(d, r),
           c.state \notin {"Closed", "Listen", "SynSent"} =>
             d.state \notin {"Closed", "Listen", "SynSent"} /\ Edge(d) >= Edge(c)
    PROVE  Keeps(c, r)
<1>1. Edge(c) \in Nat /\ Edge(d) \in Nat /\ Edge(r.c) \in Nat
  BY WindowOK DEF ConnOK, Keeps
<1> QED BY <1>1 DEF Keeps

\* SYN_RECEIVED: the final ACK, with or without data.
LEMMA OnSynReceivedOK ==
    ASSUME NEW c, ConnOK(c), NEW m \in Segment, c.state = "SynReceived"
    PROVE  Keeps(c, OnSynReceived(c, m))
<1> DEFINE s == SlideTo(c, m.ack)
           open == [s EXCEPT !.snd_wnd = m.wnd, !.state = "Established"]
           x == AcceptData(open, m.seq, m.data)
<1>1. c \in Connection /\ ReceiveOK(c) /\ FlightOK(c)
  BY DEF ConnOK
<1>2. /\ c.snd_nxt \in Nat /\ c.snd_una \in Nat /\ c.cc.in_flight \in Nat
      /\ m.wnd \in Nat /\ m.ack \in Nat /\ m.seq \in Nat /\ m.data \in Seq(Byte)
  BY <1>1 DEF Connection, Segment, CongestionControl
<1>3. c.snd_una + c.cc.in_flight = c.snd_nxt
  BY <1>1 DEF FlightOK
<1>4. OnSynReceived(c, m) =
        IF ~(m.isAck /\ m.ack = c.snd_nxt) THEN Quietly(c)
        ELSE IF m.data = <<>> THEN Quietly(open) ELSE BuildAck(x)
  BY DEF OnSynReceived
<1>5. CASE m.ack = c.snd_nxt
  <2>1. c.snd_una <= m.ack /\ m.ack <= c.snd_nxt
    <3> DEFINE f == c.cc.in_flight
    <3>1. f \in Nat /\ c.snd_una + f = c.snd_nxt BY <1>2, <1>3
    <3> HIDE DEF f
    <3> QED BY <1>2, <1>5, <3>1
  <2>2. /\ s \in Connection /\ SameReceive(c, s) /\ s.snd_una = m.ack
        /\ s.snd_nxt = c.snd_nxt /\ m.ack + s.cc.in_flight = c.snd_nxt
    BY <1>1, <1>2, <1>3, <2>1, SlideToOK
  <2> HIDE DEF s
  <2>3. open \in Connection
    BY <1>2, <2>2 DEF Connection, TcpState
  <2>4. /\ SameReceive(s, open) /\ open.state = "Established" /\ open.snd_una = s.snd_una
        /\ open.snd_nxt = s.snd_nxt /\ open.cc = s.cc
    BY <2>2 DEF Connection, SameReceive
  <2> HIDE DEF open
  <2>5. SameReceive(c, open) /\ FlightOK(open)
    BY <2>2, <2>4 DEF SameReceive, FlightOK
  <2>6. ReceiveOK(open) /\ Edge(open) = Edge(c) /\ Edge(open) \in Nat
    BY <1>1, <2>3, <2>4, <2>5, SameReceiveOK, WindowOK
  <2>7. ConnOK(open)
    BY <2>3, <2>5, <2>6 DEF ConnOK
  <2>8. Keeps(c, Quietly(open))
    BY <2>6, <2>7, QuietlyOK
  <2>9. ConnOK(x) /\ Edge(x) = Edge(open) /\ x.state = "Established"
    BY <1>2, <2>4, <2>7, AcceptDataOK DEF SameSend
  <2> HIDE DEF x
  <2>10. Keeps(x, BuildAck(x))
    BY <2>9, BuildAckOK
  <2>11. Keeps(c, BuildAck(x))
    BY <2>6, <2>9, <2>10, ChainOK
  <2>12. Keeps(c, Quietly(c))
    BY NothingOK
  <2> QED BY <1>4, <2>8, <2>11, <2>12
<1>6. CASE m.ack # c.snd_nxt
  BY <1>4, <1>6, NothingOK
<1> QED BY <1>5, <1>6

\* The acknowledgement field of a segment in a synchronized state.
LEMMA ProcessAckOK ==
    ASSUME NEW c, ConnOK(c), NEW m \in Segment,
           c.state \in {"Established", "FinWait1", "FinWait2"},
           ~(m.isAck /\ m.ack > c.snd_nxt)
    PROVE  LET a == ProcessAck(c, m)
           IN  ConnOK(a.c) /\ a.out \in Seq(Segment) /\ Edge(a.c) = Edge(c)
               /\ a.c.state = c.state
<1> DEFINE cw == [c EXCEPT !.snd_wnd = m.wnd]
           k == OnDupAck(cw.cc)
           cd == [cw EXCEPT !.cc = k]
           s == SlideTo(cw, m.ack)
           Good(a) == ConnOK(a.c) /\ a.out \in Seq(Segment) /\ Edge(a.c) = Edge(c)
                      /\ a.c.state = c.state
<1>1. c \in Connection /\ ReceiveOK(c) /\ FlightOK(c)
  BY DEF ConnOK
<1>2. /\ c.snd_nxt \in Nat /\ c.snd_una \in Nat /\ m.wnd \in Nat /\ m.ack \in Nat
  BY <1>1 DEF Connection, Segment
<1>3. c.snd_una + c.cc.in_flight = c.snd_nxt
  BY <1>1 DEF FlightOK
<1>4. cw \in Connection
  BY <1>1, <1>2 DEF Connection
<1>5. SameReceive(c, cw) /\ SameSend(c, cw)
  BY <1>1 DEF Connection, SameReceive, SameSend
<1>6. ProcessAck(c, m) =
        IF ~m.isAck THEN Quietly(c)
        ELSE IF m.ack > c.snd_una THEN Quietly(s)
        ELSE IF ~IsDupAck(c, m) THEN Quietly(cw)
        ELSE IF TriggersFastRetransmit(c.cc) THEN RetransmitOldest(cd)
        ELSE Quietly(cd)
  BY DEF ProcessAck
<1>7. m.isAck /\ m.ack > c.snd_una => ConnOK(s) /\ Edge(s) = Edge(c) /\ s.state = c.state
  <2> SUFFICES ASSUME m.isAck, m.ack > c.snd_una
               PROVE  ConnOK(s) /\ Edge(s) = Edge(c) /\ s.state = c.state
    OBVIOUS
  <2>1. c.snd_una <= m.ack /\ m.ack <= c.snd_nxt
    BY <1>2
  <2> QED BY <1>2, <1>3, <2>1, SlideOK
<1> HIDE DEF cw, s
<1>8. c.cc \in CongestionControl /\ cw.cc = c.cc
  BY <1>1, <1>5 DEF Connection, SameSend
<1>9. k \in CongestionControl /\ k.in_flight = c.cc.in_flight
  BY <1>8, OnDupAckOK
<1> HIDE DEF k
<1>10. cd \in Connection
  BY <1>4, <1>9 DEF Connection
<1>11. /\ SameReceive(cw, cd) /\ cd.state = cw.state /\ cd.snd_una = cw.snd_una
       /\ cd.snd_nxt = cw.snd_nxt /\ cd.cc = k
  BY <1>4 DEF Connection, SameReceive
<1> HIDE DEF cd
<1>12. ConnOK(cw) /\ Edge(cw) = Edge(c) /\ cw.state = c.state
  <2>1. ReceiveOK(cw) /\ Edge(cw) = Edge(c)
    BY <1>1, <1>5, SameReceiveOK DEF SameReceive, SameSend, ReceiveOK
  <2> QED BY <1>1, <1>4, <1>5, <2>1 DEF ConnOK, FlightOK, SameSend
<1>13. ConnOK(cd) /\ Edge(cd) = Edge(c) /\ cd.state = c.state
  <2>1. SameReceive(c, cd) /\ cd.state = c.state
    BY <1>5, <1>11 DEF SameReceive, SameSend
  <2>2. ReceiveOK(cd) /\ Edge(cd) = Edge(c)
    BY <1>1, <2>1, SameReceiveOK DEF SameReceive, ReceiveOK
  <2>3. FlightOK(cd)
    BY <1>3, <1>5, <1>9, <1>11 DEF FlightOK, SameSend
  <2> QED BY <1>10, <2>1, <2>2, <2>3 DEF ConnOK
<1>14. \A x : ConnOK(x) /\ Edge(x) = Edge(c) /\ x.state = c.state => Good(Quietly(x))
  BY EmptySeq DEF Quietly, Result
<1>15. Good(RetransmitOldest(cd))
  <2> DEFINE r == RetransmitOldest(cd)
  <2>1. Keeps(cd, r) /\ SameReceive(cd, r.c) /\ r.c.state = cd.state
    BY <1>13, RetransmitOldestOK
  <2> HIDE DEF r
  <2>2. Edge(r.c) = Edge(cd)
    BY <2>1 DEF SameReceive, Edge, CurrentRcvWnd
  <2>3. Good(r)
    BY <1>13, <2>1, <2>2 DEF Keeps
  <2> QED BY <2>3 DEF r
<1>16. Good(Quietly(c)) /\ Good(Quietly(cw)) /\ Good(Quietly(cd))
  BY <1>12, <1>13, <1>14
<1>17. m.isAck /\ m.ack > c.snd_una => Good(Quietly(s))
  BY <1>7, <1>14
<1> HIDE DEF Good
<1>18. Good(ProcessAck(c, m))
  BY <1>6, <1>15, <1>16, <1>17
<1> QED BY <1>18 DEF Good

\* A change of state alone, between states that keep the same obligations.
LEMMA ChangeStateOK ==
    ASSUME NEW c, ConnOK(c), NEW t \in TcpState \ {"Listen", "SynSent"},
           t \in {"Closed", "TimeWait"} \/ c.state \notin {"Closed", "TimeWait"}
    PROVE  LET d == [c EXCEPT !.state = t]
           IN  ConnOK(d) /\ Edge(d) = Edge(c) /\ d.state = t
<1> DEFINE d == [c EXCEPT !.state = t]
<1>1. c \in Connection /\ ReceiveOK(c) /\ FlightOK(c)
  BY DEF ConnOK
<1>2. d \in Connection
  BY <1>1 DEF Connection
<1>3. /\ SameReceive(c, d) /\ d.state = t /\ d.snd_una = c.snd_una /\ d.snd_nxt = c.snd_nxt
      /\ d.cc = c.cc
  BY <1>1 DEF Connection, SameReceive
<1> HIDE DEF d
<1>4. ReceiveOK(d) /\ Edge(d) = Edge(c)
  BY <1>1, <1>3, SameReceiveOK
<1>5. FlightOK(d)
  BY <1>1, <1>3 DEF FlightOK
<1>6. ConnOK(d) /\ Edge(d) = Edge(c) /\ d.state = t
  BY <1>2, <1>3, <1>4, <1>5 DEF ConnOK
<1> QED BY <1>6 DEF d

\* Consuming the FIN moves the edge right by its sequence number.
LEMMA ConsumeFinOK ==
    ASSUME NEW c, ConnOK(c), c.state \in {"Established", "FinWait1", "FinWait2"}
    PROVE  /\ ConnOK(ConsumeFin(c)) /\ Edge(ConsumeFin(c)) >= Edge(c)
           /\ ConsumeFin(c).state \in {"CloseWait", "Closing", "TimeWait"}
<1> DEFINE r == c.rcv_nxt + 1
           t == CASE c.state = "Established" -> "CloseWait"
                  [] c.state = "FinWait1" -> "Closing"
                  [] c.state = "FinWait2" -> "TimeWait"
                  [] OTHER -> c.state
           d == [c EXCEPT !.rcv_nxt = r, !.fin_received = TRUE, !.state = t]
<1>1. c \in Connection /\ ReceiveOK(c) /\ FlightOK(c) /\ c.rcv_nxt \in Nat
  BY DEF ConnOK, Connection
<1>2. t \in {"CloseWait", "Closing", "TimeWait"} /\ t \in TcpState
  BY DEF TcpState
<1>3. ConsumeFin(c) = d
  BY DEF ConsumeFin
<1> HIDE DEF t
<1>4. r \in Nat
  BY <1>1
<1>5. d \in Connection
  <2> HIDE DEF r
  <2> QED BY <1>1, <1>2, <1>4 DEF Connection
<1>6. /\ d.rcv_nxt = c.rcv_nxt + 1 /\ d.rx = c.rx /\ d.ooo = c.ooo /\ d.state = t
      /\ d.snd_una = c.snd_una /\ d.snd_nxt = c.snd_nxt /\ d.cc = c.cc
  BY <1>1 DEF Connection
<1> HIDE DEF d
<1>7. Edge(d) = Edge(c) + 1 /\ Edge(c) \in Nat
  <2>1. CurrentRcvWnd(d) = CurrentRcvWnd(c)
    BY <1>6 DEF CurrentRcvWnd
  <2>2. CurrentRcvWnd(c) \in Nat
    BY <1>1, WindowOK
  <2> QED BY <1>1, <1>6, <2>1, <2>2 DEF Edge
<1>8. ReceiveOK(d)
  <2>1. \A s \in c.ooo : EndOf(s) \in Nat /\ EndOf(s) <= Edge(c)
    BY <1>1, LenProperties DEF Connection, OooSegment, EndOf, ReceiveOK
  <2>2. \A s \in d.ooo : EndOf(s) <= Edge(d)
    BY <1>6, <1>7, <2>1
  <2> QED BY <1>1, <1>2, <1>6, <2>2 DEF ReceiveOK
<1>9. FlightOK(d)
  BY <1>1, <1>6 DEF FlightOK
<1>10. Edge(d) >= Edge(c)
  BY <1>7
<1> QED BY <1>2, <1>3, <1>5, <1>6, <1>8, <1>9, <1>10 DEF ConnOK

\* Step 5 of the synchronized arm changes the state only.
LEMMA AfterFinAckedOK ==
    ASSUME NEW c, ConnOK(c)
    PROVE  ConnOK(AfterFinAcked(c)) /\ Edge(AfterFinAcked(c)) = Edge(c)
<1> DEFINE t == CASE c.state = "FinWait1" -> "FinWait2"
                  [] c.state = "Closing" -> "TimeWait"
                  [] OTHER -> c.state
           d == [c EXCEPT !.state = t]
<1>1. AfterFinAcked(c) = IF c.fin_sent /\ c.snd_una >= c.snd_nxt THEN d ELSE c
  BY DEF AfterFinAcked
<1>2. c \in Connection
  BY DEF ConnOK
<1>3. CASE c.state \in {"FinWait1", "Closing"}
  <2>1. /\ t \in TcpState \ {"Listen", "SynSent"}
        /\ t \in {"Closed", "TimeWait"} \/ c.state \notin {"Closed", "TimeWait"}
    BY <1>3 DEF TcpState
  <2> HIDE DEF t
  <2>2. ConnOK(d) /\ Edge(d) = Edge(c)
    BY <2>1, ChangeStateOK
  <2> QED BY <1>1, <2>2
<1>4. CASE c.state \notin {"FinWait1", "Closing"}
  <2>1. t = c.state
    BY <1>4
  <2>2. d = c
    <3> HIDE DEF t
    <3> QED BY <1>2, <2>1 DEF Connection
  <2> QED BY <1>1, <2>2
<1> QED BY <1>3, <1>4

\* ESTABLISHED, FIN_WAIT_1 and FIN_WAIT_2: acknowledge, accept, consume the FIN.
LEMMA OnSynchronizedOK ==
    ASSUME NEW c, ConnOK(c), NEW m \in Segment,
           c.state \in {"Established", "FinWait1", "FinWait2"}
    PROVE  Keeps(c, OnSynchronized(c, m))
<1> DEFINE a == ProcessAck(c, m)
           d == AcceptData(a.c, m.seq, m.data)
           isFin == ConsumesFin(d, m)
           f == IF isFin THEN ConsumeFin(d) ELSE d
           r == IF (m.data # <<>> \/ isFin) /\ a.out = <<>>
                THEN BuildAck(f) ELSE Result(f, a.out)
           z == AfterFinAcked(r.c)
<1>1. OnSynchronized(c, m) = IF m.isAck /\ m.ack > c.snd_nxt
                             THEN BuildAck(c) ELSE Result(z, r.out)
  BY DEF OnSynchronized
<1>2. CASE m.isAck /\ m.ack > c.snd_nxt
  BY <1>1, <1>2, BuildAckOK
<1>3. CASE ~(m.isAck /\ m.ack > c.snd_nxt)
  <2>1. ConnOK(a.c) /\ a.out \in Seq(Segment) /\ Edge(a.c) = Edge(c) /\ a.c.state = c.state
    BY <1>3, ProcessAckOK
  <2> HIDE DEF a
  <2>2. m.seq \in Nat /\ m.data \in Seq(Byte)
    BY DEF Segment
  <2>3. ConnOK(d) /\ Edge(d) = Edge(c) /\ d.state = c.state
    <3>1. a.c.state \notin {"Listen", "SynSent"}
      BY <2>1
    <3> QED BY <2>1, <2>2, <3>1, AcceptDataOK DEF SameSend
  <2> HIDE DEF d, isFin
  <2>4. ConnOK(ConsumeFin(d)) /\ Edge(ConsumeFin(d)) >= Edge(d)
        /\ ConsumeFin(d).state \in {"CloseWait", "Closing", "TimeWait"}
    BY <2>3, ConsumeFinOK
  <2>5. Edge(d) \in Nat /\ Edge(c) \in Nat
    BY <2>3, WindowOK DEF ConnOK
  <2>6. ConnOK(f) /\ Edge(f) >= Edge(c) /\ f.state \notin {"Closed", "Listen", "SynSent"}
    BY <2>3, <2>4, <2>5
  <2> HIDE DEF f
  <2>7. Keeps(f, BuildAck(f))
    BY <2>6, BuildAckOK
  <2>8. Keeps(c, BuildAck(f))
    BY <2>6, <2>7, ChainOK
  <2>9. Keeps(c, Result(f, a.out))
    BY <2>1, <2>6 DEF Keeps, Result
  <2>10. Keeps(c, r)
    BY <2>8, <2>9
  <2> HIDE DEF r
  <2>11. ConnOK(z) /\ Edge(z) = Edge(r.c)
    BY <2>10, AfterFinAckedOK DEF Keeps
  <2> HIDE DEF z
  <2>12. Keeps(c, Result(z, r.out))
    BY <2>10, <2>11 DEF Keeps, Result
  <2> QED BY <1>1, <1>3, <2>12
<1> QED BY <1>2, <1>3

\* CLOSE_WAIT takes only acknowledgements of what was sent.
LEMMA OnCloseWaitOK ==
    ASSUME NEW c, ConnOK(c), NEW m \in Segment, c.state = "CloseWait"
    PROVE  Keeps(c, OnCloseWait(c, m))
<1> DEFINE P == m.isAck /\ c.snd_una < m.ack /\ m.ack <= c.snd_nxt
           s == SlideTo([c EXCEPT !.snd_wnd = m.wnd], m.ack)
           c1 == IF P THEN s ELSE c
<1>1. c \in Connection /\ FlightOK(c) /\ Edge(c) \in Nat
  BY WindowOK DEF ConnOK
<1>2. c.snd_una \in Nat /\ m.ack \in Nat /\ m.wnd \in Nat
  BY <1>1 DEF Connection, Segment
<1>3. c.snd_una + c.cc.in_flight = c.snd_nxt
  BY <1>1 DEF FlightOK
<1>4. P => ConnOK(s) /\ Edge(s) = Edge(c) /\ s.state = c.state
  <2> SUFFICES ASSUME P PROVE ConnOK(s) /\ Edge(s) = Edge(c) /\ s.state = c.state
    OBVIOUS
  <2>1. c.snd_una <= m.ack /\ m.ack <= c.snd_nxt
    BY <1>2
  <2> QED BY <1>2, <1>3, <2>1, SlideOK
<1>5. OnCloseWait(c, m) = IF m.fin THEN BuildAck(c1) ELSE Quietly(c1)
  BY DEF OnCloseWait
<1> HIDE DEF P, s
<1>6. ConnOK(c1) /\ Edge(c1) = Edge(c) /\ c1.state = c.state
  BY <1>4
<1> HIDE DEF c1
<1>7. Keeps(c1, BuildAck(c1))
  BY <1>6, BuildAckOK
<1>8. Keeps(c, BuildAck(c1)) /\ Keeps(c, Quietly(c1))
  BY <1>1, <1>6, <1>7, ChainOK, QuietlyOK
<1> QED BY <1>5, <1>8

\* CLOSING and LAST_ACK.
LEMMA OnFinalAckOK ==
    ASSUME NEW c, ConnOK(c), NEW m \in Segment, NEW next \in {"TimeWait", "Closed"}
    PROVE  Keeps(c, OnFinalAck(c, m, next))
<1> DEFINE s == SlideTo(c, m.ack)
           d == [s EXCEPT !.state = next]
<1>1. c \in Connection /\ ReceiveOK(c) /\ Edge(c) \in Nat /\ m.ack \in Nat
  BY WindowOK DEF ConnOK, Segment
<1>2. s \in Connection /\ SameReceive(c, s)
  BY <1>1, SlideToOK
<1>3. OnFinalAck(c, m, next) = IF m.isAck /\ m.ack >= c.snd_nxt THEN Quietly(d) ELSE Quietly(c)
  BY DEF OnFinalAck
<1> HIDE DEF s
<1>4. d \in Connection
  BY <1>2 DEF Connection, TcpState
<1>5. SameReceive(s, d) /\ d.state = next
  BY <1>2 DEF Connection, SameReceive
<1> HIDE DEF d
<1>6. SameReceive(c, d)
  BY <1>2, <1>5 DEF SameReceive
<1>7. ReceiveOK(d) /\ Edge(d) = Edge(c)
  BY <1>1, <1>5, <1>6, SameReceiveOK
<1>8. ConnOK(d)
  BY <1>4, <1>5, <1>7 DEF ConnOK, FlightOK
<1>9. Keeps(c, Quietly(d)) /\ Keeps(c, Quietly(c))
  BY <1>1, <1>7, <1>8, QuietlyOK, NothingOK
<1> QED BY <1>3, <1>9

\* TIME_WAIT.
LEMMA OnTimeWaitOK ==
    ASSUME NEW c, ConnOK(c), NEW m \in Segment
    PROVE  Keeps(c, OnTimeWait(c, m))
<1> DEFINE a == AckSegment(c, c.snd_nxt)
<1>1. c \in Connection /\ Edge(c) \in Nat
  BY WindowOK DEF ConnOK
<1>2. c.snd_nxt \in Nat
  BY <1>1 DEF Connection
<1>3. a \in Segment
  BY <1>1, <1>2, AckSegmentOK
<1>4. OnTimeWait(c, m) = IF m.fin THEN Result(c, <<a>>) ELSE Quietly(c)
  BY DEF OnTimeWait
<1> HIDE DEF a
<1>5. <<a>> \in Seq(Segment)
  BY <1>3
<1>6. Keeps(c, Result(c, <<a>>))
  BY <1>1, <1>5 DEF Keeps, Result
<1> QED BY <1>4, <1>6, NothingOK

\* Whatever segment arrives, handle_segment keeps the receive side within the
\* window, the accounting exact, and the offered window.
LEMMA HandleSegmentOK ==
    ASSUME NEW c0, ConnOK(c0), NEW m \in Segment
    PROVE  Keeps(c0, HandleSegment(c0, m))
<1> DEFINE c == ApplyOptions(c0, m)
           r == HandleSegment(c0, m)
<1>1. ConnOK(c) /\ Edge(c) = Edge(c0) /\ c.state = c0.state
  BY ApplyOptionsOK
<1>2. r = IF m.rst THEN Quietly(OnRst(c, m))
          ELSE CASE c.state = "Listen" -> OnListen(c, m)
                 [] c.state = "SynSent" -> OnSynSent(c, m)
                 [] c.state = "SynReceived" -> OnSynReceived(c, m)
                 [] c.state \in {"Established", "FinWait1", "FinWait2"} -> OnSynchronized(c, m)
                 [] c.state = "CloseWait" -> OnCloseWait(c, m)
                 [] c.state = "Closing" -> OnFinalAck(c, m, "TimeWait")
                 [] c.state = "LastAck" -> OnFinalAck(c, m, "Closed")
                 [] c.state = "TimeWait" -> OnTimeWait(c, m)
                 [] c.state = "Closed" -> Quietly(c)
  BY DEF HandleSegment
<1>3. c.state \in TcpState
  BY <1>1 DEF ConnOK, Connection
<1> HIDE DEF c, r
<1>4. Keeps(c, r)
  <2>1. CASE m.rst
    BY <1>1, <1>2, <2>1, OnRstOK
  <2>2. CASE ~m.rst /\ c.state = "Listen"
    BY <1>1, <1>2, <2>2, OnListenOK
  <2>3. CASE ~m.rst /\ c.state = "SynSent"
    BY <1>1, <1>2, <2>3, OnSynSentOK
  <2>4. CASE ~m.rst /\ c.state = "SynReceived"
    BY <1>1, <1>2, <2>4, OnSynReceivedOK
  <2>5. CASE ~m.rst /\ c.state \in {"Established", "FinWait1", "FinWait2"}
    BY <1>1, <1>2, <2>5, OnSynchronizedOK
  <2>6. CASE ~m.rst /\ c.state = "CloseWait"
    BY <1>1, <1>2, <2>6, OnCloseWaitOK
  <2>7. CASE ~m.rst /\ c.state \in {"Closing", "LastAck"}
    BY <1>1, <1>2, <2>7, OnFinalAckOK
  <2>8. CASE ~m.rst /\ c.state = "TimeWait"
    BY <1>1, <1>2, <2>8, OnTimeWaitOK
  <2>9. CASE ~m.rst /\ c.state = "Closed"
    BY <1>1, <1>2, <2>9, NothingOK
  <2> QED BY <1>3, <2>1, <2>2, <2>3, <2>4, <2>5, <2>6, <2>7, <2>8, <2>9 DEF TcpState
<1>5. Keeps(c0, r)
  <2>1. Edge(c0) \in Nat
    BY WindowOK DEF ConnOK
  <2> QED BY <1>1, <1>4, <2>1, ChainOK
<1> QED BY <1>5 DEF r

-----------------------------------------------------------------------------
(* poll_output *)

\* r keeps what a handler must and leaves the receive side of c alone.
SendsOnly(c, r) == Keeps(c, r) /\ SameReceive(c, r.c)

\* Sending n bytes advances snd_nxt and bytes_in_flight by n.
LEMMA TransmitOK ==
    ASSUME NEW c, ConnOK(c), NEW n \in Nat, n <= Len(c.tx), NEW size \in Nat \ {0}
    PROVE  SendsOnly(c, Transmit(c, n, size)) /\ Transmit(c, n, size).c.state = c.state
<1> DEFINE starts == {o \in 0 .. (n - 1) : o % size = 0}
           Chunk(o) == SubSeq(c.tx, o + 1, MinOf(o + size, n))
           Seg(o) == [AckSegment(c, c.snd_nxt + o) EXCEPT !.data = Chunk(o)]
           E(o) == RtqEntry(c.snd_nxt + o, Len(Chunk(o)), FALSE, TRUE, FALSE, Chunk(o))
           q == c.rtq \cup {E(o) : o \in starts}
           x == SubSeq(c.tx, n + 1, Len(c.tx))
           cc == RecordSent(c.cc, n)
           k == c.snd_nxt + n
           w == CurrentRcvWnd(c)
           d == [c EXCEPT !.tx = x, !.snd_nxt = k, !.cc = cc, !.rtq = q,
                          !.last_advertised_wnd = w]
           N == Cardinality(starts)
           out == [i \in 1 .. N |-> Seg((i - 1) * size)]
<1>1. c \in Connection /\ ReceiveOK(c) /\ FlightOK(c)
  BY DEF ConnOK
<1>2. /\ c.tx \in Seq(Byte) /\ Len(c.tx) \in Nat /\ c.snd_nxt \in Nat /\ c.snd_una \in Nat
      /\ c.cc \in CongestionControl /\ c.cc.in_flight \in Nat
      /\ c.rtq \in SUBSET RetransmitSegment /\ w \in Nat
  BY <1>1, LenProperties, WindowOK DEF Connection, CongestionControl
<1>3. \A o \in Nat : Chunk(o) \in Seq(Byte)
  <2> SUFFICES ASSUME NEW o \in Nat PROVE Chunk(o) \in Seq(Byte)
    OBVIOUS
  <2> DEFINE j == MinOf(o + size, n)
  <2>1. o + size \in Nat /\ o + 1 \in Nat \ {0}
    OBVIOUS
  <2>2. j \in Nat /\ j <= n
    BY <2>1, Saturating
  <2> HIDE DEF j
  <2>3. j \in Int /\ j <= Len(c.tx)
    BY <1>2, <2>2
  <2>4. SubSeq(c.tx, o + 1, j) \in Seq(Byte)
    BY <1>2, <2>1, <2>3, Slice
  <2> QED BY <2>4 DEF j
<1> HIDE DEF Chunk
<1>4. \A o \in Nat : Seg(o) \in Segment
  <2> SUFFICES ASSUME NEW o \in Nat PROVE Seg(o) \in Segment
    OBVIOUS
  <2> DEFINE a == AckSegment(c, c.snd_nxt + o)
             y == Chunk(o)
  <2>1. a \in Segment
    BY <1>1, <1>2, AckSegmentOK
  <2>2. y \in Seq(Byte)
    BY <1>3
  <2> HIDE DEF a, y
  <2>3. [a EXCEPT !.data = y] \in Segment
    BY <2>1, <2>2 DEF Segment
  <2> QED BY <2>3 DEF a, y
<1>5. \A o \in Nat : E(o) \in RetransmitSegment
  <2> SUFFICES ASSUME NEW o \in Nat PROVE E(o) \in RetransmitSegment
    OBVIOUS
  <2> DEFINE y == Chunk(o)
             l == Len(y)
             b == c.snd_nxt + o
  <2>1. y \in Seq(Byte) /\ l \in Nat /\ b \in Nat
    BY <1>2, <1>3, LenProperties
  <2> HIDE DEF y, l, b
  <2>2. RtqEntry(b, l, FALSE, TRUE, FALSE, y) \in RetransmitSegment
    BY <2>1 DEF RtqEntry, RetransmitSegment
  <2> QED BY <2>2 DEF y, l, b
<1> HIDE DEF Seg, E
<1>6. starts \in SUBSET Nat /\ N \in Nat
  <2>1. 0 \in Int /\ n - 1 \in Int
    OBVIOUS
  <2>2. IsFiniteSet(0 .. (n - 1))
    BY <2>1, FS_Interval
  <2>3. IsFiniteSet(starts)
    BY <2>2, FS_Subset
  <2>4. N \in Nat
    BY <2>3, FS_CardinalityType
  <2> QED BY <2>4
<1>7. q \in SUBSET RetransmitSegment
  <2> HIDE DEF starts
  <2> QED BY <1>2, <1>5, <1>6
<1>8. out \in Seq(Segment)
  <2> HIDE DEF N
  <2>1. \A i \in 1 .. N : (i - 1) * size \in Nat
    <3> SUFFICES ASSUME NEW i \in 1 .. N PROVE (i - 1) * size \in Nat
      OBVIOUS
    <3>1. i - 1 \in Nat
      BY <1>6
    <3> QED BY <3>1
  <2>2. out \in [1 .. N -> Segment]
    BY <1>4, <2>1
  <2> HIDE DEF out
  <2> QED BY <1>6, <2>2, FcnIsSeq
<1>9. x \in Seq(Byte)
  <2>1. n + 1 \in Nat \ {0} /\ Len(c.tx) \in Int
    BY <1>2
  <2> QED BY <1>2, <2>1, Slice
<1>10. cc \in CongestionControl /\ cc.in_flight = c.cc.in_flight + n
  BY <1>2, RecordSentOK
<1>11. k \in Nat
  BY <1>2
<1>12. Transmit(c, n, size) = Result(d, out)
  BY DEF Transmit, Seg, E, Chunk
<1> HIDE DEF q, x, cc, k, w, out
<1>13. d \in Connection
  BY <1>1, <1>2, <1>7, <1>9, <1>10, <1>11 DEF Connection
<1>14. /\ SameReceive(c, d) /\ d.state = c.state /\ d.snd_una = c.snd_una
       /\ d.snd_nxt = k /\ d.cc = cc
  BY <1>1 DEF Connection, SameReceive
<1> HIDE DEF d
<1>15. FlightOK(d)
  <2> SUFFICES ASSUME c.state \notin {"Closed", "TimeWait"}
               PROVE  d.snd_una + d.cc.in_flight = d.snd_nxt
    BY <1>14 DEF FlightOK
  <2> DEFINE f == c.cc.in_flight
  <2>1. f \in Nat /\ c.snd_una + f = c.snd_nxt
    BY <1>1, <1>2 DEF FlightOK
  <2>2. d.cc.in_flight = f + n /\ d.snd_nxt = c.snd_nxt + n
    BY <1>10, <1>14 DEF k
  <2> HIDE DEF f
  <2> QED BY <1>2, <1>14, <2>1, <2>2
<1>16. Keeps(c, Result(d, out))
  BY <1>8, <1>13, <1>14, <1>15, SendSideOK
<1>17. Result(d, out).c = d
  BY DEF Result
<1> QED BY <1>12, <1>14, <1>16, <1>17 DEF SendsOnly

\* A step of poll_output that does nothing.
LEMMA NothingSent ==
    ASSUME NEW c, ConnOK(c)
    PROVE  SendsOnly(c, Quietly(c))
<1>1. Quietly(c).c = c
  BY DEF Quietly, Result
<1> QED BY <1>1, NothingOK DEF SendsOnly, SameReceive

\* A field of the send side set to a value of its type.
LEMMA SetOK ==
    ASSUME NEW c, ConnOK(c), NEW d \in Connection, SameReceive(c, d),
           d.snd_una = c.snd_una, d.snd_nxt = c.snd_nxt,
           d.cc.in_flight = c.cc.in_flight, d.state = c.state
    PROVE  ConnOK(d) /\ SendsOnly(c, Quietly(d))
<1>1. FlightOK(d)
  BY DEF ConnOK, FlightOK
<1>2. <<>> \in Seq(Segment)
  BY EmptySeq
<1>3. Keeps(c, Result(d, <<>>))
  BY <1>1, <1>2, SendSideOK
<1>4. Result(d, <<>>).c = d /\ Quietly(d) = Result(d, <<>>)
  BY DEF Result, Quietly
<1> QED BY <1>3, <1>4 DEF SendsOnly, Keeps

\* Step 1.
LEMMA SendQueuedOK ==
    ASSUME NEW c, ConnOK(c)
    PROVE  SendsOnly(c, SendQueued(c))
<1> DEFINE n == MinOf(Available(c), Len(c.tx))
<1>1. /\ c \in Connection /\ c.cc \in CongestionControl /\ c.snd_wnd \in Nat
      /\ Len(c.tx) \in Nat /\ c.peer_mss \in Nat \ {0}
  BY LenProperties DEF ConnOK, Connection
<1>2. Available(c) \in Nat
  <2>1. c.cc.cwnd \in Nat /\ c.cc.in_flight \in Nat
    BY <1>1 DEF CongestionControl
  <2>2. MinOf(c.cc.cwnd, c.snd_wnd) \in Nat
    BY <1>1, <2>1, Saturating
  <2> QED BY <2>1, <2>2, Saturating DEF Available, SendWindowAvailable
<1>3. n \in Nat /\ n <= Len(c.tx)
  BY <1>1, <1>2, Saturating
<1>4. SendQueued(c) = IF Sending(c) /\ n > 0 THEN Transmit(c, n, c.peer_mss) ELSE Quietly(c)
  BY DEF SendQueued
<1> HIDE DEF n
<1>5. SendsOnly(c, Transmit(c, n, c.peer_mss))
  BY <1>1, <1>3, TransmitOK
<1> QED BY <1>4, <1>5, NothingSent

\* Step 2.
LEMMA DeferredFinOK ==
    ASSUME NEW c, ConnOK(c)
    PROVE  SendsOnly(c, DeferredFin(c))
  BY EmitFinOK, NothingSent DEF DeferredFin, SendsOnly

\* Step 3: the retransmission timeout.
LEMMA TimeoutOK ==
    ASSUME NEW c, ConnOK(c)
    PROVE  SendsOnly(c, Timeout(c))
<1> DEFINE k == OnTimeout(c.cc)
           d == [c EXCEPT !.cc = k]
<1>1. c \in Connection /\ c.cc \in CongestionControl
  BY DEF ConnOK, Connection
<1>2. k \in CongestionControl /\ k.in_flight = c.cc.in_flight
  BY <1>1, OnTimeoutOK
<1>3. Timeout(c) = RetransmitOldest(d)
  BY DEF Timeout
<1> HIDE DEF k
<1>4. d \in Connection
  BY <1>1, <1>2 DEF Connection
<1>5. /\ SameReceive(c, d) /\ d.snd_una = c.snd_una /\ d.snd_nxt = c.snd_nxt /\ d.cc = k
      /\ d.state = c.state
  BY <1>1 DEF Connection, SameReceive
<1> HIDE DEF d
<1>6. ConnOK(d) /\ SendsOnly(c, Quietly(d))
  BY <1>2, <1>4, <1>5, SetOK
<1>7. Edge(d) = Edge(c) /\ Edge(c) \in Nat
  BY <1>1, <1>5, WindowOK DEF SameReceive, Edge, CurrentRcvWnd
<1> DEFINE r == RetransmitOldest(d)
<1>8. Keeps(d, r) /\ SameReceive(d, r.c)
  BY <1>6, RetransmitOldestOK
<1> HIDE DEF r
<1>9. Keeps(c, r)
  BY <1>5, <1>6, <1>7, <1>8, ChainOK
<1>10. SameReceive(c, r.c)
  BY <1>5, <1>8 DEF SameReceive
<1> QED BY <1>3, <1>9, <1>10 DEF SendsOnly, r

\* Giving up.
LEMMA AbortOK ==
    ASSUME NEW c, ConnOK(c)
    PROVE  ConnOK(Abort(c)) /\ SameReceive(c, Abort(c))
<1>1. c \in Connection /\ ReceiveOK(c) /\ <<>> \in Seq(Byte)
  BY EmptySeq DEF ConnOK
<1>2. Abort(c) \in Connection
  BY <1>1 DEF Abort, Connection, TcpState
<1>3. SameReceive(c, Abort(c)) /\ Abort(c).state = "Closed"
  BY <1>1 DEF Abort, Connection, SameReceive
<1>4. ReceiveOK(Abort(c))
  BY <1>1, <1>3, SameReceiveOK
<1> QED BY <1>2, <1>3, <1>4 DEF ConnOK, FlightOK

\* Step 5: the zero-window probe.
LEMMA ProbeOK ==
    ASSUME NEW c, ConnOK(c), NEW wasSending, NEW isDue
    PROVE  SendsOnly(c, Probe(c, wasSending, isDue))
<1> DEFINE f == [c EXCEPT !.persist = FALSE]
           t == [c EXCEPT !.persist = TRUE]
<1>1. c \in Connection /\ c.tx \in Seq(Byte)
  BY DEF ConnOK, Connection
<1>2. f \in Connection /\ t \in Connection
  BY <1>1 DEF Connection
<1>3. /\ SameReceive(c, f) /\ f.snd_una = c.snd_una /\ f.snd_nxt = c.snd_nxt /\ f.cc = c.cc
      /\ f.state = c.state
  BY <1>1 DEF Connection, SameReceive
<1>4. /\ SameReceive(c, t) /\ t.snd_una = c.snd_una /\ t.snd_nxt = c.snd_nxt /\ t.cc = c.cc
      /\ t.state = c.state
  BY <1>1 DEF Connection, SameReceive
<1>5. Probe(c, wasSending, isDue) =
        IF ~(wasSending /\ Stalled(c)) THEN Quietly(f)
        ELSE IF c.persist /\ isDue THEN Transmit(c, 1, 1) ELSE Quietly(t)
  BY DEF Probe
<1> HIDE DEF f, t
<1>6. SendsOnly(c, Quietly(f)) /\ SendsOnly(c, Quietly(t))
  BY <1>2, <1>3, <1>4, SetOK
<1>7. c.tx # <<>> => SendsOnly(c, Transmit(c, 1, 1))
  <2> SUFFICES ASSUME c.tx # <<>> PROVE SendsOnly(c, Transmit(c, 1, 1))
    OBVIOUS
  <2>1. 1 <= Len(c.tx)
    <3>1. Len(c.tx) \in Nat \ {0}
      BY <1>1, EmptySeq
    <3> QED BY <3>1
  <2>2. 1 \in Nat /\ 1 \in Nat \ {0}
    OBVIOUS
  <2> QED BY <2>1, <2>2, TransmitOK
<1> QED BY <1>5, <1>6, <1>7 DEF Stalled

\* poll_output, whichever timers are due, sends and never touches what was received.
LEMMA PollOutputOK ==
    ASSUME NEW c, ConnOK(c), NEW due
    PROVE  SendsOnly(c, PollOutput(c, due))
<1> DEFINE s1 == SendQueued(c)
           s2 == DeferredFin(s1.c)
           s3 == IF "rto" \in due THEN Timeout(s2.c) ELSE Quietly(s2.c)
           s4 == IF WindowReopened(s3.c) THEN BuildAck(s3.c) ELSE Quietly(s3.c)
           s5 == Probe(s4.c, Sending(c), "persist" \in due)
           c6 == IF "timewait" \in due THEN [s5.c EXCEPT !.state = "Closed"] ELSE s5.c
<1>1. PollOutput(c, due) =
        IF c.aborted \/ c.state = "Closed" THEN Quietly(c)
        ELSE IF "rto" \in due /\ Exhausted(s2.c)
             THEN Result(Abort(s2.c), s1.out \o s2.out)
             ELSE Result(c6, s1.out \o s2.out \o s3.out \o s4.out \o s5.out)
  BY DEF PollOutput
<1>2. ConnOK(s1.c) /\ s1.out \in Seq(Segment) /\ SameReceive(c, s1.c)
  BY SendQueuedOK DEF SendsOnly, Keeps
<1> HIDE DEF s1
<1>3. ConnOK(s2.c) /\ s2.out \in Seq(Segment) /\ SameReceive(s1.c, s2.c)
  BY <1>2, DeferredFinOK DEF SendsOnly, Keeps
<1> HIDE DEF s2
<1>4. ConnOK(s3.c) /\ s3.out \in Seq(Segment) /\ SameReceive(s2.c, s3.c)
  BY <1>3, TimeoutOK, NothingSent DEF SendsOnly, Keeps
<1> HIDE DEF s3
<1>5. ConnOK(s4.c) /\ s4.out \in Seq(Segment) /\ SameReceive(s3.c, s4.c)
  BY <1>4, BuildAckOK, NothingSent DEF SendsOnly, Keeps
<1> HIDE DEF s4
<1>6. ConnOK(s5.c) /\ s5.out \in Seq(Segment) /\ SameReceive(s4.c, s5.c)
  BY <1>5, ProbeOK DEF SendsOnly, Keeps
<1> HIDE DEF s5
<1>7. ConnOK(c6) /\ SameReceive(s5.c, c6)
  <2> DEFINE e == [s5.c EXCEPT !.state = "Closed"]
  <2>1. ConnOK(e)
    BY <1>6, ChangeStateOK DEF TcpState
  <2>2. SameReceive(s5.c, e)
    BY <1>6 DEF ConnOK, Connection, SameReceive
  <2>3. SameReceive(s5.c, s5.c)
    BY DEF SameReceive
  <2> HIDE DEF e
  <2>4. c6 = IF "timewait" \in due THEN e ELSE s5.c
    BY DEF e
  <2> QED BY <1>6, <2>1, <2>2, <2>3, <2>4
<1> HIDE DEF c6
<1>8. ConnOK(Abort(s2.c)) /\ SameReceive(s2.c, Abort(s2.c))
  BY <1>3, AbortOK
<1>9. SameReceive(c, c6) /\ SameReceive(c, Abort(s2.c))
  BY <1>2, <1>3, <1>4, <1>5, <1>6, <1>7, <1>8 DEF SameReceive
<1>10. /\ s1.out \o s2.out \in Seq(Segment)
       /\ s1.out \o s2.out \o s3.out \o s4.out \o s5.out \in Seq(Segment)
  BY <1>2, <1>3, <1>4, <1>5, <1>6, ConcatProperties
<1>11. \A d, out : ConnOK(d) /\ SameReceive(c, d) /\ out \in Seq(Segment)
                     => SendsOnly(c, Result(d, out))
  <2> SUFFICES ASSUME NEW d, NEW out, ConnOK(d), SameReceive(c, d), out \in Seq(Segment)
               PROVE  SendsOnly(c, Result(d, out))
    OBVIOUS
  <2>1. Edge(d) = Edge(c) /\ Edge(d) \in Nat
    BY WindowOK DEF ConnOK, SameReceive, Edge, CurrentRcvWnd
  <2> QED BY <2>1 DEF SendsOnly, Keeps, Result
<1>12. SendsOnly(c, Quietly(c))
  BY NothingSent
<1> QED BY <1>1, <1>7, <1>8, <1>9, <1>10, <1>11, <1>12

-----------------------------------------------------------------------------
(* Each host by itself.                                                    *)

Fresh(h) == NewConnection(IF h \in Clients THEN "Closed" ELSE "Listen", Isn[h], LocalMss[h])

ConnInv ==
    \A h \in Host : ConnOK(conn[h]) /\ (slot[h] = "free" => conn[h] = Fresh(h))

\* The inductive invariant.
IInv == TypeOK /\ ConnInv

\* No host's right edge moves left in this step.
NoShrink ==
    \A h \in Host :
      conn[h].state \notin {"Closed", "Listen", "SynSent"} => Edge(conn'[h]) >= Edge(conn[h])

-----------------------------------------------------------------------------

\* x is what host h may put in place of its connection.
Replaces(h, x) ==
    /\ ConnOK(x)
    /\ conn[h].state \notin {"Closed", "Listen", "SynSent"} => Edge(x) >= Edge(conn[h])

\* A step of host h that replaces its connection.
LEMMA ReplaceOK ==
    ASSUME IInv, NEW h \in Host, NEW x, Replaces(h, x), conn' = [conn EXCEPT ![h] = x],
           NEW t \in Slot, slot' = [slot EXCEPT ![h] = t],
           t = "free" => slot[h] = "free" /\ x = conn[h]
    PROVE  /\ conn' \in [Host -> Connection] /\ slot' \in [Host -> Slot]
           /\ ConnInv' /\ NoShrink
<1>1. conn \in [Host -> Connection] /\ slot \in [Host -> Slot] /\ ConnInv
  BY DEF IInv, TypeOK
<1>2. x \in Connection
  BY DEF Replaces, ConnOK
<1>3. conn' \in [Host -> Connection] /\ slot' \in [Host -> Slot]
  BY <1>1, <1>2
<1>4. \A g \in Host : /\ conn'[g] = IF g = h THEN x ELSE conn[g]
                      /\ slot'[g] = IF g = h THEN t ELSE slot[g]
  BY <1>1
<1>5. ConnInv'
  <2> SUFFICES ASSUME NEW g \in Host
               PROVE  ConnOK(conn'[g]) /\ (slot'[g] = "free" => conn'[g] = Fresh(g))
    BY DEF ConnInv, Fresh
  <2>1. CASE g = h
    BY <1>1, <1>4, <2>1 DEF ConnInv, Replaces
  <2>2. CASE g # h
    BY <1>1, <1>4, <2>2 DEF ConnInv
  <2> QED BY <2>1, <2>2
<1>6. NoShrink
  <2> SUFFICES ASSUME NEW g \in Host, conn[g].state \notin {"Closed", "Listen", "SynSent"}
               PROVE  Edge(conn'[g]) >= Edge(conn[g])
    BY DEF NoShrink
  <2>1. CASE g = h
    BY <1>4, <2>1 DEF Replaces
  <2>2. CASE g # h
    <3>1. Edge(conn[g]) \in Nat
      BY <1>1, WindowOK
    <3> QED BY <1>4, <2>2, <3>1
  <2> QED BY <2>1, <2>2
<1> QED BY <1>3, <1>5, <1>6

\* A step that leaves every connection alone; a slot may be released.
LEMMA KeepOK ==
    ASSUME IInv, conn' = conn, slot' \in [Host -> Slot],
           \A h \in Host : slot'[h] = "free" => slot[h] = "free"
    PROVE  conn' \in [Host -> Connection] /\ ConnInv' /\ NoShrink
<1>1. conn \in [Host -> Connection] /\ ConnInv
  BY DEF IInv, TypeOK
<1>2. ConnInv'
  BY <1>1 DEF ConnInv, Fresh
<1>3. \A h \in Host : Edge(conn[h]) \in Nat
  BY <1>1, WindowOK
<1>4. NoShrink
  BY <1>3 DEF NoShrink
<1> QED BY <1>1, <1>2, <1>4

\* The fault counter stays within its bound.
LEMMA ElapseOK ==
    ASSUME TypeOK, NEW h \in Host, NEW due, NEW cost \in Nat, Elapse(h, due, cost)
    PROVE  faults' \in 0 .. MaxFaults /\ lastFired' \in Host \cup {"none"}
<1> DEFINE k == Charge(h, due)
<1>1. k \in Nat
  BY DEF Charge
<1>2. /\ faults + (cost + k) <= MaxFaults /\ faults' = faults + cost + k
      /\ lastFired' = IF due = {} THEN lastFired ELSE h
  BY DEF Elapse, WithinBudget
<1>3. faults \in 0 .. MaxFaults /\ lastFired \in Host \cup {"none"}
  BY DEF TypeOK
<1>4. MaxFaults \in Nat
  BY PairAssumption
<1> HIDE DEF k
<1>5. faults' \in 0 .. MaxFaults
  BY <1>1, <1>2, <1>3, <1>4
<1> QED BY <1>2, <1>3, <1>5

\* The wire without its i-th segment.
LEMMA WithoutOK ==
    ASSUME NEW S, NEW s \in Seq(S), NEW i \in DOMAIN s
    PROVE  Without(s, i) \in Seq(S)
<1>1. Len(s) \in Nat /\ i \in 1 .. Len(s)
  BY LenProperties
<1> DEFINE n == Len(s)
<1>2. /\ i - 1 \in Int /\ i - 1 <= n /\ i + 1 \in Nat \ {0} /\ n \in Int /\ 1 \in Nat \ {0}
  BY <1>1
<1>3. SubSeq(s, 1, i - 1) \in Seq(S) /\ SubSeq(s, i + 1, Len(s)) \in Seq(S)
  <2>1. SubSeq(s, 1, i - 1) \in Seq(S)
    BY <1>2, Slice
  <2>2. n <= Len(s)
    BY <1>1
  <2>3. SubSeq(s, i + 1, n) \in Seq(S)
    <3> HIDE DEF n
    <3> QED BY <1>2, <2>2, Slice
  <2> QED BY <2>1, <2>3
<1> QED BY <1>3, ConcatProperties DEF Without

\* The reset for a segment nobody owns is well formed.
LEMMA BuildResetOK ==
    ASSUME NEW m \in Segment
    PROVE  BuildReset(m) \in Seq(Segment)
<1> DEFINE s == IF m.isAck THEN m.ack ELSE 0
           a == FinSeq(m) + (IF m.fin THEN 1 ELSE 0)
           x == [seq |-> s, ack |-> a, syn |-> FALSE, isAck |-> ~m.isAck, fin |-> FALSE,
                 rst |-> TRUE, wnd |-> 0, mss |-> 0, sackOk |-> FALSE, sack |-> {},
                 data |-> <<>>]
<1>1. m.seq \in Nat /\ m.ack \in Nat /\ Len(m.data) \in Nat /\ m.isAck \in BOOLEAN
  BY LenProperties DEF Segment
<1>2. s \in Nat
  BY <1>1
<1>3. a \in Nat
  <2> DEFINE n == Len(m.data)
             u == IF m.syn THEN 1 ELSE 0
             v == IF m.fin THEN 1 ELSE 0
  <2>1. n \in Nat /\ u \in Nat /\ v \in Nat /\ a = m.seq + u + n + v
    BY <1>1 DEF FinSeq
  <2> HIDE DEF n, u, v, a
  <2> QED BY <1>1, <2>1
<1>4. <<>> \in Seq(Byte)
  BY EmptySeq
<1>5. BuildReset(m) = IF m.rst THEN <<>> ELSE <<x>>
  BY DEF BuildReset
<1> HIDE DEF s, a
<1>6. x \in Segment
  BY <1>1, <1>2, <1>3, <1>4 DEF Segment
<1> HIDE DEF x
<1>7. <<>> \in Seq(Segment) /\ <<x>> \in Seq(Segment)
  BY <1>6
<1> QED BY <1>5, <1>7

\* What a dispatch does to the wire.
LEMMA ExchangeOK ==
    ASSUME TypeOK, NEW h \in Host, NEW i \in DOMAIN wire[h], NEW replies \in Seq(Segment),
           Exchange(h, i, replies)
    PROVE  wire' \in [Host -> Seq(Segment)]
<1>1. wire \in [Host -> Seq(Segment)]
  BY DEF TypeOK
<1>2. \A g \in Host : wire[g] \in Seq(Segment)
  BY <1>1
<1>3. Without(wire[h], i) \in Seq(Segment)
  BY <1>2, WithoutOK
<1>4. \A g \in Host : wire[g] \o replies \in Seq(Segment)
  BY <1>2, ConcatProperties
<1> QED BY <1>3, <1>4 DEF Exchange

\* What arrives is a segment.
LEMMA ArrivingOK ==
    ASSUME TypeOK, NEW h \in Host, NEW i \in DOMAIN wire[h]
    PROVE  wire[h][i] \in Segment
<1>1. wire[h] \in Seq(Segment)
  BY DEF TypeOK
<1> QED BY <1>1, LenProperties, ElementOfSeq

-----------------------------------------------------------------------------
(* Initial states *)

\* A connection as it is created.
LEMMA FreshOK ==
    ASSUME NEW h \in Host
    PROVE  /\ ConnOK(Fresh(h)) /\ Fresh(h).ooo = {}
           /\ Fresh(h).state = (IF h \in Clients THEN "Closed" ELSE "Listen")
           /\ Fresh(h).snd_una + Fresh(h).cc.in_flight = Fresh(h).snd_nxt
<1> DEFINE t == IF h \in Clients THEN "Closed" ELSE "Listen"
           x == NewConnection(t, Isn[h], LocalMss[h])
<1>1. t \in {"Closed", "Listen"} /\ Isn[h] \in Nat /\ LocalMss[h] \in Nat \ {0}
  BY PairAssumption
<1> HIDE DEF t
<1>2. /\ ConnOK(x) /\ x.ooo = {} /\ x.state = t /\ x.snd_una = Isn[h] /\ x.snd_nxt = Isn[h]
      /\ x.cc.in_flight = 0
  BY <1>1, NewConnectionOK
<1> HIDE DEF x
<1>3. x.snd_una + x.cc.in_flight = x.snd_nxt
  BY <1>1, <1>2
<1>4. Fresh(h) = x
  BY DEF Fresh, x, t
<1> QED BY <1>2, <1>3, <1>4 DEF t

\* IInv holds initially.
LEMMA InitOK == Init => IInv
<1> SUFFICES ASSUME Init PROVE IInv
  OBVIOUS
<1>1. conn = [h \in Host |-> Fresh(h)]
  BY DEF Init, Fresh
<1>2. \A h \in Host : conn[h] = Fresh(h) /\ ConnOK(conn[h])
  BY <1>1, FreshOK
<1>3. conn \in [Host -> Connection]
  BY <1>1, <1>2 DEF ConnOK
<1>4. <<>> \in Seq(Segment) /\ <<>> \in Seq(Byte)
  BY EmptySeq
<1>5. /\ slot \in [Host -> Slot] /\ txq \in [Host -> Seq(Segment)]
      /\ wire \in [Host -> Seq(Segment)] /\ wrote \in [Host -> Nat]
      /\ got \in [Host -> Seq(Byte)] /\ lastFired \in Host \cup {"none"}
  BY <1>4 DEF Init, Slot
<1>6. faults \in 0 .. MaxFaults
  BY PairAssumption DEF Init
<1> QED BY <1>2, <1>3, <1>5, <1>6 DEF IInv, TypeOK, ConnInv

-----------------------------------------------------------------------------
(* One lemma per action: it preserves IInv and withdraws no window *)

\* What a handler that keeps its promise may leave in the socket table.
LEMMA KeepsReplaces ==
    ASSUME NEW h, NEW r, Keeps(conn[h], r)
    PROVE  Replaces(h, r.c) /\ r.out \in Seq(Segment)
  BY DEF Keeps, Replaces

\* connect
LEMMA TcpConnectOK ==
    ASSUME IInv, NEW h \in Host, TcpConnect(h)
    PROVE  IInv' /\ NoShrink
<1> DEFINE r == InitiateSyn(conn[h])
<1>1. TypeOK /\ ConnInv /\ conn[h] = Fresh(h) /\ h \in Clients
  BY DEF IInv, TcpConnect, ConnInv
<1>2. Keeps(conn[h], r)
  BY <1>1, FreshOK, InitiateSynOK
<1>3. /\ conn' = [conn EXCEPT ![h] = r.c] /\ slot' = [slot EXCEPT ![h] = "live"]
      /\ txq' = [txq EXCEPT ![h] = @ \o r.out]
      /\ UNCHANGED <<wire, wrote, got, faults, lastFired>>
  BY DEF TcpConnect
<1> HIDE DEF r
<1>4. Replaces(h, r.c) /\ r.out \in Seq(Segment)
  BY <1>2, KeepsReplaces
<1>5. /\ conn' \in [Host -> Connection] /\ slot' \in [Host -> Slot] /\ ConnInv' /\ NoShrink
  <2>1. "live" \in Slot /\ "live" # "free"
    BY DEF Slot
  <2> QED BY <1>3, <1>4, <2>1, ReplaceOK
<1>6. txq' \in [Host -> Seq(Segment)]
  <2>1. txq \in [Host -> Seq(Segment)] /\ txq[h] \in Seq(Segment)
    BY <1>1 DEF TypeOK
  <2>2. txq[h] \o r.out \in Seq(Segment)
    BY <1>4, <2>1, ConcatProperties
  <2> QED BY <1>3, <2>1, <2>2
<1> QED BY <1>1, <1>3, <1>5, <1>6 DEF IInv, TypeOK

\* write
LEMMA TcpWriteOK ==
    ASSUME IInv, NEW h \in Host, NEW n \in Nat, TcpWrite(h, n)
    PROVE  IInv' /\ NoShrink
<1> DEFINE data == SubSeq(AppData[h], wrote[h] + 1, wrote[h] + n)
           c == Write(conn[h], data)
           k == Len(c.tx) - Len(conn[h].tx)
<1>1. TypeOK /\ ConnInv /\ ConnOK(conn[h]) /\ wrote[h] \in Nat /\ slot[h] \in Slot
  BY DEF IInv, ConnInv, TypeOK
<1>2. /\ conn' = [conn EXCEPT ![h] = c] /\ wrote' = [wrote EXCEPT ![h] = @ + k]
      /\ slot[h] = "live" /\ wrote[h] + n <= Len(AppData[h])
      /\ UNCHANGED <<slot, txq, wire, got, faults, lastFired>>
  BY DEF TcpWrite
<1>3. data \in Seq(Byte)
  <2>1. AppData[h] \in Seq(Byte)
    BY PairAssumption
  <2>2. wrote[h] + 1 \in Nat \ {0} /\ wrote[h] + n \in Int
    BY <1>1
  <2> QED BY <1>2, <2>1, <2>2, Slice
<1> HIDE DEF data
<1>4. ConnOK(c) /\ Edge(c) = Edge(conn[h]) /\ k \in Nat
  BY <1>1, <1>3, WriteOK
<1>5. Edge(conn[h]) \in Nat
  BY <1>1, WindowOK DEF ConnOK
<1> HIDE DEF c, k
<1>6. Replaces(h, c)
  BY <1>4, <1>5 DEF Replaces
<1>7. slot' = [slot EXCEPT ![h] = "live"] /\ "live" \in Slot
  BY <1>1, <1>2 DEF TypeOK, Slot
<1>8. /\ conn' \in [Host -> Connection] /\ slot' \in [Host -> Slot] /\ ConnInv' /\ NoShrink
  BY <1>2, <1>6, <1>7, ReplaceOK
<1>9. wrote' \in [Host -> Nat]
  BY <1>1, <1>2, <1>4 DEF TypeOK
<1> QED BY <1>1, <1>2, <1>8, <1>9 DEF IInv, TypeOK

\* read
LEMMA TcpReadOK ==
    ASSUME IInv, NEW h \in Host, NEW n \in Nat, TcpRead(h, n)
    PROVE  IInv' /\ NoShrink
<1> DEFINE c == Read(conn[h], n)
           p == SubSeq(conn[h].rx, 1, n)
<1>1. TypeOK /\ ConnInv /\ ConnOK(conn[h]) /\ slot[h] \in Slot
  BY DEF IInv, ConnInv, TypeOK
<1>2. /\ conn' = [conn EXCEPT ![h] = c] /\ got' = [got EXCEPT ![h] = @ \o p]
      /\ slot[h] \in {"live", "reaped"} /\ n <= Len(conn[h].rx)
      /\ UNCHANGED <<slot, txq, wire, wrote, faults, lastFired>>
  BY DEF TcpRead
<1>3. ConnOK(c) /\ Edge(c) >= Edge(conn[h]) /\ p \in Seq(Byte)
  BY <1>1, <1>2, ReadOK
<1> HIDE DEF c, p
<1>4. Replaces(h, c)
  BY <1>3 DEF Replaces
<1> DEFINE t == slot[h]
<1>5. slot' = [slot EXCEPT ![h] = t] /\ t \in Slot /\ t # "free"
  BY <1>1, <1>2 DEF TypeOK
<1> HIDE DEF t
<1>6. /\ conn' \in [Host -> Connection] /\ slot' \in [Host -> Slot] /\ ConnInv' /\ NoShrink
  BY <1>2, <1>4, <1>5, ReplaceOK
<1>7. got' \in [Host -> Seq(Byte)]
  <2>1. got \in [Host -> Seq(Byte)] /\ got[h] \in Seq(Byte)
    BY <1>1 DEF TypeOK
  <2>2. got[h] \o p \in Seq(Byte)
    BY <1>3, <2>1, ConcatProperties
  <2> QED BY <1>2, <2>1, <2>2
<1> QED BY <1>1, <1>2, <1>6, <1>7 DEF IInv, TypeOK

\* close
LEMMA TcpCloseOK ==
    ASSUME IInv, NEW h \in Host, TcpClose(h)
    PROVE  IInv' /\ NoShrink
<1> DEFINE r == InitiateClose(conn[h])
<1>1. TypeOK /\ ConnInv /\ ConnOK(conn[h])
  BY DEF IInv, ConnInv
<1>2. Keeps(conn[h], r)
  BY <1>1, InitiateCloseOK
<1>3. /\ conn' = [conn EXCEPT ![h] = r.c] /\ txq' = [txq EXCEPT ![h] = @ \o r.out]
      /\ slot[h] = "live" /\ UNCHANGED <<slot, wire, wrote, got, faults, lastFired>>
  BY DEF TcpClose
<1> HIDE DEF r
<1>4. Replaces(h, r.c) /\ r.out \in Seq(Segment)
  BY <1>2, KeepsReplaces
<1>5. slot' = [slot EXCEPT ![h] = "live"] /\ "live" \in Slot
  BY <1>1, <1>3 DEF TypeOK, Slot
<1>6. /\ conn' \in [Host -> Connection] /\ slot' \in [Host -> Slot] /\ ConnInv' /\ NoShrink
  BY <1>3, <1>4, <1>5, ReplaceOK
<1>7. txq' \in [Host -> Seq(Segment)]
  <2>1. txq \in [Host -> Seq(Segment)] /\ txq[h] \in Seq(Segment)
    BY <1>1 DEF TypeOK
  <2>2. txq[h] \o r.out \in Seq(Segment)
    BY <1>4, <2>1, ConcatProperties
  <2> QED BY <1>3, <2>1, <2>2
<1> QED BY <1>1, <1>3, <1>6, <1>7 DEF IInv, TypeOK

\* tcp_abort
LEMMA TcpAbortOK ==
    ASSUME IInv, NEW h \in Host, TcpAbort(h)
    PROVE  IInv' /\ NoShrink
<1>1. TypeOK /\ ConnInv /\ ConnOK(conn[h])
  BY DEF IInv, ConnInv
<1>2. PICK due \in SUBSET ArmedAt(h) :
        LET r   == PollOutput(conn[h], due)
            rst == [AckSegment(r.c, r.c.snd_nxt) EXCEPT !.rst = TRUE, !.wnd = 0]
        IN  /\ h \in MayAbort /\ slot[h] = "live"
            /\ Elapse(h, due, 0)
            /\ conn' = [conn EXCEPT ![h] = r.c]
            /\ slot' = [slot EXCEPT ![h] = "released"]
            /\ txq' = [txq EXCEPT ![h] = @ \o r.out \o
                         (IF r.c.state = "Closed" THEN <<>> ELSE <<rst>>)]
            /\ UNCHANGED <<wire, wrote, got>>
  BY DEF TcpAbort
<1> DEFINE r == PollOutput(conn[h], due)
           a == AckSegment(r.c, r.c.snd_nxt)
           rst == [a EXCEPT !.rst = TRUE, !.wnd = 0]
           last == IF r.c.state = "Closed" THEN <<>> ELSE <<rst>>
<1>3. /\ Elapse(h, due, 0) /\ conn' = [conn EXCEPT ![h] = r.c]
      /\ slot' = [slot EXCEPT ![h] = "released"]
      /\ txq' = [txq EXCEPT ![h] = @ \o r.out \o last]
      /\ UNCHANGED <<wire, wrote, got>>
  BY <1>2
<1>4. Keeps(conn[h], r)
  BY <1>1, PollOutputOK DEF SendsOnly
<1> HIDE DEF r
<1>5. Replaces(h, r.c) /\ r.out \in Seq(Segment)
  BY <1>4, KeepsReplaces
<1>6. /\ conn' \in [Host -> Connection] /\ slot' \in [Host -> Slot] /\ ConnInv' /\ NoShrink
  <2>1. "released" \in Slot /\ "released" # "free"
    BY DEF Slot
  <2> QED BY <1>3, <1>5, <2>1, ReplaceOK
<1>7. last \in Seq(Segment)
  <2>1. r.c \in Connection /\ r.c.snd_nxt \in Nat
    BY <1>5 DEF Replaces, ConnOK, Connection
  <2>2. a \in Segment
    BY <2>1, AckSegmentOK
  <2> HIDE DEF a
  <2>3. rst \in Segment
    BY <2>2 DEF Segment
  <2> HIDE DEF rst
  <2>4. <<>> \in Seq(Segment) /\ <<rst>> \in Seq(Segment)
    BY <2>3
  <2> QED BY <2>4
<1> HIDE DEF last
<1>8. txq' \in [Host -> Seq(Segment)]
  <2>1. txq \in [Host -> Seq(Segment)] /\ txq[h] \in Seq(Segment)
    BY <1>1 DEF TypeOK
  <2>2. txq[h] \o r.out \in Seq(Segment)
    BY <1>5, <2>1, ConcatProperties
  <2>3. txq[h] \o r.out \o last \in Seq(Segment)
    BY <1>7, <2>2, ConcatProperties
  <2> QED BY <1>3, <2>1, <2>3
<1>9. faults' \in 0 .. MaxFaults /\ lastFired' \in Host \cup {"none"}
  BY <1>1, <1>3, ElapseOK
<1> QED BY <1>1, <1>3, <1>6, <1>8, <1>9 DEF IInv, TypeOK

\* tcp_release
LEMMA TcpReleaseOK ==
    ASSUME IInv, NEW h \in Host, TcpRelease(h)
    PROVE  IInv' /\ NoShrink
<1>1. TypeOK
  BY DEF IInv
<1>2. /\ slot' = [slot EXCEPT ![h] = "released"]
      /\ UNCHANGED <<conn, txq, wire, wrote, got, faults, lastFired>>
  BY DEF TcpRelease
<1>3. slot' \in [Host -> Slot] /\ \A g \in Host : slot'[g] = "free" => slot[g] = "free"
  BY <1>1, <1>2 DEF TypeOK, Slot
<1>4. conn' \in [Host -> Connection] /\ ConnInv' /\ NoShrink
  BY <1>2, <1>3, KeepOK
<1> QED BY <1>1, <1>2, <1>3, <1>4 DEF IInv, TypeOK

\* The cost of a delivery.
LEMMA OvertakesOK ==
    ASSUME NEW i
    PROVE  Overtakes(i) \in Nat
  BY DEF Overtakes

\* dispatch_tcp_segment to a connection: handle_segment, then poll_output.
LEMMA DispatchToConnectionOK ==
    ASSUME IInv, NEW h \in Host, NEW i \in DOMAIN wire[h], DispatchToConnection(h, i)
    PROVE  IInv' /\ NoShrink
<1> DEFINE a == HandleSegment(conn[h], wire[h][i])
<1>1. TypeOK /\ ConnInv /\ ConnOK(conn[h]) /\ wire[h][i] \in Segment
  BY ArrivingOK DEF IInv, ConnInv
<1>2. Keeps(conn[h], a)
  BY <1>1, HandleSegmentOK
<1>3. slot[h] = "live" /\ UNCHANGED <<slot, txq, wrote, got>>
  BY DEF DispatchToConnection
<1>4. PICK due \in SUBSET Armed(a.c, conn[h]) :
        LET r == PollOutput(a.c, due)
        IN  /\ Elapse(h, due, Overtakes(i))
            /\ conn' = [conn EXCEPT ![h] = r.c]
            /\ Exchange(h, i, a.out \o r.out)
  BY DEF DispatchToConnection
<1> DEFINE r == PollOutput(a.c, due)
<1>5. /\ Elapse(h, due, Overtakes(i)) /\ conn' = [conn EXCEPT ![h] = r.c]
      /\ Exchange(h, i, a.out \o r.out)
  BY <1>4
<1> HIDE DEF a
<1>6. ConnOK(a.c) /\ a.out \in Seq(Segment)
  BY <1>2 DEF Keeps
<1>7. Keeps(a.c, r) /\ SameReceive(a.c, r.c)
  BY <1>6, PollOutputOK DEF SendsOnly
<1> HIDE DEF r
<1>8. Edge(r.c) = Edge(a.c) /\ ConnOK(r.c) /\ r.out \in Seq(Segment)
  BY <1>7 DEF Keeps, SameReceive, Edge, CurrentRcvWnd
<1>9. Replaces(h, r.c)
  BY <1>2, <1>8 DEF Replaces, Keeps
<1>10. slot' = [slot EXCEPT ![h] = "live"] /\ "live" \in Slot
  BY <1>1, <1>3 DEF TypeOK, Slot
<1>11. /\ conn' \in [Host -> Connection] /\ slot' \in [Host -> Slot] /\ ConnInv' /\ NoShrink
  BY <1>5, <1>9, <1>10, ReplaceOK
<1>12. a.out \o r.out \in Seq(Segment)
  BY <1>6, <1>8, ConcatProperties
<1>13. wire' \in [Host -> Seq(Segment)]
  BY <1>1, <1>5, <1>12, ExchangeOK
<1>14. faults' \in 0 .. MaxFaults /\ lastFired' \in Host \cup {"none"}
  BY <1>1, <1>5, OvertakesOK, ElapseOK
<1> QED BY <1>1, <1>3, <1>11, <1>13, <1>14 DEF IInv, TypeOK

\* dispatch_tcp_segment to a listener.
LEMMA DispatchToListenerOK ==
    ASSUME IInv, NEW h \in Host, NEW i \in DOMAIN wire[h], DispatchToListener(h, i)
    PROVE  IInv' /\ NoShrink
<1> DEFINE r == HandleSegment(conn[h], wire[h][i])
<1>1. TypeOK /\ ConnInv /\ ConnOK(conn[h]) /\ wire[h][i] \in Segment
  BY ArrivingOK DEF IInv, ConnInv
<1>2. Keeps(conn[h], r)
  BY <1>1, HandleSegmentOK
<1>3. /\ Elapse(h, {}, Overtakes(i)) /\ conn' = [conn EXCEPT ![h] = r.c]
      /\ slot' = [slot EXCEPT ![h] = "live"] /\ Exchange(h, i, r.out)
      /\ UNCHANGED <<txq, wrote, got>>
  BY DEF DispatchToListener
<1> HIDE DEF r
<1>4. Replaces(h, r.c) /\ r.out \in Seq(Segment)
  BY <1>2, KeepsReplaces
<1>5. /\ conn' \in [Host -> Connection] /\ slot' \in [Host -> Slot] /\ ConnInv' /\ NoShrink
  <2>1. "live" \in Slot /\ "live" # "free"
    BY DEF Slot
  <2> QED BY <1>3, <1>4, <2>1, ReplaceOK
<1>6. wire' \in [Host -> Seq(Segment)]
  BY <1>1, <1>3, <1>4, ExchangeOK
<1>7. faults' \in 0 .. MaxFaults /\ lastFired' \in Host \cup {"none"}
  BY <1>1, <1>3, OvertakesOK, ElapseOK
<1> QED BY <1>1, <1>3, <1>5, <1>6, <1>7 DEF IInv, TypeOK

\* dispatch_tcp_segment to nobody.
LEMMA DispatchToNobodyOK ==
    ASSUME IInv, NEW h \in Host, NEW i \in DOMAIN wire[h], DispatchToNobody(h, i)
    PROVE  IInv' /\ NoShrink
<1>1. TypeOK /\ wire[h][i] \in Segment
  BY ArrivingOK DEF IInv
<1>2. /\ Elapse(h, {}, Overtakes(i)) /\ Exchange(h, i, BuildReset(wire[h][i]))
      /\ UNCHANGED <<conn, slot, txq, wrote, got>>
  BY DEF DispatchToNobody
<1>3. wire' \in [Host -> Seq(Segment)]
  BY <1>1, <1>2, BuildResetOK, ExchangeOK
<1>4. faults' \in 0 .. MaxFaults /\ lastFired' \in Host \cup {"none"}
  BY <1>1, <1>2, OvertakesOK, ElapseOK
<1>5. conn' \in [Host -> Connection] /\ ConnInv' /\ NoShrink
  <2>1. slot' \in [Host -> Slot] /\ \A g \in Host : slot'[g] = "free" => slot[g] = "free"
    BY <1>1, <1>2 DEF TypeOK
  <2> QED BY <1>2, <2>1, KeepOK
<1> QED BY <1>1, <1>2, <1>3, <1>4, <1>5 DEF IInv, TypeOK

\* step_timers
LEMMA StepTimersOK ==
    ASSUME IInv, NEW h \in Host, StepTimers(h)
    PROVE  IInv' /\ NoShrink
<1>1. TypeOK /\ ConnInv /\ ConnOK(conn[h]) /\ slot[h] \in Slot
  BY DEF IInv, ConnInv, TypeOK
<1>2. PICK due \in SUBSET ArmedAt(h) :
        LET r == IF slot[h] = "live" THEN PollOutput(conn[h], due) ELSE Quietly(conn[h])
        IN  /\ Elapse(h, due, 0)
            /\ conn' = [conn EXCEPT ![h] = r.c]
            /\ slot' = [slot EXCEPT ![h] = IF @ = "live" /\ Reapable(r.c) THEN "reaped" ELSE @]
            /\ txq' = [txq EXCEPT ![h] = <<>>]
            /\ wire' = [wire EXCEPT ![Other(h)] = @ \o txq[h] \o r.out]
            /\ UNCHANGED <<wrote, got>>
  BY DEF StepTimers
<1> DEFINE p == PollOutput(conn[h], due)
           r == IF slot[h] = "live" THEN p ELSE Quietly(conn[h])
           t == IF slot[h] = "live" /\ Reapable(r.c) THEN "reaped" ELSE slot[h]
<1>3. /\ Elapse(h, due, 0) /\ conn' = [conn EXCEPT ![h] = r.c]
      /\ slot' = [slot EXCEPT ![h] = t] /\ txq' = [txq EXCEPT ![h] = <<>>]
      /\ wire' = [wire EXCEPT ![Other(h)] = @ \o txq[h] \o r.out]
      /\ UNCHANGED <<wrote, got>>
  BY <1>2
<1>4. Keeps(conn[h], p) /\ Keeps(conn[h], Quietly(conn[h]))
  BY <1>1, PollOutputOK, NothingOK DEF SendsOnly
<1>5. Quietly(conn[h]).c = conn[h]
  BY DEF Quietly, Result
<1> HIDE DEF p
<1>6. Keeps(conn[h], r)
  BY <1>4
<1>7. t \in Slot /\ (t = "free" => slot[h] = "free" /\ r.c = conn[h])
  BY <1>1, <1>5 DEF Slot
<1> HIDE DEF r, t
<1>8. Replaces(h, r.c) /\ r.out \in Seq(Segment)
  BY <1>6, KeepsReplaces
<1>9. /\ conn' \in [Host -> Connection] /\ slot' \in [Host -> Slot] /\ ConnInv' /\ NoShrink
  BY <1>3, <1>7, <1>8, ReplaceOK
<1>10. /\ txq' \in [Host -> Seq(Segment)] /\ txq[h] \in Seq(Segment)
  <2>1. <<>> \in Seq(Segment)
    BY EmptySeq
  <2> QED BY <1>1, <1>3, <2>1 DEF TypeOK
<1>11. wire' \in [Host -> Seq(Segment)]
  <2>1. wire \in [Host -> Seq(Segment)]
    BY <1>1 DEF TypeOK
  <2>2. \A g \in Host : wire[g] \o txq[h] \o r.out \in Seq(Segment)
    <3> SUFFICES ASSUME NEW g \in Host PROVE wire[g] \o txq[h] \o r.out \in Seq(Segment)
      OBVIOUS
    <3>1. wire[g] \o txq[h] \in Seq(Segment)
      BY <1>10, <2>1, ConcatProperties
    <3> QED BY <1>8, <3>1, ConcatProperties
  <2> QED BY <1>3, <2>1, <2>2
<1>12. faults' \in 0 .. MaxFaults /\ lastFired' \in Host \cup {"none"}
  BY <1>1, <1>3, ElapseOK
<1> QED BY <1>1, <1>3, <1>9, <1>10, <1>11, <1>12 DEF IInv, TypeOK

\* The network drops a segment.
LEMMA LoseOK ==
    ASSUME IInv, NEW h \in Host, NEW i \in DOMAIN wire[h], Lose(h, i)
    PROVE  IInv' /\ NoShrink
<1>1. TypeOK
  BY DEF IInv
<1>2. /\ Elapse(h, {}, 1) /\ wire' = [wire EXCEPT ![h] = Without(@, i)]
      /\ UNCHANGED <<conn, slot, txq, wrote, got>>
  BY DEF Lose
<1>3. wire' \in [Host -> Seq(Segment)]
  <2>1. wire \in [Host -> Seq(Segment)] /\ wire[h] \in Seq(Segment)
    BY <1>1 DEF TypeOK
  <2>2. Without(wire[h], i) \in Seq(Segment)
    BY <2>1, WithoutOK
  <2> QED BY <1>2, <2>1, <2>2
<1>4. faults' \in 0 .. MaxFaults /\ lastFired' \in Host \cup {"none"}
  BY <1>1, <1>2, ElapseOK
<1>5. conn' \in [Host -> Connection] /\ ConnInv' /\ NoShrink
  <2>1. slot' \in [Host -> Slot] /\ \A g \in Host : slot'[g] = "free" => slot[g] = "free"
    BY <1>1, <1>2 DEF TypeOK
  <2> QED BY <1>2, <2>1, KeepOK
<1> QED BY <1>1, <1>2, <1>3, <1>4, <1>5 DEF IInv, TypeOK

\* The network repeats a segment.
LEMMA DuplicateOK ==
    ASSUME IInv, NEW h \in Host, NEW i \in DOMAIN wire[h], Duplicate(h, i)
    PROVE  IInv' /\ NoShrink
<1>1. TypeOK /\ wire[h][i] \in Segment
  BY ArrivingOK DEF IInv
<1>2. /\ Elapse(h, {}, 1) /\ wire' = [wire EXCEPT ![h] = Append(@, @[i])]
      /\ UNCHANGED <<conn, slot, txq, wrote, got>>
  BY DEF Duplicate
<1>3. wire' \in [Host -> Seq(Segment)]
  <2>1. wire \in [Host -> Seq(Segment)] /\ wire[h] \in Seq(Segment)
    BY <1>1 DEF TypeOK
  <2>2. Append(wire[h], wire[h][i]) \in Seq(Segment)
    BY <1>1, <2>1, AppendProperties
  <2> QED BY <1>2, <2>1, <2>2
<1>4. faults' \in 0 .. MaxFaults /\ lastFired' \in Host \cup {"none"}
  BY <1>1, <1>2, ElapseOK
<1>5. conn' \in [Host -> Connection] /\ ConnInv' /\ NoShrink
  <2>1. slot' \in [Host -> Slot] /\ \A g \in Host : slot'[g] = "free" => slot[g] = "free"
    BY <1>1, <1>2 DEF TypeOK
  <2> QED BY <1>2, <2>1, KeepOK
<1> QED BY <1>1, <1>2, <1>3, <1>4, <1>5 DEF IInv, TypeOK

\* Every step.
LEMMA NextOK ==
    ASSUME IInv, [Next]_vars
    PROVE  IInv' /\ NoShrink
<1>1. CASE Next
  <2>1. PICK h \in Host :
          \/ TcpConnect(h)
          \/ \E n \in 1 .. Len(AppData[h]) : TcpWrite(h, n)
          \/ \E n \in 1 .. Len(conn[h].rx) : TcpRead(h, n)
          \/ TcpClose(h)
          \/ TcpAbort(h)
          \/ TcpRelease(h)
          \/ StepTimers(h)
          \/ \E i \in DOMAIN wire[h] : DispatchToConnection(h, i)
          \/ \E i \in DOMAIN wire[h] : DispatchToListener(h, i)
          \/ \E i \in DOMAIN wire[h] : DispatchToNobody(h, i)
          \/ \E i \in DOMAIN wire[h] : Lose(h, i)
          \/ \E i \in DOMAIN wire[h] : Duplicate(h, i)
    BY <1>1 DEF Next
  <2>2. /\ Len(AppData[h]) \in Nat /\ Len(conn[h].rx) \in Nat
    <3>1. AppData[h] \in Seq(Byte)
      BY PairAssumption
    <3>2. conn[h].rx \in Seq(Byte)
      BY DEF IInv, TypeOK, Connection
    <3> QED BY <3>1, <3>2, LenProperties
  <2>3. /\ \A n \in 1 .. Len(AppData[h]) : n \in Nat
        /\ \A n \in 1 .. Len(conn[h].rx) : n \in Nat
    BY <2>2
  <2>4. CASE \E n \in 1 .. Len(AppData[h]) : TcpWrite(h, n)
    BY <2>3, <2>4, TcpWriteOK
  <2>5. CASE \E n \in 1 .. Len(conn[h].rx) : TcpRead(h, n)
    BY <2>3, <2>5, TcpReadOK
  <2> QED BY <2>1, <2>4, <2>5, TcpConnectOK, TcpCloseOK, TcpAbortOK, TcpReleaseOK,
             StepTimersOK, DispatchToConnectionOK, DispatchToListenerOK,
             DispatchToNobodyOK, LoseOK, DuplicateOK
<1>2. CASE UNCHANGED vars
  <2>1. /\ conn' = conn /\ slot' = slot /\ txq' = txq /\ wire' = wire /\ wrote' = wrote
        /\ got' = got /\ faults' = faults /\ lastFired' = lastFired
    BY <1>2 DEF vars
  <2>2. TypeOK
    BY DEF IInv
  <2>3. conn' \in [Host -> Connection] /\ ConnInv' /\ NoShrink
    BY <2>1, <2>2, KeepOK DEF TypeOK
  <2> QED BY <2>1, <2>2, <2>3 DEF IInv, TypeOK
<1> QED BY <1>1, <1>2

-----------------------------------------------------------------------------
(* The theorems *)

\* IInv holds in every state either host can reach.
THEOREM Inductive == Spec => []IInv
<1>1. IInv /\ [Next]_vars => IInv'
  BY NextOK
<1> QED BY <1>1, InitOK, PTL DEF Spec

\* No handler of either host, whatever reaches it and in whatever order, leaves the
\* type of its state: no counter goes below zero and every segment sent is well formed.
THEOREM TypeCorrect == Spec => []TypeOK
<1>1. IInv => TypeOK
  BY DEF IInv
<1> QED BY <1>1, Inductive, PTL

\* accept_data and drain_ooo never overfill the receive buffer, and nothing parked
\* lies beyond the window offered, for any capacities.
THEOREM BufferNeverOverflows == Spec => []ReceiveBounded
<1>1. IInv => ReceiveBounded
  BY DEF IInv, ConnInv, ConnOK, ReceiveOK, ReceiveBounded, RightEdge, Edge
<1> QED BY <1>1, Inductive, PTL

\* bytes_in_flight equals snd_nxt - snd_una in every state in which it is used.
THEOREM FlightAlwaysExact == Spec => []InFlightExact
<1>1. IInv => InFlightExact
  BY DEF IInv, ConnInv, ConnOK, FlightOK, InFlightExact
<1> QED BY <1>1, Inductive, PTL

\* No step of either host takes back receive window already offered.
THEOREM WindowNeverWithdrawn == Spec => WindowNeverShrinks
<1> DEFINE A == \A h \in Host :
                  conn[h].state \notin {"Closed", "Listen", "SynSent"}
                    => RightEdge(h)' >= RightEdge(h)
<1>1. IInv /\ [Next]_vars => [A]_vars
  <2> SUFFICES ASSUME IInv, [Next]_vars PROVE A
    OBVIOUS
  <2>1. NoShrink
    BY NextOK
  <2> QED BY <2>1 DEF NoShrink, RightEdge, Edge
<1> QED BY <1>1, Inductive, PTL DEF Spec, WindowNeverShrinks

-----------------------------------------------------------------------------
(* What is in flight.                                                      *)

\* One of the hosts opens and the other listens.  A simultaneous open is left out:
\* its SYN-ACK is sent with a number that snd_nxt does not account for.
OneOpener == \A g, h \in Clients : g = h

Bit(b) == IF b THEN 1 ELSE 0

\* Where the data that c has sent so far ends.
DataEnd(c) == c.snd_nxt - Bit(c.fin_sent)

\* data, starting at number seq, is a slice of h's stream that ends before end.
Carries(h, seq, data, end) ==
    \A i \in 1 .. Len(data) :
      /\ Isn[h] < seq + i - 1 /\ seq + i - 1 < end
      /\ data[i] = AppData[h][seq + i - 1 - Isn[h]]

\* The numbers and the payload of a segment, or of an entry of the retransmission
\* queue, are those of the stream that h sends on connection c.
Stamped(h, c, s) ==
    /\ Carries(h, s.seq, s.data, DataEnd(c))
    /\ s.syn => s.seq = Isn[h] /\ s.data = <<>> /\ ~s.fin /\ (s.isAck \/ h \in Clients)
    /\ s.fin => s.data = <<>> /\ c.fin_sent /\ s.seq = DataEnd(c)
    /\ FinSeq(s) + Bit(s.fin) <= c.snd_nxt

\* A segment that host h, whose connection is c, has sent at some time.
SegOK(h, c, m) ==
    m.rst \/ (Stamped(h, c, m) /\ (m.isAck => m.ack <= c.rcv_nxt))

\* The entries of the retransmission queue tile the unacknowledged numbers.
Tracks(c) ==
    /\ \A e \in c.rtq : e.seq < e.end /\ e.end <= c.snd_nxt
    /\ \A e, f \in c.rtq : e = f \/ e.end <= f.seq \/ f.end <= e.seq
    /\ c.state # "Closed" =>
         \A k \in c.snd_una .. (c.snd_nxt - 1) : \E e \in c.rtq : e.seq <= k /\ k < e.end

\* The send side of host h, whose application has written w bytes.
SendOK(h, w, c) ==
    /\ Tracks(c)
    /\ \A e \in c.rtq : Stamped(h, c, e)
    /\ Carries(h, c.snd_nxt, c.tx, c.snd_nxt + Len(c.tx))
    /\ DataEnd(c) + Len(c.tx) <= Isn[h] + 1 + w
    /\ c.state \notin {"Closed", "Listen"} \/ c.fin_sent
         => DataEnd(c) + Len(c.tx) = Isn[h] + 1 + w
    /\ c.fin_sent =>
         /\ c.tx = <<>> /\ c.close_requested
         /\ c.state \notin {"Listen", "SynSent", "SynReceived", "Established", "CloseWait"}
    /\ c.state \in {"Listen", "SynSent", "SynReceived"} => c.tx = <<>> /\ w = 0
    /\ c.state = "Listen" => c.snd_nxt = Isn[h]
    /\ c.state = "SynSent" => h \in Clients
    /\ Isn[h] <= c.snd_nxt /\ (c.state \notin {"Closed", "Listen"} => Isn[h] < c.snd_nxt)
    /\ w <= Len(AppData[h])

\* Nothing has been received yet.
Blank(r, c) ==
    /\ c.rcv_nxt = 0 /\ c.state \in {"Closed", "Listen", "SynSent"}
    /\ r = <<>> /\ c.ooo = {} /\ ~c.fin_received

\* r, of which nothing is missing and which the FIN may have ended, was received from
\* host o, whose connection is d.
Synced(o, r, d, c) ==
    /\ c.rcv_nxt = Isn[o] + 1 + Len(r) + Bit(c.fin_received)
    /\ c.state \notin {"Listen", "SynSent"}
    /\ Isn[o] < DataEnd(d)
    /\ Carries(o, Isn[o] + 1, r, DataEnd(d))
    /\ \A s \in c.ooo : Carries(o, s.seq, s.data, DataEnd(d))
    /\ c.fin_received =>
         /\ d.fin_sent /\ c.rcv_nxt = d.snd_nxt
         /\ c.state \notin {"SynReceived", "Established", "FinWait1", "FinWait2"}

\* The receive side of a host whose application has read g, against the connection d
\* of its peer o.
RecvOK(o, g, d, c) == Blank(g \o c.rx, c) \/ Synced(o, g \o c.rx, d, c)

\* What c takes for acknowledged, its peer has received.
Acked(h, d, c) == c.snd_una > Isn[h] => c.snd_una <= d.rcv_nxt

\* c may be the connection of host h.
Sound(h, c) ==
    /\ SendOK(h, wrote[h], c)
    /\ RecvOK(Other(h), got[h], conn[Other(h)], c)
    /\ Acked(h, conn[Other(h)], c)

\* Every segment from h that is under way or waits in tcp_tx.
Flight(h) ==
    /\ \A i \in DOMAIN wire[Other(h)] : SegOK(h, conn[h], wire[Other(h)][i])
    /\ \A i \in DOMAIN txq[h] : SegOK(h, conn[h], txq[h][i])

StreamInv ==
    \A h \in Host : /\ Sound(h, conn[h]) /\ Flight(h)
                    /\ slot[h] = "free" => wrote[h] = 0 /\ got[h] = <<>>

-----------------------------------------------------------------------------
(* Slices of the stream *)

\* The constants of a host.
LEMMA HostData ==
    ASSUME NEW h \in Host
    PROVE  Isn[h] \in Nat /\ AppData[h] \in Seq(Byte) /\ Len(AppData[h]) \in Nat
<1>1. AppData[h] \in Seq(Byte)
  BY PairAssumption
<1> QED BY <1>1, PairAssumption, LenProperties

\* A slice stays one when more of the stream has been sent.
LEMMA CarriesMore ==
    ASSUME NEW h \in Host, NEW seq \in Int, NEW data \in Seq(Byte), NEW a \in Int,
           NEW b \in Int, a <= b, Carries(h, seq, data, a)
    PROVE  Carries(h, seq, data, b)
<1>1. Isn[h] \in Nat /\ Len(data) \in Nat
  BY HostData, LenProperties
<1> SUFFICES ASSUME NEW i \in 1 .. Len(data)
             PROVE  /\ Isn[h] < seq + i - 1 /\ seq + i - 1 < b
                    /\ data[i] = AppData[h][seq + i - 1 - Isn[h]]
  BY DEF Carries
<1>2. /\ Isn[h] < seq + i - 1 /\ seq + i - 1 < a
      /\ data[i] = AppData[h][seq + i - 1 - Isn[h]]
  BY DEF Carries
<1>3. i \in Int
  OBVIOUS
<1> QED BY <1>1, <1>2, <1>3

\* No data is a slice of anything.
LEMMA CarriesNothing ==
    ASSUME NEW h, NEW seq, NEW end
    PROVE  Carries(h, seq, <<>>, end)
<1>1. Len(<<>>) = 0
  OBVIOUS
<1> QED BY <1>1 DEF Carries

\* A slice of a slice.
LEMMA CarriesPart ==
    ASSUME NEW h \in Host, NEW seq \in Int, NEW data \in Seq(Byte), NEW end \in Int,
           Carries(h, seq, data, end), NEW i \in Nat \ {0}, NEW j \in Int, j <= Len(data)
    PROVE  Carries(h, seq + i - 1, SubSeq(data, i, j), end)
<1> DEFINE p == SubSeq(data, i, j)
           n == Len(data)
<1>1. \A k \in i .. j : data[k] \in Byte
  <2> SUFFICES ASSUME NEW k \in i .. j PROVE data[k] \in Byte
    OBVIOUS
  <2>1. k \in 1 .. Len(data)
    <3>1. n \in Nat /\ j <= n
      BY LenProperties
    <3> HIDE DEF n
    <3>2. k \in 1 .. n
      BY <3>1
    <3> QED BY <3>2 DEF n
  <2> QED BY <2>1, ElementOfSeq
<1>2. i \in Int
  OBVIOUS
<1>3. /\ Len(p) = IF i <= j THEN j - i + 1 ELSE 0
      /\ \A k \in 1 .. j - i + 1 : p[k] = data[i + k - 1]
  BY <1>1, <1>2, SubSeqProperties
<1> SUFFICES ASSUME NEW k \in 1 .. Len(p)
             PROVE  /\ Isn[h] < seq + i - 1 + k - 1 /\ seq + i - 1 + k - 1 < end
                    /\ p[k] = AppData[h][seq + i - 1 + k - 1 - Isn[h]]
  BY DEF Carries
<1> HIDE DEF p
<1>4. k \in 1 .. j - i + 1 /\ k \in Int
  BY <1>3
<1> DEFINE l == i + k - 1
<1>5. l \in 1 .. Len(data) /\ l \in Int
  <2>1. n \in Nat /\ j <= n
    BY LenProperties
  <2> HIDE DEF n
  <2>2. l \in 1 .. n
    BY <1>4, <2>1
  <2> QED BY <2>2 DEF n
<1>6. seq + i - 1 + k - 1 = seq + l - 1
  BY <1>4
<1>7. p[k] = data[l]
  BY <1>3, <1>4
<1>8. /\ Isn[h] < seq + l - 1 /\ seq + l - 1 < end
      /\ data[l] = AppData[h][seq + l - 1 - Isn[h]]
  <2> HIDE DEF l
  <2> QED BY <1>5 DEF Carries
<1>9. /\ seq + l - 1 \in Int /\ seq + i - 1 + k - 1 \in Int
      /\ seq + i - 1 + k - 1 - Isn[h] = seq + l - 1 - Isn[h]
  BY <1>4, <1>5, <1>6, HostData
<1> HIDE DEF l
<1> QED BY <1>6, <1>7, <1>8, <1>9

\* Two adjacent slices.
LEMMA CarriesBoth ==
    ASSUME NEW h \in Host, NEW seq \in Int, NEW a \in Seq(Byte), NEW b \in Seq(Byte),
           NEW end \in Int, Carries(h, seq, a, end), Carries(h, seq + Len(a), b, end)
    PROVE  Carries(h, seq, a \o b, end)
<1> DEFINE n == Len(a)
           m == Len(b)
           p == a \o b
<1>1. n \in Nat /\ m \in Nat
  BY LenProperties
<1>2. Len(p) = n + m /\ \A i \in 1 .. n + m : p[i] = IF i <= n THEN a[i] ELSE b[i - n]
  BY ConcatProperties
<1> SUFFICES ASSUME NEW i \in 1 .. Len(p)
             PROVE  /\ Isn[h] < seq + i - 1 /\ seq + i - 1 < end
                    /\ p[i] = AppData[h][seq + i - 1 - Isn[h]]
  BY DEF Carries
<1>3. /\ \A k \in 1 .. n : /\ Isn[h] < seq + k - 1 /\ seq + k - 1 < end
                           /\ a[k] = AppData[h][seq + k - 1 - Isn[h]]
      /\ \A k \in 1 .. m : /\ Isn[h] < (seq + n) + k - 1 /\ (seq + n) + k - 1 < end
                           /\ b[k] = AppData[h][(seq + n) + k - 1 - Isn[h]]
  BY DEF Carries
<1> HIDE DEF n, m, p
<1> i \in 1 .. n + m
  BY <1>2
<1>4. CASE i <= n
  <2>1. i \in 1 .. n
    BY <1>1, <1>2, <1>4
  <2> QED BY <1>2, <1>3, <1>4, <2>1
<1>5. CASE i > n
  <2> DEFINE k == i - n
  <2>1. k \in 1 .. m /\ seq + n + k - 1 = seq + i - 1
    BY <1>1, <1>2, <1>5
  <2>2. p[i] = b[k]
    BY <1>1, <1>2, <1>5
  <2>3. (seq + n) + k - 1 - Isn[h] = seq + i - 1 - Isn[h]
    BY <1>1, <2>1, HostData
  <2> HIDE DEF k
  <2>4. /\ Isn[h] < (seq + n) + k - 1 /\ (seq + n) + k - 1 < end
        /\ b[k] = AppData[h][(seq + n) + k - 1 - Isn[h]]
    BY <1>3, <2>1
  <2> QED BY <2>1, <2>2, <2>3, <2>4
<1> QED BY <1>1, <1>2, <1>4, <1>5

-----------------------------------------------------------------------------
(* What the peer and the network rely on only advances *)

\* The fields of a connection that the argument is about, and their types.
LEMMA ConnTypes ==
    ASSUME NEW c \in Connection
    PROVE  /\ c.snd_una \in Nat /\ c.snd_nxt \in Nat /\ c.rcv_nxt \in Nat
           /\ c.tx \in Seq(Byte) /\ Len(c.tx) \in Nat /\ c.rx \in Seq(Byte) /\ Len(c.rx) \in Nat
           /\ c.ooo \in SUBSET OooSegment /\ c.rtq \in SUBSET RetransmitSegment
           /\ c.fin_sent \in BOOLEAN /\ c.fin_received \in BOOLEAN
           /\ c.close_requested \in BOOLEAN /\ c.state \in TcpState
           /\ DataEnd(c) \in Int /\ DataEnd(c) <= c.snd_nxt
           /\ Bit(c.fin_sent) \in {0, 1} /\ Bit(c.fin_received) \in {0, 1}
<1>1. /\ c.snd_una \in Nat /\ c.snd_nxt \in Nat /\ c.rcv_nxt \in Nat
      /\ c.tx \in Seq(Byte) /\ c.rx \in Seq(Byte)
      /\ c.ooo \in SUBSET OooSegment /\ c.rtq \in SUBSET RetransmitSegment
      /\ c.fin_sent \in BOOLEAN /\ c.fin_received \in BOOLEAN
      /\ c.close_requested \in BOOLEAN /\ c.state \in TcpState
  BY DEF Connection
<1>2. Bit(c.fin_sent) \in {0, 1} /\ Bit(c.fin_received) \in {0, 1}
  BY DEF Bit
<1>3. DataEnd(c) \in Int /\ DataEnd(c) <= c.snd_nxt
  BY <1>1, <1>2 DEF DataEnd
<1> QED BY <1>1, <1>2, <1>3, LenProperties

\* d comes after c in the life of one connection.
Advances(c, d) ==
    /\ c.snd_una <= d.snd_una /\ c.snd_nxt <= d.snd_nxt /\ c.rcv_nxt <= d.rcv_nxt
    /\ DataEnd(c) <= DataEnd(d)
    /\ c.fin_sent => d.fin_sent /\ d.snd_nxt = c.snd_nxt

\* A connection comes after itself.
LEMMA AdvancesSame ==
    ASSUME NEW c \in Connection
    PROVE  Advances(c, c)
  BY ConnTypes DEF Advances

\* What comes later still.
LEMMA AdvancesTwice ==
    ASSUME NEW c \in Connection, NEW d \in Connection, NEW e \in Connection,
           Advances(c, d), Advances(d, e)
    PROVE  Advances(c, e)
<1>1. /\ c.snd_una \in Nat /\ c.snd_nxt \in Nat /\ c.rcv_nxt \in Nat /\ DataEnd(c) \in Int
      /\ d.snd_una \in Nat /\ d.snd_nxt \in Nat /\ d.rcv_nxt \in Nat /\ DataEnd(d) \in Int
      /\ e.snd_una \in Nat /\ e.snd_nxt \in Nat /\ e.rcv_nxt \in Nat /\ DataEnd(e) \in Int
  BY ConnTypes
<1>2. /\ c.snd_una <= d.snd_una /\ c.snd_nxt <= d.snd_nxt /\ c.rcv_nxt <= d.rcv_nxt
      /\ DataEnd(c) <= DataEnd(d)
      /\ d.snd_una <= e.snd_una /\ d.snd_nxt <= e.snd_nxt /\ d.rcv_nxt <= e.rcv_nxt
      /\ DataEnd(d) <= DataEnd(e)
      /\ c.fin_sent => e.fin_sent /\ e.snd_nxt = c.snd_nxt
  BY DEF Advances
<1> QED BY <1>1, <1>2 DEF Advances

\* A number taken and data sent before stay as they were.
LEMMA StampedLater ==
    ASSUME NEW h \in Host, NEW c \in Connection, NEW d \in Connection, Advances(c, d),
           NEW s, s.seq \in Nat, s.data \in Seq(Byte), s.fin \in BOOLEAN, Stamped(h, c, s)
    PROVE  Stamped(h, d, s)
<1>1. /\ c.snd_nxt \in Nat /\ DataEnd(c) \in Int /\ d.snd_nxt \in Nat /\ DataEnd(d) \in Int
  BY ConnTypes
<1>2. /\ c.snd_nxt <= d.snd_nxt /\ DataEnd(c) <= DataEnd(d)
      /\ c.fin_sent => d.fin_sent /\ d.snd_nxt = c.snd_nxt
  BY DEF Advances
<1>3. c.fin_sent => DataEnd(d) = DataEnd(c)
  BY <1>2 DEF DataEnd
<1>4. Carries(h, s.seq, s.data, DataEnd(d))
  <2>1. Carries(h, s.seq, s.data, DataEnd(c)) /\ s.seq \in Int
    BY DEF Stamped
  <2> QED BY <1>1, <1>2, <2>1, CarriesMore
<1> DEFINE k == FinSeq(s) + Bit(s.fin)
<1>5. k \in Nat
  <2> DEFINE n == Len(s.data)
             a == IF s.syn THEN 1 ELSE 0
             b == Bit(s.fin)
  <2>1. n \in Nat /\ a \in Nat /\ b \in Nat /\ k = s.seq + a + n + b
    BY LenProperties DEF FinSeq, Bit
  <2> HIDE DEF n, a, b, k
  <2> QED BY <2>1
<1>6. k <= c.snd_nxt
  BY DEF Stamped
<1> HIDE DEF k
<1>7. k <= d.snd_nxt
  BY <1>1, <1>2, <1>5, <1>6
<1> QED BY <1>2, <1>3, <1>4, <1>7 DEF Stamped, k

\* A segment stays good while the network holds it.
LEMMA SegLater ==
    ASSUME NEW h \in Host, NEW c \in Connection, NEW d \in Connection, Advances(c, d),
           NEW m \in Segment, SegOK(h, c, m)
    PROVE  SegOK(h, d, m)
<1>1. /\ m.seq \in Nat /\ m.data \in Seq(Byte) /\ m.ack \in Nat /\ m.fin \in BOOLEAN
      /\ c.rcv_nxt \in Nat /\ d.rcv_nxt \in Nat /\ c.rcv_nxt <= d.rcv_nxt
  BY DEF Segment, Connection, Advances
<1>2. CASE m.rst
  BY <1>2 DEF SegOK
<1>3. CASE ~m.rst
  <2>1. Stamped(h, c, m) /\ (m.isAck => m.ack <= c.rcv_nxt)
    BY <1>3 DEF SegOK
  <2>2. Stamped(h, d, m)
    BY <1>1, <2>1, StampedLater
  <2>3. m.isAck => m.ack <= d.rcv_nxt
    BY <1>1, <2>1
  <2> QED BY <2>2, <2>3 DEF SegOK
<1> QED BY <1>2, <1>3

\* What the peer received stays received.
LEMMA RecvLater ==
    ASSUME NEW o \in Host, NEW g \in Seq(Byte), NEW c \in Connection, NEW d \in Connection,
           NEW e \in Connection, Advances(d, e), RecvOK(o, g, d, c)
    PROVE  RecvOK(o, g, e, c)
<1> DEFINE r == g \o c.rx
<1>1. /\ DataEnd(d) \in Int /\ DataEnd(e) \in Int /\ DataEnd(d) <= DataEnd(e)
      /\ Isn[o] \in Nat /\ r \in Seq(Byte) /\ c.ooo \in SUBSET OooSegment
      /\ d.fin_sent => e.fin_sent /\ e.snd_nxt = d.snd_nxt
  BY ConnTypes, HostData, ConcatProperties DEF Advances
<1>2. CASE Blank(r, c)
  BY <1>2 DEF RecvOK
<1>3. CASE Synced(o, r, d, c)
  <2> HIDE DEF r
  <2>1. Isn[o] < DataEnd(e)
    BY <1>1, <1>3 DEF Synced
  <2>2. Carries(o, Isn[o] + 1, r, DataEnd(e))
    <3>1. Carries(o, Isn[o] + 1, r, DataEnd(d)) /\ Isn[o] + 1 \in Int
      BY <1>1, <1>3 DEF Synced
    <3> QED BY <1>1, <3>1, CarriesMore
  <2>3. ASSUME NEW s \in c.ooo PROVE Carries(o, s.seq, s.data, DataEnd(e))
    <3>1. s.seq \in Int /\ s.data \in Seq(Byte) /\ Carries(o, s.seq, s.data, DataEnd(d))
      BY <1>1, <1>3 DEF OooSegment, Synced
    <3> QED BY <1>1, <3>1, CarriesMore
  <2>4. Synced(o, r, e, c)
    BY <1>1, <1>3, <2>1, <2>2, <2>3 DEF Synced
  <2> QED BY <2>4 DEF RecvOK, r
<1> QED BY <1>2, <1>3 DEF RecvOK

\* A host never receives more than its peer has sent.
LEMMA ReceivedWasSent ==
    ASSUME NEW o \in Host, NEW g \in Seq(Byte), NEW c \in Connection, NEW d \in Connection,
           RecvOK(o, g, d, c)
    PROVE  c.rcv_nxt <= d.snd_nxt
<1> DEFINE r == g \o c.rx
           n == Len(r)
<1>1. /\ DataEnd(d) \in Int /\ DataEnd(d) <= d.snd_nxt /\ d.snd_nxt \in Nat /\ Isn[o] \in Nat
      /\ r \in Seq(Byte) /\ n \in Nat /\ c.fin_received \in BOOLEAN
  BY ConnTypes, HostData, ConcatProperties, LenProperties
<1>2. CASE Blank(r, c)
  BY <1>1, <1>2 DEF Blank
<1>3. CASE Synced(o, r, d, c) /\ c.fin_received
  <2>1. c.rcv_nxt = d.snd_nxt
    BY <1>3 DEF Synced
  <2> QED BY <1>1, <2>1
<1>4. CASE Synced(o, r, d, c) /\ ~c.fin_received
  <2>1. c.rcv_nxt = Isn[o] + 1 + n + 0 /\ Isn[o] < DataEnd(d)
    BY <1>4 DEF Synced, Bit
  <2>2. n # 0 => Isn[o] + 1 + n - 1 < DataEnd(d)
    <3> SUFFICES ASSUME n # 0 PROVE Isn[o] + 1 + n - 1 < DataEnd(d)
      OBVIOUS
    <3>1. \A i \in 1 .. n : Isn[o] + 1 + i - 1 < DataEnd(d)
      BY <1>4 DEF Synced, Carries
    <3>2. n \in 1 .. n
      BY <1>1
    <3> HIDE DEF n
    <3> QED BY <3>1, <3>2
  <2> HIDE DEF n
  <2> QED BY <1>1, <2>1, <2>2
<1> QED BY <1>2, <1>3, <1>4, <1>1 DEF RecvOK

\* What was acknowledged stays received.
LEMMA AckedLater ==
    ASSUME NEW h \in Host, NEW c \in Connection, NEW d \in Connection, NEW e \in Connection,
           Advances(d, e), Acked(h, d, c)
    PROVE  Acked(h, e, c)
<1>1. c.snd_una \in Nat /\ d.rcv_nxt \in Nat /\ e.rcv_nxt \in Nat /\ d.rcv_nxt <= e.rcv_nxt
  BY DEF Connection, Advances
<1> QED BY <1>1 DEF Acked

-----------------------------------------------------------------------------
(* The receive side: accept_data *)

\* x has the send side of c, but for the state.
SameOut(c, x) ==
    /\ x.snd_una = c.snd_una /\ x.snd_nxt = c.snd_nxt /\ x.tx = c.tx /\ x.rtq = c.rtq
    /\ x.fin_sent = c.fin_sent /\ x.close_requested = c.close_requested

\* The receive side of x is that of c with bytes added at the end.
Extends(c, x) ==
    /\ c.rcv_nxt <= x.rcv_nxt
    /\ \E t \in Seq(Byte) : x.rx = c.rx \o t

\* Three sequences put together.
LEMMA Concat3 ==
    ASSUME NEW a \in Seq(Byte), NEW b \in Seq(Byte), NEW c \in Seq(Byte)
    PROVE  a \o (b \o c) = (a \o b) \o c /\ b \o c \in Seq(Byte) /\ a \o b \in Seq(Byte)
<1>1. (a \o b) \o c = a \o (b \o c)
  BY ConcatAssociative
<1> QED BY <1>1, ConcatProperties

\* Nothing added.
LEMMA ExtendsSame ==
    ASSUME NEW c \in Connection
    PROVE  Extends(c, c) /\ SameOut(c, c)
<1>1. c.rx \in Seq(Byte) /\ c.rcv_nxt \in Nat
  BY ConnTypes
<1>2. c.rx = c.rx \o <<>> /\ <<>> \in Seq(Byte) /\ c.rcv_nxt <= c.rcv_nxt
  BY <1>1, ConcatEmptySeq, EmptySeq
<1> DEFINE rx == c.rx
<1> HIDE DEF rx
<1>3. rx = rx \o <<>> /\ <<>> \in Seq(Byte)
  BY <1>2 DEF rx
<1>4. \E t \in Seq(Byte) : rx = rx \o t
  BY <1>3
<1> QED BY <1>2, <1>4 DEF Extends, SameOut, rx

\* Bytes added twice.
LEMMA ExtendsTwice ==
    ASSUME NEW c \in Connection, NEW x \in Connection, NEW y \in Connection,
           Extends(c, x), Extends(x, y)
    PROVE  Extends(c, y)
<1>1. PICK s \in Seq(Byte) : x.rx = c.rx \o s
  BY DEF Extends
<1>2. PICK t \in Seq(Byte) : y.rx = x.rx \o t
  BY DEF Extends
<1>3. c.rx \in Seq(Byte)
  BY ConnTypes
<1>4. y.rx = c.rx \o (s \o t) /\ s \o t \in Seq(Byte)
  <2>1. c.rx \o (s \o t) = (c.rx \o s) \o t /\ s \o t \in Seq(Byte)
    BY <1>3, Concat3
  <2> QED BY <1>1, <1>2, <2>1, Zenon
<1>5. c.rcv_nxt <= y.rcv_nxt
  <2>1. c.rcv_nxt \in Nat /\ x.rcv_nxt \in Nat /\ y.rcv_nxt \in Nat
    BY ConnTypes
  <2> QED BY <2>1 DEF Extends
<1> QED BY <1>4, <1>5 DEF Extends

\* A parked byte is one of the bytes of a segment that covers it.
LEMMA ParkedByteIs ==
    ASSUME NEW segs \in SUBSET OooSegment, NEW k \in Nat, \E s \in segs : Covers(s, k)
    PROVE  \E s \in segs : Covers(s, k) /\ ParkedByte(segs, k) = s.data[k - s.seq + 1]
<1> DEFINE T == {s.seq : s \in {s \in segs : Covers(s, k)}}
           P(s) == Covers(s, k) /\ \A t \in segs : Covers(t, k) => s.seq <= t.seq
<1>1. T \in SUBSET Nat /\ T # {}
  BY DEF OooSegment
<1>2. PICK x \in T : \A y \in T : x <= y
  BY <1>1, NatMinimum
<1>3. \E s \in segs : P(s)
  BY <1>2
<1>4. (CHOOSE s \in segs : P(s)) \in segs /\ P(CHOOSE s \in segs : P(s))
  BY <1>3
<1> QED BY <1>4 DEF ParkedByte

\* Parked data that has become contiguous continues the stream.
LEMMA DrainCarries ==
    ASSUME NEW o \in Host, NEW end \in Int, NEW segs \in SUBSET OooSegment,
           \A s \in segs : Carries(o, s.seq, s.data, end), NEW a \in Nat, NEW n \in Nat,
           \A k \in a .. (a + n - 1) : \E s \in segs : Covers(s, k)
    PROVE  LET f == [i \in 1 .. n |-> ParkedByte(segs, a + i - 1)]
           IN  f \in Seq(Byte) /\ Len(f) = n /\ Carries(o, a, f, end)
<1> DEFINE f == [i \in 1 .. n |-> ParkedByte(segs, a + i - 1)]
<1>1. ASSUME NEW i \in 1 .. n
      PROVE  a + i - 1 \in Nat /\ \E s \in segs : Covers(s, a + i - 1)
  <2>1. a + i - 1 \in Nat /\ a + i - 1 \in a .. (a + n - 1)
    OBVIOUS
  <2> QED BY <2>1
<1>2. f \in [1 .. n -> Byte]
  BY <1>1, ParkedByteOK
<1>3. f \in Seq(Byte) /\ Len(f) = n
  <2> HIDE DEF f
  <2> QED BY <1>2, FcnIsSeq
<1>4. ASSUME NEW i \in 1 .. n
      PROVE  /\ Isn[o] < a + i - 1 /\ a + i - 1 < end
             /\ f[i] = AppData[o][a + i - 1 - Isn[o]]
  <2> DEFINE k == a + i - 1
  <2>1. k \in Nat /\ \E s \in segs : Covers(s, k)
    BY <1>1
  <2> HIDE DEF k
  <2>2. PICK s \in segs : Covers(s, k) /\ ParkedByte(segs, k) = s.data[k - s.seq + 1]
    BY <2>1, ParkedByteIs
  <2>3. s.seq \in Nat /\ s.data \in Seq(Byte) /\ Len(s.data) \in Nat /\ Isn[o] \in Nat
    BY <2>2, LenProperties, HostData DEF OooSegment
  <2> DEFINE j == k - s.seq + 1
             l == Len(s.data)
  <2>4. j \in 1 .. l /\ s.seq + j - 1 = k
    <3>1. s.seq <= k /\ k < s.seq + l
      BY <2>2 DEF Covers, EndOf
    <3>2. l \in Nat
      BY <2>3
    <3> HIDE DEF l
    <3> QED BY <2>1, <2>3, <3>1, <3>2
  <2>5. /\ Isn[o] < s.seq + j - 1 /\ s.seq + j - 1 < end
        /\ s.data[j] = AppData[o][s.seq + j - 1 - Isn[o]]
    <3> HIDE DEF j
    <3> QED BY <2>2, <2>4 DEF Carries
  <2>6. f[i] = s.data[j]
    BY <2>2 DEF k
  <2> HIDE DEF j, l, f
  <2>7. /\ Isn[o] < k /\ k < end /\ f[i] = AppData[o][k - Isn[o]]
    BY <2>1, <2>3, <2>4, <2>5, <2>6
  <2>8. k = a + i - 1 /\ k - Isn[o] = a + i - 1 - Isn[o]
    BY <2>3 DEF k
  <2> QED BY <2>7, <2>8, Zenon
<1>5. Carries(o, a, f, end)
  <2> HIDE DEF f
  <2> QED BY <1>3, <1>4 DEF Carries
<1> QED BY <1>3, <1>5

\* The receive side after bytes that continue the stream were appended.
LEMMA AppendSynced ==
    ASSUME NEW o \in Host, NEW g \in Seq(Byte), NEW d \in Connection, NEW c \in Connection,
           Synced(o, g \o c.rx, d, c), ~c.fin_received,
           NEW f \in Seq(Byte), Carries(o, c.rcv_nxt, f, DataEnd(d)),
           NEW x \in Connection, x.rx = c.rx \o f, x.rcv_nxt = c.rcv_nxt + Len(f),
           x.ooo \subseteq c.ooo, x.state = c.state, x.fin_received = c.fin_received
    PROVE  Synced(o, g \o x.rx, d, x) /\ Extends(c, x)
<1> DEFINE r == g \o c.rx
           n == Len(r)
           l == Len(f)
           q == g \o x.rx
<1>1. /\ c.rx \in Seq(Byte) /\ r \in Seq(Byte) /\ n \in Nat /\ l \in Nat
      /\ c.rcv_nxt \in Nat /\ Isn[o] \in Nat /\ DataEnd(d) \in Int
  BY ConnTypes, HostData, ConcatProperties, LenProperties
<1>2. q = r \o f
  <2>1. g \o (c.rx \o f) = (g \o c.rx) \o f
    BY <1>1, Concat3
  <2> QED BY <2>1, Zenon
<1>3. Len(q) = n + l
  BY <1>1, <1>2, ConcatProperties
<1>4. c.rcv_nxt = Isn[o] + 1 + n
  <2>1. c.rcv_nxt = Isn[o] + 1 + n + 0
    BY DEF Synced, Bit
  <2> HIDE DEF n
  <2> QED BY <1>1, <2>1
<1>5. Carries(o, Isn[o] + 1, q, DataEnd(d))
  <2>1. Carries(o, Isn[o] + 1, r, DataEnd(d)) /\ Isn[o] + 1 \in Int
    BY <1>1 DEF Synced
  <2>2. Carries(o, (Isn[o] + 1) + Len(r), f, DataEnd(d))
    BY <1>4
  <2> HIDE DEF r, q
  <2> QED BY <1>1, <1>2, <2>1, <2>2, CarriesBoth
<1>6. x.rcv_nxt = Isn[o] + 1 + Len(q) + Bit(x.fin_received)
  <2>1. Bit(x.fin_received) = 0
    BY DEF Bit
  <2> HIDE DEF n, l, q
  <2>2. x.rcv_nxt = c.rcv_nxt + l
    BY DEF l
  <2> QED BY <1>1, <1>3, <1>4, <2>1, <2>2
<1>7. c.rcv_nxt <= x.rcv_nxt
  BY <1>1
<1> HIDE DEF q, r
<1>8. Synced(o, q, d, x)
  BY <1>5, <1>6 DEF Synced
<1> QED BY <1>7, <1>8 DEF Extends, q

\* drain_ooo
LEMMA DrainSynced ==
    ASSUME NEW o \in Host, NEW g \in Seq(Byte), NEW d \in Connection, NEW c \in Connection,
           ReceiveOK(c), Synced(o, g \o c.rx, d, c), ~c.fin_received
    PROVE  LET x == DrainOoo(c)
           IN  /\ Synced(o, g \o x.rx, d, x) /\ Extends(c, x) /\ SameOut(c, x)
               /\ x.state = c.state /\ x.fin_received = c.fin_received
<1> DEFINE M == {c.rcv_nxt} \cup {EndOf(s) : s \in c.ooo}
           m == CHOOSE m \in M : ContiguousTo(c, m)
           n == m - c.rcv_nxt
           f == [i \in 1 .. n |-> ParkedByte(c.ooo, c.rcv_nxt + i - 1)]
           O == {s \in c.ooo : EndOf(s) > m}
           rx == c.rx \o f
           x == [c EXCEPT !.rx = rx, !.rcv_nxt = m, !.ooo = O]
<1>1. m \in M /\ ContiguousTo(c, m)
  BY ContiguousExists
<1>2. DrainOoo(c) = x
  BY DEF DrainOoo
<1>3. c.rcv_nxt \in Nat /\ c.rx \in Seq(Byte) /\ c.ooo \in SUBSET OooSegment
      /\ DataEnd(d) \in Int
  BY ConnTypes
<1>4. \A s \in c.ooo : EndOf(s) \in Nat
  BY <1>3, LenProperties DEF OooSegment, EndOf
<1> HIDE DEF m
<1>5. m \in Nat /\ n \in Nat /\ m = c.rcv_nxt + n
  <2>1. c.rcv_nxt <= m BY <1>1 DEF ContiguousTo
  <2> QED BY <1>1, <1>3, <1>4, <2>1
<1>6. \A k \in c.rcv_nxt .. (c.rcv_nxt + n - 1) : \E s \in c.ooo : Covers(s, k)
  <2>1. c.rcv_nxt + n - 1 = m - 1
    BY <1>3, <1>5
  <2> QED BY <1>1, <2>1 DEF ContiguousTo
<1>7. f \in Seq(Byte) /\ Len(f) = n /\ Carries(o, c.rcv_nxt, f, DataEnd(d))
  <2>1. \A s \in c.ooo : Carries(o, s.seq, s.data, DataEnd(d))
    BY DEF Synced
  <2> HIDE DEF n
  <2> QED BY <1>3, <1>5, <1>6, <2>1, DrainCarries
<1>8. x \in Connection
  BY <1>2, DrainOooOK
<1>9. /\ x.rx = c.rx \o f /\ x.rcv_nxt = m /\ x.ooo \subseteq c.ooo /\ x.state = c.state
      /\ x.fin_received = c.fin_received /\ SameOut(c, x)
  <2> HIDE DEF f
  <2> QED BY DEF Connection, SameOut
<1> HIDE DEF f, x, n
<1>10. x.rcv_nxt = c.rcv_nxt + Len(f)
  BY <1>5, <1>7, <1>9
<1>11. Synced(o, g \o x.rx, d, x) /\ Extends(c, x)
  BY <1>7, <1>8, <1>9, <1>10, AppendSynced
<1> QED BY <1>2, <1>9, <1>11

\* buffer_ooo
LEMMA BufferSynced ==
    ASSUME NEW o \in Host, NEW g \in Seq(Byte), NEW d \in Connection, NEW c \in Connection,
           Synced(o, g \o c.rx, d, c), NEW seq \in Nat, NEW data \in Seq(Byte),
           Carries(o, seq, data, DataEnd(d))
    PROVE  LET x == BufferOoo(c, seq, data)
           IN  /\ Synced(o, g \o x.rx, d, x) /\ Extends(c, x) /\ SameOut(c, x)
               /\ x.state = c.state /\ x.fin_received = c.fin_received
<1> DEFINE new  == [seq |-> seq, data |-> data]
           kept == {s \in c.ooo : ~(seq <= s.seq /\ EndOf(s) <= EndOf(new))}
           y(O) == [c EXCEPT !.ooo = O]
           Good(x) == /\ Synced(o, g \o x.rx, d, x) /\ Extends(c, x) /\ SameOut(c, x)
                      /\ x.state = c.state /\ x.fin_received = c.fin_received
<1>1. Extends(c, c) /\ SameOut(c, c)
  BY ExtendsSame
<1>2. ASSUME NEW O \in SUBSET (c.ooo \cup {new}) PROVE Good(y(O))
  <2>1. /\ y(O).ooo = O /\ y(O).rx = c.rx /\ y(O).rcv_nxt = c.rcv_nxt /\ y(O).state = c.state
        /\ y(O).fin_received = c.fin_received /\ SameOut(c, y(O))
    BY DEF Connection, SameOut
  <2>2. \A s \in O : Carries(o, s.seq, s.data, DataEnd(d))
    <3>1. new.seq = seq /\ new.data = data
      OBVIOUS
    <3> HIDE DEF new
    <3> QED BY <1>2, <3>1 DEF Synced
  <2> HIDE DEF y
  <2>3. Synced(o, g \o y(O).rx, d, y(O))
    BY <2>1, <2>2 DEF Synced
  <2> QED BY <1>1, <2>1, <2>3 DEF Extends
<1>3. Good(c)
  BY <1>1
<1>4. \/ BufferOoo(c, seq, data) = c
      \/ BufferOoo(c, seq, data) = y(kept)
      \/ BufferOoo(c, seq, data) = y(kept \cup {new})
  <2> DEFINE P == \E s \in c.ooo : s.seq <= seq /\ EndOf(new) <= EndOf(s)
             Q == OooBytes(kept) + Len(data) > MaxOooBytes
  <2>1. BufferOoo(c, seq, data) = IF P THEN c ELSE IF Q THEN y(kept) ELSE y(kept \cup {new})
    BY DEF BufferOoo
  <2> HIDE DEF P, Q, y, kept
  <2> QED BY <2>1
<1>5. kept \in SUBSET (c.ooo \cup {new}) /\ (kept \cup {new}) \in SUBSET (c.ooo \cup {new})
  OBVIOUS
<1> HIDE DEF Good, y, kept, new
<1>6. Good(BufferOoo(c, seq, data))
  BY <1>2, <1>3, <1>4, <1>5
<1> QED BY <1>6 DEF Good

\* accept_data takes only bytes of the peer's stream, each at its place.
LEMMA AcceptSynced ==
    ASSUME NEW o \in Host, NEW g \in Seq(Byte), NEW d \in Connection, NEW c, ConnOK(c),
           Synced(o, g \o c.rx, d, c), ~c.fin_received,
           NEW seq \in Nat, NEW data \in Seq(Byte), Carries(o, seq, data, DataEnd(d))
    PROVE  LET x == AcceptData(c, seq, data)
           IN  /\ Synced(o, g \o x.rx, d, x) /\ Extends(c, x) /\ SameOut(c, x)
               /\ x.state = c.state /\ x.fin_received = c.fin_received
               /\ data = <<>> => x = c
<1> DEFINE n == Len(data)
           w == CurrentRcvWnd(c)
           lo == MaxOf(seq, c.rcv_nxt)
           hi == MinOf(seq + n, c.rcv_nxt + w)
           i == lo - seq + 1
           j == hi - seq
           fresh == SubSeq(data, i, j)
           rx == c.rx \o fresh
           y == [c EXCEPT !.rx = rx, !.rcv_nxt = hi]
           Good(x) == /\ Synced(o, g \o x.rx, d, x) /\ Extends(c, x) /\ SameOut(c, x)
                      /\ x.state = c.state /\ x.fin_received = c.fin_received
<1>1. c \in Connection /\ ReceiveOK(c) /\ DataEnd(d) \in Int
  BY ConnTypes DEF ConnOK
<1>2. c.rcv_nxt \in Nat /\ c.rx \in Seq(Byte) /\ n \in Nat /\ w \in Nat
  BY <1>1, WindowOK, LenProperties DEF Connection
<1>3. AcceptData(c, seq, data) =
        IF lo >= hi THEN c
        ELSE IF lo = c.rcv_nxt THEN DrainOoo(y) ELSE BufferOoo(c, lo, fresh)
  BY DEF AcceptData
<1>4. lo \in Nat /\ hi \in Nat /\ lo >= seq /\ lo >= c.rcv_nxt /\ hi <= seq + n
  <2> HIDE DEF n, w
  <2>1. seq + n \in Nat /\ c.rcv_nxt + w \in Nat BY <1>2
  <2> QED BY <1>2, <2>1, Saturating
<1>5. data = <<>> => lo >= hi
  <2>1. data = <<>> => n = 0
    OBVIOUS
  <2> HIDE DEF n, lo, hi
  <2> QED BY <1>4, <2>1
<1>6. Good(c)
  BY <1>1, ExtendsSame
<1> HIDE DEF lo, hi
<1>7. ASSUME lo < hi
      PROVE  fresh \in Seq(Byte) /\ Len(fresh) = hi - lo /\ Carries(o, lo, fresh, DataEnd(d))
  <2>1. i \in Nat \ {0} /\ j \in Int /\ j <= n /\ i <= j /\ j - i + 1 = hi - lo
        /\ seq + i - 1 = lo
    <3> HIDE DEF n
    <3> QED BY <1>2, <1>4, <1>7
  <2>2. j <= Len(data) BY <2>1
  <2> HIDE DEF i, j
  <2>3. /\ SubSeq(data, i, j) \in Seq(Byte)
        /\ Len(SubSeq(data, i, j)) = IF i <= j THEN j - i + 1 ELSE 0
    BY <2>1, <2>2, Slice
  <2>4. Carries(o, seq + i - 1, SubSeq(data, i, j), DataEnd(d))
    <3>1. seq \in Int
      OBVIOUS
    <3> QED BY <1>1, <2>1, <2>2, <3>1, CarriesPart
  <2> QED BY <2>1, <2>3, <2>4
<1> HIDE DEF fresh
<1>8. CASE lo < hi /\ lo = c.rcv_nxt
  <2>1. ReceiveOK(y) /\ y \in Connection
    <3> DEFINE k == Len(fresh)
               a == Len(c.rx)
               r == c.rcv_nxt
    <3>1. /\ a \in Nat /\ Edge(c) = r + w /\ a + w = RcvCapacity /\ r \in Nat
      BY <1>1, <1>2, WindowOK DEF ReceiveOK, Edge
    <3>2. k \in Nat /\ hi = r + k /\ k <= w
      <4>1. k = hi - r
        BY <1>7, <1>8
      <4>2. hi <= r + w
        <5>1. seq + n \in Nat /\ r + w \in Nat
          BY <1>2
        <5> QED BY <5>1, Saturating DEF hi
      <4> HIDE DEF k, r
      <4>3. r \in Nat /\ r < hi
        BY <1>2, <1>8 DEF r
      <4> QED BY <1>2, <1>4, <4>1, <4>2, <4>3
    <3>3. rx \in Seq(Byte) /\ Len(rx) = a + k
      BY <1>2, <1>7, <1>8, ConcatProperties
    <3>4. y \in Connection
      <4> HIDE DEF rx
      <4> QED BY <1>1, <1>4, <3>3 DEF Connection
    <3>5. y.rx = rx /\ y.rcv_nxt = hi /\ y.ooo = c.ooo /\ y.state = c.state
      BY <1>1 DEF Connection
    <3> HIDE DEF y, rx, k, a, r, w
    <3>6. Len(y.rx) <= RcvCapacity
      <4>1. a + k <= a + w
        BY <1>2, <3>1, <3>2
      <4> QED BY <3>1, <3>3, <3>5, <4>1
    <3>7. Edge(y) = Edge(c)
      <4> DEFINE v == CurrentRcvWnd(y)
      <4>1. a + k + v = RcvCapacity /\ v \in Nat /\ Edge(y) = hi + v
        BY <3>3, <3>4, <3>5, <3>6, WindowOK DEF Edge
      <4> HIDE DEF v
      <4> QED BY <1>2, <3>1, <3>2, <4>1
    <3> QED BY <1>1, <3>4, <3>5, <3>6, <3>7 DEF ReceiveOK
  <2>2. /\ y.rx = c.rx \o fresh /\ y.rcv_nxt = hi /\ y.ooo = c.ooo /\ y.state = c.state
        /\ y.fin_received = c.fin_received /\ SameOut(c, y)
    BY <1>1 DEF Connection, SameOut
  <2>3. AcceptData(c, seq, data) = DrainOoo(y)
    BY <1>3, <1>4, <1>8
  <2> HIDE DEF y
  <2>4. y.rcv_nxt = c.rcv_nxt + Len(fresh)
    BY <1>2, <1>4, <1>7, <1>8, <2>2
  <2>5. Synced(o, g \o y.rx, d, y) /\ Extends(c, y)
    BY <1>1, <1>7, <1>8, <2>1, <2>2, <2>4, AppendSynced
  <2> DEFINE x == DrainOoo(y)
  <2>6. /\ Synced(o, g \o x.rx, d, x) /\ Extends(y, x) /\ SameOut(y, x)
        /\ x.state = y.state /\ x.fin_received = y.fin_received
    BY <2>1, <2>2, <2>5, DrainSynced
  <2>7. x \in Connection
    BY <2>1, DrainOooOK
  <2> HIDE DEF x
  <2>8. Extends(c, x)
    BY <1>1, <2>1, <2>5, <2>6, <2>7, ExtendsTwice
  <2>9. Good(x)
    BY <2>2, <2>6, <2>8 DEF SameOut
  <2> QED BY <1>4, <1>5, <1>8, <2>3, <2>9 DEF x
<1>9. CASE lo < hi /\ lo # c.rcv_nxt
  <2>1. AcceptData(c, seq, data) = BufferOoo(c, lo, fresh)
    BY <1>3, <1>4, <1>9
  <2>2. Good(BufferOoo(c, lo, fresh))
    BY <1>1, <1>4, <1>7, <1>9, BufferSynced
  <2> HIDE DEF Good
  <2>3. Good(AcceptData(c, seq, data))
    BY <2>1, <2>2
  <2> QED BY <1>4, <1>5, <1>9, <2>3 DEF Good
<1>10. CASE lo >= hi
  <2>1. AcceptData(c, seq, data) = c
    BY <1>3, <1>10
  <2> QED BY <1>6, <2>1
<1> QED BY <1>4, <1>8, <1>9, <1>10

-----------------------------------------------------------------------------
(* Handlers that leave the stream alone *)

\* The other host is one, it is another, and there is no third.
LEMMA TwoHosts ==
    ASSUME NEW h \in Host
    PROVE  /\ Other(h) \in Host /\ Other(h) # h /\ Other(Other(h)) = h
           /\ \A g \in Host : g = h \/ g = Other(h)
<1>1. IsFiniteSet(Host) /\ Cardinality(Host) = 2
  BY PairAssumption
<1> DEFINE S == Host \ {h}
<1>2. IsFiniteSet(S) /\ Cardinality(S) = 1
  BY <1>1, FS_RemoveElement
<1>3. PICK g \in S : TRUE
  BY <1>2, FS_EmptySet
<1>4. IsFiniteSet(S \ {g}) /\ Cardinality(S \ {g}) = 0
  BY <1>2, <1>3, FS_RemoveElement
<1>5. S \ {g} = {}
  BY <1>4, FS_EmptySet
<1>6. Host = {g, h} /\ g # h
  BY <1>3, <1>5
<1>7. Other(h) = g /\ Other(g) = h
  BY <1>6 DEF Other
<1> QED BY <1>6, <1>7

\* What the two hosts have between them, and its types.
LEMMA Context ==
    ASSUME TypeOK, NEW h \in Host
    PROVE  /\ wrote[h] \in Nat /\ got[h] \in Seq(Byte) /\ conn[h] \in Connection
           /\ wrote[Other(h)] \in Nat /\ got[Other(h)] \in Seq(Byte)
           /\ conn[Other(h)] \in Connection
  BY TwoHosts DEF TypeOK

\* x is c but for fields that say nothing of the stream, and for the state.
Kin(c, x) == SameOut(c, x) /\ SameReceive(c, x) /\ x.fin_received = c.fin_received

\* The states that c may pass into while its two streams stay as they are.
Passes(c, t) ==
    \/ t \in {c.state, "Closed"}
    \/ /\ c.state \notin {"Closed", "Listen", "SynSent"}
       /\ t \notin {"Listen", "SynSent", "SynReceived"}
       /\ c.fin_sent => t \notin {"Established", "CloseWait"}
       /\ c.fin_received => t \notin {"Established", "FinWait1", "FinWait2"}

\* Numbers and payloads are judged against the send side alone.
LEMMA StampedSame ==
    ASSUME NEW h, NEW c, NEW x, x.snd_nxt = c.snd_nxt, x.fin_sent = c.fin_sent, NEW s,
           Stamped(h, c, s)
    PROVE  Stamped(h, x, s)
<1>1. DataEnd(x) = DataEnd(c)
  BY DEF DataEnd
<1> QED BY <1>1 DEF Stamped

\* The send side when only the state changed.
LEMMA SendSame ==
    ASSUME NEW h, NEW w, NEW c, NEW x, SendOK(h, w, c), SameOut(c, x), Passes(c, x.state)
    PROVE  SendOK(h, w, x)
<1>1. /\ x.snd_una = c.snd_una /\ x.snd_nxt = c.snd_nxt /\ x.tx = c.tx /\ x.rtq = c.rtq
      /\ x.fin_sent = c.fin_sent /\ x.close_requested = c.close_requested
  BY DEF SameOut
<1>2. DataEnd(x) = DataEnd(c)
  BY <1>1 DEF DataEnd
<1>3. \A e \in x.rtq : Stamped(h, x, e)
  BY <1>1, StampedSame DEF SendOK
<1>4. Tracks(x)
  BY <1>1 DEF SendOK, Tracks, Passes
<1>5. x.state \notin {"Closed", "Listen"} => c.state \notin {"Closed", "Listen"}
  BY DEF Passes
<1>6. x.state \in {"Listen", "SynSent", "SynReceived"} => x.state = c.state
  BY DEF Passes
<1>7. c.fin_sent =>
        x.state \notin {"Listen", "SynSent", "SynReceived", "Established", "CloseWait"}
  BY DEF SendOK, Passes
<1> QED BY <1>1, <1>2, <1>3, <1>4, <1>5, <1>6, <1>7 DEF SendOK

\* The receive side when parked data was dropped and the state changed.
LEMMA RecvSame ==
    ASSUME NEW o, NEW g, NEW d, NEW c, NEW x, RecvOK(o, g, d, c), x.rx = c.rx,
           x.rcv_nxt = c.rcv_nxt, x.fin_received = c.fin_received, x.ooo \subseteq c.ooo,
           Passes(c, x.state)
    PROVE  RecvOK(o, g, d, x)
<1> DEFINE r == g \o c.rx
<1>1. g \o x.rx = r
  OBVIOUS
<1> HIDE DEF r
<1>2. CASE Blank(r, c)
  BY <1>1, <1>2 DEF RecvOK, Blank, Passes
<1>3. CASE Synced(o, r, d, c)
  <2>1. x.state \notin {"Listen", "SynSent"}
    BY <1>3 DEF Synced, Passes
  <2>2. c.fin_received => x.state \notin {"SynReceived", "Established", "FinWait1", "FinWait2"}
    BY <1>3 DEF Synced, Passes
  <2>3. Synced(o, r, d, x)
    BY <1>3, <2>1, <2>2 DEF Synced
  <2> QED BY <1>1, <2>3 DEF RecvOK
<1> QED BY <1>2, <1>3 DEF RecvOK, r

SameIn(c, x) == x.rx = c.rx /\ x.fin_received = c.fin_received

\* A connection that differs in other fields only is as sound as before.
LEMMA KinSound ==
    ASSUME NEW h, NEW c \in Connection, NEW x \in Connection, Sound(h, c), Kin(c, x),
           Passes(c, x.state)
    PROVE  Sound(h, x) /\ Advances(c, x) /\ x.close_requested = c.close_requested /\ SameIn(c, x)
<1>1. SameOut(c, x) /\ x.rx = c.rx /\ x.rcv_nxt = c.rcv_nxt /\ x.ooo = c.ooo
      /\ x.fin_received = c.fin_received /\ x.snd_una = c.snd_una
      /\ x.close_requested = c.close_requested
  BY DEF Kin, SameReceive, SameOut
<1>2. SendOK(h, wrote[h], x)
  BY <1>1, SendSame DEF Sound
<1>3. RecvOK(Other(h), got[h], conn[Other(h)], x)
  BY <1>1, RecvSame DEF Sound
<1>4. Acked(h, conn[Other(h)], x)
  BY <1>1 DEF Sound, Acked
<1>5. Advances(c, x)
  <2>1. /\ x.snd_nxt = c.snd_nxt /\ x.fin_sent = c.fin_sent
    BY <1>1 DEF SameOut
  <2>2. DataEnd(x) = DataEnd(c)
    BY <2>1 DEF DataEnd
  <2>3. c.snd_una \in Nat /\ c.snd_nxt \in Nat /\ c.rcv_nxt \in Nat /\ DataEnd(c) \in Int
    BY ConnTypes
  <2> QED BY <1>1, <2>1, <2>2, <2>3 DEF Advances
<1> QED BY <1>1, <1>2, <1>3, <1>4, <1>5 DEF Sound, SameIn

-----------------------------------------------------------------------------
(* What a handler does to the two streams *)

\* A handler that returned r on the sound connection c of host h.
Steps(h, c, r) ==
    /\ ConnOK(r.c) /\ r.out \in Seq(Segment)
    /\ Sound(h, r.c) /\ Advances(c, r.c) /\ r.c.close_requested = c.close_requested
    /\ \A i \in 1 .. Len(r.out) : SegOK(h, r.c, r.out[i])

\* A handler that takes nothing from the peer.
Sends(h, c, r) == Steps(h, c, r) /\ SameIn(c, r.c)

\* What x has received beyond c: bytes or the FIN, never both.
Took(c, x) ==
    /\ Extends(c, x)
    /\ c.fin_received => x.fin_received
    /\ x.fin_received => x.rx = c.rx

Moves(h, c, r) == Steps(h, c, r) /\ Took(c, r.c)

\* A handler that emits nothing.
LEMMA StepsQuietly ==
    ASSUME NEW h, NEW c, NEW x, ConnOK(x), Sound(h, x), Advances(c, x),
           x.close_requested = c.close_requested
    PROVE  Steps(h, c, Quietly(x)) /\ Quietly(x).c = x
<1>1. Quietly(x).c = x /\ Quietly(x).out = <<>>
  BY DEF Quietly, Result
<1>2. <<>> \in Seq(Segment) /\ Len(<<>>) = 0
  BY EmptySeq
<1>3. \A i \in 1 .. Len(<<>>) : SegOK(h, x, <<>>[i])
  BY <1>2
<1> QED BY <1>1, <1>2, <1>3 DEF Steps

\* The same, when only other fields changed.
LEMMA SendsQuietly ==
    ASSUME NEW h, NEW c \in Connection, NEW x, ConnOK(x), Sound(h, c), Kin(c, x),
           Passes(c, x.state)
    PROVE  Sends(h, c, Quietly(x))
<1>1. x \in Connection
  BY DEF ConnOK
<1>2. Sound(h, x) /\ Advances(c, x) /\ x.close_requested = c.close_requested /\ SameIn(c, x)
  BY <1>1, KinSound
<1> QED BY <1>2, StepsQuietly DEF Sends

\* An early return.
LEMMA SendsNothing ==
    ASSUME NEW h, NEW c, ConnOK(c), Sound(h, c)
    PROVE  Sends(h, c, Quietly(c))
<1>1. c \in Connection /\ Kin(c, c) /\ Passes(c, c.state)
  BY DEF ConnOK, Kin, SameOut, SameReceive, Passes
<1> QED BY <1>1, SendsQuietly

\* Taking nothing is a special case.
LEMMA SendsMoves ==
    ASSUME NEW h, NEW c \in Connection, NEW r, Sends(h, c, r)
    PROVE  Moves(h, c, r)
<1>1. r.c.rx = c.rx /\ r.c.fin_received = c.fin_received /\ c.rcv_nxt <= r.c.rcv_nxt
  BY DEF Sends, SameIn, Steps, Advances
<1>2. Extends(c, c)
  BY ExtendsSame
<1>3. Extends(c, r.c)
  BY <1>1, <1>2 DEF Extends
<1> QED BY <1>1, <1>3 DEF Sends, Moves, Took

\* The segments of two handlers, one after the other.
LEMMA StepsTwice ==
    ASSUME NEW h \in Host, NEW c \in Connection, NEW a, NEW r, Steps(h, c, a), Steps(h, a.c, r)
    PROVE  Steps(h, c, Result(r.c, a.out \o r.out))
<1> DEFINE p == a.out
           q == r.out
           n == Len(p)
           m == Len(q)
           z == p \o q
<1>1. /\ p \in Seq(Segment) /\ q \in Seq(Segment) /\ a.c \in Connection /\ r.c \in Connection
      /\ Advances(a.c, r.c) /\ Advances(c, a.c)
  BY DEF Steps, ConnOK
<1>2. /\ z \in Seq(Segment) /\ n \in Nat /\ m \in Nat /\ Len(z) = n + m
      /\ \A i \in 1 .. n + m : z[i] = IF i <= n THEN p[i] ELSE q[i - n]
  BY <1>1, ConcatProperties, LenProperties
<1>3. Advances(c, r.c)
  BY <1>1, AdvancesTwice
<1>4. \A i \in 1 .. n : SegOK(h, r.c, p[i])
  <2> SUFFICES ASSUME NEW i \in 1 .. n PROVE SegOK(h, r.c, p[i])
    OBVIOUS
  <2>1. SegOK(h, a.c, p[i]) /\ p[i] \in Segment
    BY <1>1, ElementOfSeq DEF Steps
  <2> QED BY <1>1, <2>1, SegLater
<1>5. \A i \in 1 .. m : SegOK(h, r.c, q[i])
  BY DEF Steps
<1>6. \A i \in 1 .. Len(z) : SegOK(h, r.c, z[i])
  <2> HIDE DEF n, m, z, p, q
  <2> SUFFICES ASSUME NEW i \in 1 .. n + m PROVE SegOK(h, r.c, z[i])
    BY <1>2
  <2>1. CASE i <= n
    <3>1. i \in 1 .. n /\ z[i] = p[i]
      BY <1>2, <2>1
    <3> QED BY <1>4, <3>1
  <2>2. CASE i > n
    <3>1. i - n \in 1 .. m /\ z[i] = q[i - n]
      BY <1>2, <2>2
    <3> QED BY <1>5, <3>1
  <2> QED BY <1>2, <2>1, <2>2
<1>7. Result(r.c, z).c = r.c /\ Result(r.c, z).out = z
  BY DEF Result
<1> HIDE DEF z
<1>8. r.c.close_requested = c.close_requested /\ ConnOK(r.c) /\ Sound(h, r.c)
  BY DEF Steps
<1>9. Steps(h, c, Result(r.c, z))
  BY <1>2, <1>3, <1>6, <1>7, <1>8 DEF Steps
<1> QED BY <1>9 DEF z

\* Two handlers that take nothing.
LEMMA SendsTwice ==
    ASSUME NEW h \in Host, NEW c \in Connection, NEW a, NEW r, Sends(h, c, a), Sends(h, a.c, r)
    PROVE  Sends(h, c, Result(r.c, a.out \o r.out))
<1>1. Steps(h, c, Result(r.c, a.out \o r.out))
  BY StepsTwice DEF Sends
<1>2. SameIn(c, r.c)
  BY DEF Sends, SameIn
<1>3. Result(r.c, a.out \o r.out).c = r.c
  BY DEF Result
<1> QED BY <1>1, <1>2, <1>3 DEF Sends

\* The same when the first emits nothing.
LEMMA SendsAfter ==
    ASSUME NEW h, NEW c \in Connection, NEW x \in Connection, NEW r,
           Advances(c, x), x.close_requested = c.close_requested, SameIn(c, x), Sends(h, x, r)
    PROVE  Sends(h, c, r)
<1>1. r.c \in Connection /\ Advances(x, r.c)
  BY DEF Sends, Steps, ConnOK
<1>2. Advances(c, r.c)
  BY <1>1, AdvancesTwice
<1> QED BY <1>2 DEF Sends, Steps, SameIn

\* A handler that takes nothing, after one that took something.
LEMMA MovesThenSends ==
    ASSUME NEW h \in Host, NEW c \in Connection, NEW a, NEW r, Moves(h, c, a), Sends(h, a.c, r)
    PROVE  Moves(h, c, Result(r.c, a.out \o r.out))
<1>1. Steps(h, c, Result(r.c, a.out \o r.out))
  BY StepsTwice DEF Sends, Moves
<1>2. r.c.rx = a.c.rx /\ r.c.fin_received = a.c.fin_received
  BY DEF Sends, SameIn
<1>3. c.rcv_nxt <= r.c.rcv_nxt
  <2>1. Result(r.c, a.out \o r.out).c = r.c
    BY DEF Result
  <2> QED BY <1>1, <2>1 DEF Steps, Advances
<1>4. Took(c, r.c)
  BY <1>2, <1>3 DEF Moves, Took, Extends
<1>5. Result(r.c, a.out \o r.out).c = r.c
  BY DEF Result
<1> QED BY <1>1, <1>4, <1>5 DEF Moves

-----------------------------------------------------------------------------
(* Acknowledgements and the retransmission queue *)

\* A segment without payload at the end of what was sent.
PlainAck(c, m) ==
    /\ m.seq = c.snd_nxt /\ m.ack = c.rcv_nxt /\ m.data = <<>>
    /\ ~m.syn /\ ~m.fin

\* Such a segment is good.
LEMMA PlainAckGood ==
    ASSUME NEW h, NEW c \in Connection, NEW m, PlainAck(c, m)
    PROVE  SegOK(h, c, m)
<1>1. /\ m.seq = c.snd_nxt /\ m.ack = c.rcv_nxt /\ m.data = <<>> /\ ~m.syn /\ ~m.fin
      /\ Len(<<>>) = 0 /\ c.snd_nxt \in Nat /\ c.rcv_nxt \in Nat
  BY ConnTypes DEF PlainAck
<1>2. FinSeq(m) + Bit(m.fin) = c.snd_nxt
  BY <1>1 DEF FinSeq, Bit
<1>3. Carries(h, m.seq, m.data, DataEnd(c))
  BY <1>1, CarriesNothing
<1>4. Stamped(h, c, m)
  BY <1>1, <1>2, <1>3 DEF Stamped
<1>5. m.ack <= c.rcv_nxt
  BY <1>1
<1> QED BY <1>4, <1>5 DEF SegOK

\* A handler that changes other fields and emits one good segment.
LEMMA SendsOne ==
    ASSUME NEW h, NEW c \in Connection, NEW x, ConnOK(x), Sound(h, x), Advances(c, x),
           x.close_requested = c.close_requested, SameIn(c, x),
           NEW m \in Segment, SegOK(h, x, m)
    PROVE  Sends(h, c, Result(x, <<m>>))
<1>1. Result(x, <<m>>).c = x /\ Result(x, <<m>>).out = <<m>>
  BY DEF Result
<1>2. Len(<<m>>) = 1 /\ <<m>>[1] = m /\ <<m>> \in Seq(Segment)
  OBVIOUS
<1>3. \A i \in 1 .. Len(<<m>>) : SegOK(h, x, <<m>>[i])
  <2> SUFFICES ASSUME NEW i \in 1 .. 1 PROVE SegOK(h, x, <<m>>[i])
    BY <1>2
  <2>1. i = 1
    OBVIOUS
  <2> QED BY <1>2, <2>1
<1> QED BY <1>1, <1>2, <1>3 DEF Sends, Steps

\* build_ack
LEMMA BuildAckSends ==
    ASSUME NEW h, NEW c, ConnOK(c), Sound(h, c)
    PROVE  Sends(h, c, BuildAck(c)) /\ BuildAck(c).c.state = c.state
<1> DEFINE w == CurrentRcvWnd(c)
           x == [c EXCEPT !.last_advertised_wnd = w]
           a == AckSegment(c, c.snd_nxt)
           s == SackOption(c)
           m == [a EXCEPT !.sack = s]
<1>1. BuildAck(c) = Result(x, <<m>>)
  BY DEF BuildAck
<1>2. c \in Connection /\ c.snd_nxt \in Nat
  BY DEF ConnOK, Connection
<1>3. a \in Segment /\ PlainAck(c, a)
  BY <1>2, AckSegmentOK DEF AckSegment, PlainAck
<1>4. s \in SUBSET (Nat \X Nat)
  BY <1>2, SackOptionOK
<1> HIDE DEF a, s, w
<1>5. m \in Segment /\ PlainAck(c, m)
  BY <1>3, <1>4 DEF Segment, PlainAck
<1>6. Kin(c, x) /\ x.state = c.state
  BY <1>2 DEF Connection, Kin, SameOut, SameReceive
<1>7. ConnOK(x)
  <2>1. BuildAck(c).c = x
    BY <1>1 DEF Result
  <2> QED BY <2>1, BuildAckOK DEF Keeps
<1> HIDE DEF m, x
<1>8. x \in Connection /\ Passes(c, x.state)
  BY <1>6, <1>7 DEF ConnOK, Passes
<1>9. Sound(h, x) /\ Advances(c, x) /\ x.close_requested = c.close_requested /\ SameIn(c, x)
  BY <1>2, <1>6, <1>8, KinSound
<1>10. SegOK(h, x, m)
  <2>1. PlainAck(x, m)
    BY <1>5, <1>6 DEF PlainAck, Kin, SameOut, SameReceive
  <2> QED BY <1>8, <2>1, PlainAckGood
<1>11. Sends(h, c, Result(x, <<m>>))
  BY <1>2, <1>5, <1>7, <1>9, <1>10, SendsOne
<1>12. Result(x, <<m>>).c.state = c.state
  BY <1>6 DEF Result
<1> QED BY <1>1, <1>11, <1>12

\* Two entries of the retransmission queue that differ in their bookkeeping only.
Alike(e, f) ==
    /\ f.seq = e.seq /\ f.end = e.end /\ f.syn = e.syn /\ f.isAck = e.isAck
    /\ f.fin = e.fin /\ f.data = e.data

\* Marking entries does not change what they track.
LEMMA RemarkSound ==
    ASSUME NEW h, NEW c \in Connection, NEW x \in Connection, Sound(h, c),
           NEW G, \A e \in c.rtq : Alike(e, G[e]), x.rtq = {G[e] : e \in c.rtq},
           SameReceive(c, x), x.state = c.state, x.snd_una = c.snd_una, x.snd_nxt = c.snd_nxt,
           x.tx = c.tx, x.fin_sent = c.fin_sent, x.close_requested = c.close_requested,
           x.fin_received = c.fin_received
    PROVE  Sound(h, x) /\ Advances(c, x) /\ SameIn(c, x)
<1>1. SendOK(h, wrote[h], c)
  BY DEF Sound
<1>2. Tracks(x)
  <2>1. Tracks(c)
    BY <1>1 DEF SendOK
  <2>2. \A f \in x.rtq : f.seq < f.end /\ f.end <= x.snd_nxt
    BY <2>1 DEF Tracks, Alike
  <2>3. ASSUME NEW e \in x.rtq, NEW f \in x.rtq
        PROVE  e = f \/ e.end <= f.seq \/ f.end <= e.seq
    <3>1. PICK a \in c.rtq : e = G[a]
      OBVIOUS
    <3>2. PICK b \in c.rtq : f = G[b]
      OBVIOUS
    <3>3. a = b \/ a.end <= b.seq \/ b.end <= a.seq
      BY <2>1 DEF Tracks
    <3> QED BY <3>1, <3>2, <3>3 DEF Alike
  <2>4. ASSUME x.state # "Closed", NEW k \in x.snd_una .. (x.snd_nxt - 1)
        PROVE  \E f \in x.rtq : f.seq <= k /\ k < f.end
    <3>1. PICK e \in c.rtq : e.seq <= k /\ k < e.end
      BY <2>1, <2>4 DEF Tracks
    <3>2. G[e] \in x.rtq /\ G[e].seq <= k /\ k < G[e].end
      BY <3>1 DEF Alike
    <3> QED BY <3>2
  <2> QED BY <2>2, <2>3, <2>4 DEF Tracks
<1>3. \A f \in x.rtq : Stamped(h, x, f)
  <2> SUFFICES ASSUME NEW f \in x.rtq PROVE Stamped(h, x, f)
    OBVIOUS
  <2>1. PICK e \in c.rtq : f = G[e]
    OBVIOUS
  <2>2. Stamped(h, c, e) /\ Alike(e, f)
    BY <1>1, <2>1 DEF SendOK
  <2>3. Stamped(h, c, f)
    BY <2>2 DEF Stamped, Alike, FinSeq
  <2> QED BY <2>3, StampedSame
<1>4. DataEnd(x) = DataEnd(c)
  BY DEF DataEnd
<1>5. SendOK(h, wrote[h], x)
  BY <1>1, <1>2, <1>3, <1>4 DEF SendOK
<1>6. x.rx = c.rx /\ x.rcv_nxt = c.rcv_nxt /\ x.ooo = c.ooo
  BY DEF SameReceive
<1>7. RecvOK(Other(h), got[h], conn[Other(h)], x)
  <2>1. Passes(c, x.state)
    BY DEF Passes
  <2> QED BY <1>6, <2>1, RecvSame DEF Sound
<1>8. Acked(h, conn[Other(h)], x)
  BY DEF Sound, Acked
<1>9. Advances(c, x)
  <2>1. c.snd_una \in Nat /\ c.snd_nxt \in Nat /\ c.rcv_nxt \in Nat /\ DataEnd(c) \in Int
    BY ConnTypes
  <2> QED BY <1>4, <1>6, <2>1 DEF Advances
<1> QED BY <1>5, <1>6, <1>7, <1>8, <1>9 DEF Sound, SameIn

\* The options of a segment
LEMMA ApplyOptionsSound ==
    ASSUME NEW h, NEW c, ConnOK(c), Sound(h, c), NEW m \in Segment
    PROVE  LET x == ApplyOptions(c, m)
           IN  /\ ConnOK(x) /\ Sound(h, x) /\ Advances(c, x) /\ SameIn(c, x)
               /\ x.close_requested = c.close_requested /\ x.state = c.state
<1> DEFINE p == IF m.mss # 0 THEN m.mss ELSE c.peer_mss
           cc == IF m.mss # 0 THEN [c.cc EXCEPT !.mss = m.mss] ELSE c.cc
           k == c.sack_permitted \/ m.sackOk
           S(e) == e.sacked \/ \E b \in m.sack : b[1] <= e.seq /\ e.end <= b[2]
           G == [e \in c.rtq |-> [e EXCEPT !.sacked = S(e)]]
           q == {G[e] : e \in c.rtq}
           x == [c EXCEPT !.peer_mss = p, !.cc = cc, !.sack_permitted = k, !.rtq = q]
<1>1. ApplyOptions(c, m) = x
  BY DEF ApplyOptions
<1>2. c \in Connection /\ c.rtq \in SUBSET RetransmitSegment
  BY DEF ConnOK, Connection
<1>3. \A e \in c.rtq : Alike(e, G[e])
  <2> HIDE DEF S
  <2> QED BY <1>2 DEF RetransmitSegment, Alike
<1>4. ConnOK(ApplyOptions(c, m)) /\ ApplyOptions(c, m).state = c.state
  BY ApplyOptionsOK
<1> HIDE DEF G, q, cc, p, k
<1>5. /\ x.rtq = q /\ SameReceive(c, x) /\ x.snd_una = c.snd_una
      /\ x.snd_nxt = c.snd_nxt /\ x.tx = c.tx /\ x.fin_sent = c.fin_sent
      /\ x.close_requested = c.close_requested /\ x.fin_received = c.fin_received
  BY <1>2 DEF Connection, SameReceive
<1> HIDE DEF x
<1>6. x \in Connection /\ x.state = c.state
  BY <1>1, <1>4 DEF ConnOK
<1>7. x.rtq = {G[e] : e \in c.rtq}
  BY <1>5 DEF q
<1>8. Sound(h, x) /\ Advances(c, x) /\ SameIn(c, x)
  BY <1>2, <1>3, <1>5, <1>6, <1>7, RemarkSound
<1> QED BY <1>1, <1>4, <1>5, <1>8

\* retransmit_oldest
LEMMA RetransmitOldestSends ==
    ASSUME NEW h \in Host, NEW c, ConnOK(c), Sound(h, c)
    PROVE  Sends(h, c, RetransmitOldest(c)) /\ RetransmitOldest(c).c.state = c.state
<1> DEFINE e == First(Unsacked(c))
           a == AckSegment(c, e.seq)
           m == [a EXCEPT
                   !.syn = e.syn, !.isAck = e.isAck, !.fin = e.fin, !.data = e.data,
                   !.mss = IF e.syn THEN c.local_mss ELSE 0,
                   !.sackOk = e.syn /\ c.sack_permitted,
                   !.sack = IF e.syn THEN {} ELSE SackOption(c)]
           e1 == [e EXCEPT !.retransmits = @ + 1]
           q == (c.rtq \ {e}) \cup {e1}
           x == [c EXCEPT !.rtq = q]
           G == [f \in c.rtq |-> IF f = e THEN e1 ELSE f]
<1>1. RetransmitOldest(c) =
        IF Unsacked(c) = {} \/ e.retransmits >= MaxRetransmits
        THEN Quietly(c) ELSE Result(x, <<m>>)
  BY DEF RetransmitOldest
<1>2. CASE Unsacked(c) = {} \/ e.retransmits >= MaxRetransmits
  <2>1. RetransmitOldest(c) = Quietly(c)
    BY <1>1, <1>2
  <2>2. Sends(h, c, Quietly(c)) /\ Quietly(c).c = c
    BY SendsNothing DEF Quietly, Result
  <2> QED BY <2>1, <2>2
<1>3. CASE ~(Unsacked(c) = {} \/ e.retransmits >= MaxRetransmits)
  <2>1. RetransmitOldest(c) = Result(x, <<m>>)
    BY <1>1, <1>3
  <2>2. RetransmitOldest(c).c = x /\ RetransmitOldest(c).out = <<m>>
    BY <2>1 DEF Result
  <2>3. ConnOK(x) /\ <<m>> \in Seq(Segment)
    BY <2>2, RetransmitOldestOK DEF Keeps
  <2>4. m \in Segment
    <3> HIDE DEF m
    <3>1. Len(<<m>>) = 1 /\ <<m>>[1] = m
      OBVIOUS
    <3>2. 1 \in 1 .. Len(<<m>>)
      BY <3>1
    <3>3. <<m>>[1] \in Segment
      BY <2>3, <3>2, ElementOfSeq
    <3> QED BY <3>1, <3>3
  <2>5. c \in Connection /\ c.rtq \in SUBSET RetransmitSegment /\ Unsacked(c) \subseteq c.rtq
    BY DEF ConnOK, Connection, Unsacked
  <2>6. e \in c.rtq
    <3>1. Unsacked(c) \in SUBSET RetransmitSegment /\ Unsacked(c) # {}
      BY <1>3, <2>5
    <3> QED BY <2>5, <3>1, FirstOK
  <2> HIDE DEF e
  <2>7. e \in RetransmitSegment
    BY <2>5, <2>6
  <2>8. Alike(e, e1)
    BY <2>7 DEF RetransmitSegment, Alike
  <2> HIDE DEF e1
  <2>9. \A f \in c.rtq : Alike(f, G[f])
    BY <2>8 DEF Alike
  <2>10. q = {G[f] : f \in c.rtq}
    BY <2>6
  <2>11. /\ m.seq = e.seq /\ m.ack = c.rcv_nxt /\ m.syn = e.syn /\ m.isAck = e.isAck
         /\ m.fin = e.fin /\ m.data = e.data
    BY DEF AckSegment
  <2> HIDE DEF m, q, G
  <2>12. /\ x.rtq = q /\ SameReceive(c, x) /\ x.snd_una = c.snd_una /\ x.state = c.state
         /\ x.snd_nxt = c.snd_nxt /\ x.tx = c.tx /\ x.fin_sent = c.fin_sent
         /\ x.close_requested = c.close_requested /\ x.fin_received = c.fin_received
    BY <2>5 DEF Connection, SameReceive
  <2> HIDE DEF x
  <2>13. x \in Connection
    BY <2>3 DEF ConnOK
  <2>14. Sound(h, x) /\ Advances(c, x) /\ SameIn(c, x)
    <3>1. x.rtq = {G[f] : f \in c.rtq}
      BY <2>10, <2>12
    <3> QED BY <2>5, <2>9, <2>12, <2>13, <3>1, RemarkSound
  <2>15. SegOK(h, x, m)
    <3>1. Stamped(h, c, e)
      BY <2>6 DEF Sound, SendOK
    <3>2. Stamped(h, c, m)
      BY <2>11, <3>1 DEF Stamped, FinSeq
    <3>3. Stamped(h, x, m)
      BY <2>12, <3>2, StampedSame
    <3>4. m.ack <= x.rcv_nxt
      <4>1. c.rcv_nxt \in Nat /\ x.rcv_nxt = c.rcv_nxt
        BY <2>5, <2>12, ConnTypes DEF SameReceive
      <4> QED BY <2>11, <4>1
    <3> QED BY <3>3, <3>4 DEF SegOK
  <2>16. Sends(h, c, Result(x, <<m>>))
    BY <2>3, <2>4, <2>5, <2>12, <2>14, <2>15, SendsOne
  <2> QED BY <2>1, <2>2, <2>12, <2>16
<1> QED BY <1>2, <1>3

\* slide_window: what is left of an advanced acknowledgement.
LEMMA SlideShape ==
    ASSUME NEW c \in Connection, NEW ack \in Nat
    PROVE  LET x == SlideTo(c, ack)
           IN  /\ x \in Connection /\ x.snd_una = ack /\ x.rtq = RetireAcked(c.rtq, ack)
               /\ x.snd_nxt = c.snd_nxt /\ x.tx = c.tx /\ x.fin_sent = c.fin_sent
               /\ x.close_requested = c.close_requested /\ x.fin_received = c.fin_received
               /\ SameReceive(c, x) /\ x.state = c.state
<1> DEFINE n == Monus(ack, c.snd_una)
           cc == OnAck(c.cc, n)
           q == RetireAcked(c.rtq, ack)
           x == [c EXCEPT !.snd_una = ack, !.cc = cc, !.rtq = q]
<1>1. SlideTo(c, ack) = x
  BY DEF SlideTo
<1>2. SlideTo(c, ack) \in Connection
  BY SlideToOK
<1> HIDE DEF cc, q
<1>3. /\ x.snd_una = ack /\ x.rtq = q
      /\ x.snd_nxt = c.snd_nxt /\ x.tx = c.tx /\ x.fin_sent = c.fin_sent
      /\ x.close_requested = c.close_requested /\ x.fin_received = c.fin_received
      /\ SameReceive(c, x) /\ x.state = c.state
  BY DEF Connection, SameReceive
<1> HIDE DEF x
<1> QED BY <1>1, <1>2, <1>3 DEF q

\* An acknowledgement of what the peer has received retires nothing else.
LEMMA SlideSound ==
    ASSUME NEW h \in Host, NEW c \in Connection, Sound(h, c), NEW ack \in Nat,
           conn[Other(h)] \in Connection, c.snd_una <= ack, ack <= conn[Other(h)].rcv_nxt
    PROVE  LET x == SlideTo(c, ack)
           IN  Sound(h, x) /\ Advances(c, x) /\ SameIn(c, x)
<1> DEFINE x == SlideTo(c, ack)
<1>1. /\ x \in Connection /\ x.snd_una = ack /\ x.rtq = RetireAcked(c.rtq, ack)
      /\ x.snd_nxt = c.snd_nxt /\ x.tx = c.tx /\ x.fin_sent = c.fin_sent
      /\ x.close_requested = c.close_requested /\ x.fin_received = c.fin_received
      /\ SameReceive(c, x) /\ x.state = c.state
  BY SlideShape
<1> HIDE DEF x
<1>2. SendOK(h, wrote[h], c)
  BY DEF Sound
<1>3. x.rtq = {e \in c.rtq : e.end > ack}
  BY <1>1 DEF RetireAcked
<1>4. Tracks(x)
  <2>1. Tracks(c)
    BY <1>2 DEF SendOK
  <2>2. ASSUME x.state # "Closed", NEW k \in x.snd_una .. (x.snd_nxt - 1)
        PROVE  \E e \in x.rtq : e.seq <= k /\ k < e.end
    <3>1. c.snd_una \in Nat /\ c.snd_nxt \in Nat /\ k \in Int /\ ack <= k
          /\ k \in c.snd_una .. (c.snd_nxt - 1)
      BY <1>1, ConnTypes
    <3>2. PICK e \in c.rtq : e.seq <= k /\ k < e.end
      BY <1>1, <2>1, <2>2, <3>1 DEF Tracks
    <3>3. e.end \in Nat
      BY <3>2, ConnTypes DEF RetransmitSegment
    <3>4. e.end > ack
      BY <3>1, <3>2, <3>3
    <3> QED BY <1>3, <3>2, <3>4
  <2> QED BY <1>1, <1>3, <2>1, <2>2 DEF Tracks
<1>5. \A e \in x.rtq : Stamped(h, x, e)
  BY <1>1, <1>2, <1>3, StampedSame DEF SendOK
<1>6. DataEnd(x) = DataEnd(c)
  BY <1>1 DEF DataEnd
<1>7. SendOK(h, wrote[h], x)
  BY <1>1, <1>2, <1>4, <1>5, <1>6 DEF SendOK
<1>8. x.rx = c.rx /\ x.rcv_nxt = c.rcv_nxt /\ x.ooo = c.ooo
  BY <1>1 DEF SameReceive
<1>9. RecvOK(Other(h), got[h], conn[Other(h)], x)
  <2>1. Passes(c, x.state)
    BY <1>1 DEF Passes
  <2> QED BY <1>1, <1>8, <2>1, RecvSame DEF Sound
<1>10. Acked(h, conn[Other(h)], x)
  BY <1>1 DEF Acked
<1>11. Advances(c, x)
  <2>1. c.snd_una \in Nat /\ c.snd_nxt \in Nat /\ c.rcv_nxt \in Nat /\ DataEnd(c) \in Int
    BY ConnTypes
  <2> QED BY <1>1, <1>6, <1>8, <2>1 DEF Advances
<1> QED BY <1>1, <1>7, <1>8, <1>9, <1>10, <1>11 DEF Sound, SameIn, x

\* What a connection that dies keeps is sound.
LEMMA FlushSound ==
    ASSUME NEW h \in Host, NEW c \in Connection, NEW x \in Connection, Sound(h, c),
           wrote[h] \in Nat, x.state = "Closed", x.rtq = {}, x.tx = <<>>, x.ooo \subseteq c.ooo,
           x.rx = c.rx, x.rcv_nxt = c.rcv_nxt, x.fin_received = c.fin_received,
           x.snd_una = c.snd_una, x.snd_nxt = c.snd_nxt, x.fin_sent = c.fin_sent,
           x.close_requested = c.close_requested
    PROVE  Sound(h, x) /\ Advances(c, x) /\ SameIn(c, x)
<1>1. SendOK(h, wrote[h], c)
  BY DEF Sound
<1>2. DataEnd(x) = DataEnd(c)
  BY DEF DataEnd
<1>3. /\ c.snd_una \in Nat /\ c.snd_nxt \in Nat /\ c.rcv_nxt \in Nat /\ DataEnd(c) \in Int
      /\ Len(c.tx) \in Nat /\ Isn[h] \in Nat
  BY ConnTypes, HostData
<1>4. SendOK(h, wrote[h], x)
  <2>1. Tracks(x)
    BY DEF Tracks
  <2>2. Carries(h, x.snd_nxt, x.tx, x.snd_nxt + Len(x.tx))
    BY CarriesNothing
  <2>3. Len(x.tx) = 0
    OBVIOUS
  <2>4. DataEnd(c) + Len(c.tx) <= Isn[h] + 1 + wrote[h]
    BY <1>1 DEF SendOK
  <2>5. DataEnd(x) + Len(x.tx) <= Isn[h] + 1 + wrote[h]
    <3> DEFINE n == Len(c.tx)
    <3>1. n \in Nat /\ DataEnd(c) + n <= Isn[h] + 1 + wrote[h]
      BY <1>3, <2>4
    <3> HIDE DEF n
    <3> QED BY <1>2, <1>3, <2>3, <3>1
  <2>6. c.fin_sent => c.tx = <<>> /\ DataEnd(c) + Len(c.tx) = Isn[h] + 1 + wrote[h]
    BY <1>1 DEF SendOK
  <2>7. x.fin_sent => DataEnd(x) + Len(x.tx) = Isn[h] + 1 + wrote[h]
    BY <1>2, <2>6
  <2>8. x.fin_sent => x.close_requested
    BY <1>1 DEF SendOK
  <2>9. Isn[h] <= x.snd_nxt /\ wrote[h] <= Len(AppData[h])
    BY <1>1 DEF SendOK
  <2> QED BY <2>1, <2>2, <2>5, <2>7, <2>8, <2>9 DEF SendOK
<1>5. RecvOK(Other(h), got[h], conn[Other(h)], x)
  <2>1. Passes(c, x.state)
    BY DEF Passes
  <2> QED BY <2>1, RecvSame DEF Sound
<1>6. Acked(h, conn[Other(h)], x)
  BY DEF Sound, Acked
<1>7. Advances(c, x)
  BY <1>2, <1>3 DEF Advances
<1> QED BY <1>4, <1>5, <1>6, <1>7 DEF Sound, SameIn

\* handle_rst
LEMMA OnRstSends ==
    ASSUME NEW h \in Host, NEW c, ConnOK(c), Sound(h, c), wrote[h] \in Nat, NEW m \in Segment
    PROVE  Sends(h, c, Quietly(OnRst(c, m)))
<1> DEFINE x == [c EXCEPT !.state = "Closed", !.rtq = {}, !.tx = <<>>, !.ooo = {}]
<1>1. c \in Connection
  BY DEF ConnOK
<1>2. OnRst(c, m) = x \/ OnRst(c, m) = c
  BY DEF OnRst
<1>3. CASE OnRst(c, m) = c
  BY <1>3, SendsNothing
<1>4. CASE OnRst(c, m) = x
  <2>1. ConnOK(x)
    BY <1>4, OnRstOK DEF Keeps, Quietly, Result
  <2>2. /\ x.state = "Closed" /\ x.rtq = {} /\ x.tx = <<>> /\ x.ooo = {}
        /\ x.rx = c.rx /\ x.rcv_nxt = c.rcv_nxt /\ x.fin_received = c.fin_received
        /\ x.snd_una = c.snd_una /\ x.snd_nxt = c.snd_nxt /\ x.fin_sent = c.fin_sent
        /\ x.close_requested = c.close_requested
    BY <1>1 DEF Connection
  <2> HIDE DEF x
  <2>3. x \in Connection /\ x.ooo \subseteq c.ooo
    BY <2>1, <2>2 DEF ConnOK
  <2>4. Sound(h, x) /\ Advances(c, x) /\ SameIn(c, x)
    BY <1>1, <2>2, <2>3, FlushSound
  <2>5. Sends(h, c, Quietly(x))
    BY <2>1, <2>2, <2>4, StepsQuietly DEF Sends
  <2> QED BY <1>4, <2>5
<1> QED BY <1>2, <1>3, <1>4

\* The abort of a connection whose peer does not answer.
LEMMA AbortSends ==
    ASSUME NEW h \in Host, NEW c, ConnOK(c), Sound(h, c), wrote[h] \in Nat
    PROVE  Sends(h, c, Quietly(Abort(c)))
<1> DEFINE x == [c EXCEPT !.aborted = TRUE, !.state = "Closed", !.rtq = {}, !.tx = <<>>]
<1>1. c \in Connection /\ Abort(c) = x
  BY DEF ConnOK, Abort
<1>2. ConnOK(x)
  BY <1>1, AbortOK
<1>3. /\ x.state = "Closed" /\ x.rtq = {} /\ x.tx = <<>> /\ x.ooo = c.ooo
      /\ x.rx = c.rx /\ x.rcv_nxt = c.rcv_nxt /\ x.fin_received = c.fin_received
      /\ x.snd_una = c.snd_una /\ x.snd_nxt = c.snd_nxt /\ x.fin_sent = c.fin_sent
      /\ x.close_requested = c.close_requested
  BY <1>1 DEF Connection
<1> HIDE DEF x
<1>4. x \in Connection /\ x.ooo \subseteq c.ooo
  BY <1>2, <1>3 DEF ConnOK
<1>5. Sound(h, x) /\ Advances(c, x) /\ SameIn(c, x)
  BY <1>1, <1>3, <1>4, FlushSound
<1>6. Sends(h, c, Quietly(x))
  BY <1>2, <1>3, <1>5, StepsQuietly DEF Sends
<1> QED BY <1>1, <1>6

-----------------------------------------------------------------------------
(* New numbers: SYN, FIN and data *)

\* New entries that tile the new numbers extend the tiling.
LEMMA TracksMore ==
    ASSUME NEW c \in Connection, NEW x \in Connection, Tracks(c),
           c.state # "Closed" \/ c.snd_una = c.snd_nxt,
           x.snd_una = c.snd_una, NEW n \in Nat, x.snd_nxt = c.snd_nxt + n,
           NEW E \in SUBSET RetransmitSegment, x.rtq = c.rtq \cup E,
           \A e \in E : c.snd_nxt <= e.seq /\ e.seq < e.end /\ e.end <= x.snd_nxt,
           \A e, f \in E : e = f \/ e.end <= f.seq \/ f.end <= e.seq,
           \A k \in c.snd_nxt .. (x.snd_nxt - 1) : \E e \in E : e.seq <= k /\ k < e.end
    PROVE  Tracks(x)
<1>1. /\ c.snd_una \in Nat /\ c.snd_nxt \in Nat /\ x.snd_nxt \in Nat
      /\ c.rtq \in SUBSET RetransmitSegment
  BY ConnTypes
<1>2. \A e \in c.rtq \cup E : e.seq \in Nat /\ e.end \in Nat
  BY <1>1 DEF RetransmitSegment
<1>3. /\ \A e \in c.rtq : e.seq < e.end /\ e.end <= c.snd_nxt
      /\ \A e, f \in c.rtq : e = f \/ e.end <= f.seq \/ f.end <= e.seq
      /\ c.state # "Closed" =>
           \A k \in c.snd_una .. (c.snd_nxt - 1) : \E e \in c.rtq : e.seq <= k /\ k < e.end
  BY DEF Tracks
<1>4. ASSUME NEW e \in x.rtq PROVE e.seq < e.end /\ e.end <= x.snd_nxt
  <2>1. CASE e \in E
    BY <2>1
  <2>2. CASE e \in c.rtq
    <3>1. e.seq < e.end /\ e.end <= c.snd_nxt /\ e.end \in Nat
      BY <1>2, <1>3, <2>2
    <3> QED BY <1>1, <3>1
  <2> QED BY <2>1, <2>2
<1>5. ASSUME NEW e \in x.rtq, NEW f \in x.rtq
      PROVE  e = f \/ e.end <= f.seq \/ f.end <= e.seq
  <2>1. e.seq \in Nat /\ e.end \in Nat /\ f.seq \in Nat /\ f.end \in Nat
    BY <1>2
  <2>2. CASE e \in E /\ f \in E
    BY <2>2
  <2>3. CASE e \in c.rtq /\ f \in c.rtq
    BY <1>3, <2>3
  <2>4. CASE e \in c.rtq /\ f \in E
    <3>1. e.end <= c.snd_nxt /\ c.snd_nxt <= f.seq
      BY <1>3, <2>4
    <3> QED BY <1>1, <2>1, <3>1
  <2>5. CASE e \in E /\ f \in c.rtq
    <3>1. f.end <= c.snd_nxt /\ c.snd_nxt <= e.seq
      BY <1>3, <2>5
    <3> QED BY <1>1, <2>1, <3>1
  <2> QED BY <2>2, <2>3, <2>4, <2>5
<1>6. ASSUME NEW k \in x.snd_una .. (x.snd_nxt - 1)
      PROVE  \E e \in x.rtq : e.seq <= k /\ k < e.end
  <2>1. k \in Int
    OBVIOUS
  <2>2. CASE k < c.snd_nxt
    <3>1. k \in c.snd_una .. (c.snd_nxt - 1)
      BY <1>1, <2>1, <2>2
    <3>2. c.state # "Closed"
      BY <1>1, <2>1, <2>2, <3>1
    <3> QED BY <1>3, <3>1, <3>2
  <2>3. CASE k >= c.snd_nxt
    <3>1. k \in c.snd_nxt .. (x.snd_nxt - 1)
      BY <1>1, <2>1, <2>3
    <3> QED BY <3>1
  <2> QED BY <1>1, <2>1, <2>2, <2>3
<1> QED BY <1>4, <1>5, <1>6 DEF Tracks

\* The entry of a SYN or a FIN, and the connection that tracks it.
LEMMA NumberedShape ==
    ASSUME NEW c \in Connection, NEW c1 \in Connection, c1.snd_una = c.snd_una,
           c1.snd_nxt = c.snd_nxt + 1, c1.rtq = c.rtq, Tracks(c),
           c.state # "Closed" \/ c.snd_una = c.snd_nxt,
           NEW syn \in BOOLEAN, NEW isAck \in BOOLEAN, NEW fin \in BOOLEAN
    PROVE  LET e == RtqEntry(c.snd_nxt, 1, syn, isAck, fin, <<>>)
               x == TrackForRetransmit(c1, e)
           IN  /\ x \in Connection /\ Tracks(x) /\ x.rtq = c.rtq \cup {e}
               /\ x.snd_una = c1.snd_una /\ x.snd_nxt = c1.snd_nxt /\ x.tx = c1.tx
               /\ x.fin_sent = c1.fin_sent /\ x.close_requested = c1.close_requested
               /\ x.fin_received = c1.fin_received /\ SameReceive(c1, x)
               /\ x.state = c1.state
               /\ e.seq = c.snd_nxt /\ e.syn = syn /\ e.isAck = isAck /\ e.fin = fin
               /\ e.data = <<>>
<1> DEFINE e == RtqEntry(c.snd_nxt, 1, syn, isAck, fin, <<>>)
           k == e.end - e.seq
           cc == RecordSent(c1.cc, k)
           q == c.rtq \cup {e}
           x == [c1 EXCEPT !.rtq = q, !.cc = cc]
<1>1. c.snd_nxt \in Nat /\ c1.cc \in CongestionControl /\ <<>> \in Seq(Byte)
      /\ c.rtq \in SUBSET RetransmitSegment
  BY EmptySeq DEF Connection
<1>2. /\ e.seq = c.snd_nxt /\ e.end = c.snd_nxt + 1 /\ e.syn = syn /\ e.isAck = isAck
      /\ e.fin = fin /\ e.data = <<>> /\ e \in RetransmitSegment
  BY <1>1 DEF RtqEntry, RetransmitSegment
<1>3. TrackForRetransmit(c1, e) = x
  BY DEF TrackForRetransmit
<1> HIDE DEF e
<1>4. k = 1
  BY <1>1, <1>2
<1>5. cc \in CongestionControl
  BY <1>1, <1>4, RecordSentOK
<1>6. q \in SUBSET RetransmitSegment
  BY <1>1, <1>2
<1> HIDE DEF cc, k, q
<1>7. /\ x \in Connection /\ x.rtq = q
      /\ x.snd_una = c1.snd_una /\ x.snd_nxt = c1.snd_nxt /\ x.tx = c1.tx
      /\ x.fin_sent = c1.fin_sent /\ x.close_requested = c1.close_requested
      /\ x.fin_received = c1.fin_received /\ SameReceive(c1, x)
      /\ x.state = c1.state
  BY <1>5, <1>6 DEF Connection, SameReceive
<1> HIDE DEF x
<1>8. Tracks(x)
  <2> DEFINE E == {e}
  <2>1. E \in SUBSET RetransmitSegment /\ x.rtq = c.rtq \cup E
    BY <1>2, <1>7 DEF q
  <2>2. x.snd_nxt = c.snd_nxt + 1 /\ 1 \in Nat /\ x.snd_una = c.snd_una
    BY <1>7
  <2>3. \A f \in E : c.snd_nxt <= f.seq /\ f.seq < f.end /\ f.end <= x.snd_nxt
    BY <1>1, <1>2, <2>2
  <2>4. \A f, g \in E : f = g \/ f.end <= g.seq \/ g.end <= f.seq
    OBVIOUS
  <2>5. ASSUME NEW j \in c.snd_nxt .. (x.snd_nxt - 1)
        PROVE  \E f \in E : f.seq <= j /\ j < f.end
    <3>1. j = c.snd_nxt
      BY <1>1, <2>2
    <3> QED BY <1>1, <1>2, <3>1
  <2> HIDE DEF E
  <2> QED BY <1>7, <2>1, <2>2, <2>3, <2>4, <2>5, TracksMore
<1> QED BY <1>2, <1>3, <1>7, <1>8 DEF q, e

\* emit_fin, once the send buffer has drained.
LEMMA EmitFinSends ==
    ASSUME NEW h \in Host, NEW c, ConnOK(c), Sound(h, c), wrote[h] \in Nat,
           c.tx = <<>>, c.close_requested
    PROVE  Sends(h, c, EmitFin(c))
<1> DEFINE a == AckSegment(c, c.snd_nxt)
           m == [a EXCEPT !.fin = TRUE]
           s == IF c.state = "Established" THEN "FinWait1" ELSE "LastAck"
           k == c.snd_nxt + 1
           c1 == [c EXCEPT !.state = s, !.snd_nxt = k, !.fin_sent = TRUE]
           e == RtqEntry(c.snd_nxt, 1, FALSE, TRUE, TRUE, <<>>)
           x == TrackForRetransmit(c1, e)
<1>1. EmitFin(c) = IF MayEmitFin(c) THEN Result(x, <<m>>) ELSE Quietly(c)
  BY DEF EmitFin
<1>2. CASE ~MayEmitFin(c)
  BY <1>1, <1>2, SendsNothing
<1>3. CASE MayEmitFin(c)
  <2>1. EmitFin(c).c = x /\ EmitFin(c) = Result(x, <<m>>)
    BY <1>1, <1>3 DEF Result
  <2>2. ConnOK(x)
    BY <2>1, EmitFinOK DEF Keeps
  <2>3. c \in Connection /\ c.snd_nxt \in Nat /\ c.rcv_nxt \in Nat /\ DataEnd(c) \in Int
        /\ Isn[h] \in Nat
    BY ConnTypes, HostData DEF ConnOK
  <2>4. ~c.fin_sent /\ c.state \in {"Established", "CloseWait"}
    BY <1>3 DEF MayEmitFin
  <2>5. a \in Segment
    BY <2>3, AckSegmentOK
  <2>6. /\ a.seq = c.snd_nxt /\ a.ack = c.rcv_nxt /\ ~a.syn /\ a.isAck /\ a.data = <<>>
    BY DEF AckSegment
  <2> HIDE DEF a
  <2>7. /\ m \in Segment /\ m.seq = c.snd_nxt /\ m.ack = c.rcv_nxt /\ ~m.syn /\ m.isAck
        /\ m.fin /\ m.data = <<>>
    BY <2>5, <2>6 DEF Segment
  <2>8. k \in Nat /\ s \in {"FinWait1", "LastAck"} /\ s \in TcpState
    BY <2>3 DEF TcpState
  <2> HIDE DEF k, s, m
  <2>9. /\ c1 \in Connection /\ c1.state = s /\ c1.snd_nxt = k /\ c1.fin_sent
        /\ c1.fin_sent = TRUE
        /\ c1.snd_una = c.snd_una /\ c1.rtq = c.rtq /\ c1.tx = c.tx
        /\ c1.close_requested = c.close_requested /\ c1.fin_received = c.fin_received
        /\ SameReceive(c, c1)
    BY <2>3, <2>8 DEF Connection, SameReceive
  <2> HIDE DEF c1
  <2>10. SendOK(h, wrote[h], c) /\ Tracks(c) /\ c.state # "Closed"
    BY <2>4 DEF Sound, SendOK
  <2>11. c1.snd_nxt = c.snd_nxt + 1 /\ TRUE \in BOOLEAN /\ FALSE \in BOOLEAN
    BY <2>9 DEF k
  <2>12. /\ x \in Connection /\ Tracks(x) /\ x.rtq = c.rtq \cup {e}
         /\ x.snd_una = c1.snd_una /\ x.snd_nxt = c1.snd_nxt /\ x.tx = c1.tx
         /\ x.fin_sent = c1.fin_sent /\ x.close_requested = c1.close_requested
         /\ x.fin_received = c1.fin_received /\ SameReceive(c1, x)
         /\ x.state = c1.state
         /\ e.seq = c.snd_nxt /\ e.syn = FALSE /\ e.isAck = TRUE /\ e.fin = TRUE
         /\ e.data = <<>>
    BY <2>3, <2>9, <2>10, <2>11, NumberedShape
  <2> HIDE DEF x, e
  <2>13. /\ x.snd_una = c.snd_una /\ x.snd_nxt = c.snd_nxt + 1 /\ x.tx = <<>> /\ x.fin_sent
         /\ x.close_requested /\ x.close_requested = c.close_requested
         /\ x.fin_received = c.fin_received /\ x.rx = c.rx
         /\ x.rcv_nxt = c.rcv_nxt /\ x.ooo = c.ooo /\ x.state \in {"FinWait1", "LastAck"}
    BY <2>8, <2>9, <2>11, <2>12 DEF SameReceive
  <2>14. DataEnd(c) = c.snd_nxt /\ DataEnd(x) = c.snd_nxt
    BY <2>3, <2>4, <2>13 DEF DataEnd, Bit
  <2>15. Advances(c, x)
    <3>1. c.snd_una \in Nat
      BY <2>3, ConnTypes
    <3> QED BY <2>3, <2>4, <2>13, <2>14, <3>1 DEF Advances
  <2>16. ASSUME NEW f, f.seq = c.snd_nxt, ~f.syn, f.fin, f.data = <<>>
         PROVE  Stamped(h, x, f)
    <3>1. FinSeq(f) + Bit(f.fin) = c.snd_nxt + 1
      <4>1. Len(<<>>) = 0
        OBVIOUS
      <4> QED BY <2>3, <2>16, <4>1 DEF FinSeq, Bit
    <3>2. Carries(h, f.seq, f.data, DataEnd(x))
      BY <2>16, CarriesNothing
    <3>3. c.snd_nxt + 1 <= x.snd_nxt
      BY <2>3, <2>13
    <3> QED BY <2>13, <2>14, <2>16, <3>1, <3>2, <3>3 DEF Stamped
  <2>17. \A f \in x.rtq : Stamped(h, x, f)
    <3> SUFFICES ASSUME NEW f \in x.rtq PROVE Stamped(h, x, f)
      OBVIOUS
    <3>1. CASE f = e
      BY <2>12, <2>16, <3>1
    <3>2. CASE f \in c.rtq
      <4>1. f.seq \in Nat /\ f.data \in Seq(Byte) /\ f.fin \in BOOLEAN
        BY <2>3, <3>2, ConnTypes DEF RetransmitSegment
      <4>2. Stamped(h, c, f)
        BY <2>10, <3>2 DEF SendOK
      <4> QED BY <2>3, <2>12, <2>15, <4>1, <4>2, StampedLater
    <3> QED BY <2>12, <3>1, <3>2
  <2>18. SendOK(h, wrote[h], x)
    <3>1. Carries(h, x.snd_nxt, x.tx, x.snd_nxt + Len(x.tx))
      BY <2>13, CarriesNothing
    <3>2. DataEnd(c) + Len(c.tx) = Isn[h] + 1 + wrote[h]
      BY <2>4, <2>10 DEF SendOK
    <3>3. DataEnd(x) + Len(x.tx) = Isn[h] + 1 + wrote[h]
      BY <2>13, <2>14, <3>2
    <3>4. /\ Isn[h] < c.snd_nxt /\ wrote[h] <= Len(AppData[h])
      BY <2>4, <2>10 DEF SendOK
    <3>5. Isn[h] < x.snd_nxt /\ Isn[h] <= x.snd_nxt
          /\ DataEnd(x) + Len(x.tx) <= Isn[h] + 1 + wrote[h]
      BY <2>3, <2>13, <3>3, <3>4
    <3> QED BY <2>12, <2>13, <2>17, <3>1, <3>3, <3>4, <3>5 DEF SendOK
  <2>19. RecvOK(Other(h), got[h], conn[Other(h)], x)
    <3>1. c.fin_received => c.state # "Established"
      BY <2>4 DEF Sound, RecvOK, Blank, Synced
    <3>2. c.fin_received => x.state = "LastAck"
      BY <2>9, <2>12, <3>1 DEF s
    <3>3. Passes(c, x.state)
      BY <2>4, <2>13, <3>2 DEF Passes
    <3> QED BY <2>13, <3>3, RecvSame DEF Sound
  <2>20. Sound(h, x) /\ SameIn(c, x)
    BY <2>13, <2>18, <2>19 DEF Sound, Acked, SameIn
  <2>21. SegOK(h, x, m)
    <3>1. m.ack <= x.rcv_nxt
      BY <2>3, <2>7, <2>13
    <3> QED BY <2>7, <2>16, <3>1 DEF SegOK
  <2>22. Sends(h, c, Result(x, <<m>>))
    BY <2>2, <2>3, <2>7, <2>13, <2>15, <2>20, <2>21, SendsOne
  <2> QED BY <2>1, <2>22
<1> QED BY <1>2, <1>3

-----------------------------------------------------------------------------
(* Application calls *)

\* A request to close.
LEMMA CloseRequestSound ==
    ASSUME NEW h, NEW c, ConnOK(c), Sound(h, c)
    PROVE  LET x == [c EXCEPT !.close_requested = TRUE]
           IN  /\ ConnOK(x) /\ Sound(h, x) /\ Advances(c, x) /\ SameIn(c, x)
               /\ x.close_requested /\ x.tx = c.tx
<1> DEFINE x == [c EXCEPT !.close_requested = TRUE]
<1>1. c \in Connection
  BY DEF ConnOK
<1>2. /\ x \in Connection /\ SameReceive(c, x) /\ x.state = c.state /\ x.cc = c.cc
      /\ x.snd_una = c.snd_una /\ x.snd_nxt = c.snd_nxt /\ x.tx = c.tx /\ x.rtq = c.rtq
      /\ x.fin_sent = c.fin_sent /\ x.fin_received = c.fin_received
      /\ x.close_requested = TRUE
  BY <1>1 DEF Connection, SameReceive
<1> HIDE DEF x
<1>3. ConnOK(x)
  BY <1>2, SetOK
<1>4. x.rx = c.rx /\ x.rcv_nxt = c.rcv_nxt /\ x.ooo = c.ooo
  BY <1>2 DEF SameReceive
<1>5. DataEnd(x) = DataEnd(c)
  BY <1>2 DEF DataEnd
<1>6. SendOK(h, wrote[h], x)
  <2>1. SendOK(h, wrote[h], c)
    BY DEF Sound
  <2>2. \A e \in x.rtq : Stamped(h, x, e)
    BY <1>2, <2>1, StampedSame DEF SendOK
  <2>3. Tracks(x)
    BY <1>2, <2>1 DEF SendOK, Tracks
  <2> QED BY <1>2, <1>5, <2>1, <2>2, <2>3 DEF SendOK
<1>7. RecvOK(Other(h), got[h], conn[Other(h)], x)
  <2>1. Passes(c, x.state)
    BY <1>2 DEF Passes
  <2> QED BY <1>2, <1>4, <2>1, RecvSame DEF Sound
<1>8. Acked(h, conn[Other(h)], x)
  BY <1>2 DEF Sound, Acked
<1>9. Advances(c, x)
  <2>1. c.snd_una \in Nat /\ c.snd_nxt \in Nat /\ c.rcv_nxt \in Nat /\ DataEnd(c) \in Int
    BY <1>1, ConnTypes
  <2> QED BY <1>2, <1>4, <1>5, <2>1 DEF Advances
<1> QED BY <1>2, <1>3, <1>4, <1>6, <1>7, <1>8, <1>9 DEF Sound, SameIn, x

\* initiate_close
LEMMA InitiateCloseSends ==
    ASSUME NEW h \in Host, NEW c, ConnOK(c), Sound(h, c), wrote[h] \in Nat
    PROVE  LET r == InitiateClose(c)
           IN  /\ Sound(h, r.c) /\ Advances(c, r.c) /\ SameIn(c, r.c)
               /\ c.close_requested => r.c.close_requested
               /\ \A i \in 1 .. Len(r.out) : SegOK(h, r.c, r.out[i])
<1> DEFINE x == [c EXCEPT !.close_requested = TRUE]
           r == InitiateClose(c)
<1>1. r = IF c.state \notin {"Established", "CloseWait"} THEN Quietly(c)
          ELSE IF c.tx = <<>> THEN EmitFin(x) ELSE Quietly(x)
  BY DEF InitiateClose
<1>2. c \in Connection
  BY DEF ConnOK
<1>3. /\ ConnOK(x) /\ Sound(h, x) /\ Advances(c, x) /\ SameIn(c, x) /\ x.close_requested
      /\ x.tx = c.tx
  BY CloseRequestSound
<1> HIDE DEF x
<1>4. x \in Connection
  BY <1>3 DEF ConnOK
<1>5. CASE r = Quietly(c)
  <2>1. Sends(h, c, r)
    BY <1>5, SendsNothing
  <2> QED BY <2>1 DEF Sends, Steps
<1>6. ASSUME Sends(h, x, r) PROVE /\ Sound(h, r.c) /\ Advances(c, r.c) /\ SameIn(c, r.c)
                                  /\ c.close_requested => r.c.close_requested
                                  /\ \A i \in 1 .. Len(r.out) : SegOK(h, r.c, r.out[i])
  <2> HIDE DEF r
  <2>1. Advances(x, r.c) /\ r.c \in Connection
    BY <1>6 DEF Sends, Steps, ConnOK
  <2>2. Advances(c, r.c)
    BY <1>2, <1>3, <1>4, <2>1, AdvancesTwice
  <2> QED BY <1>3, <1>6, <2>2 DEF Sends, Steps, SameIn
<1>7. CASE r = EmitFin(x) /\ c.tx = <<>>
  <2>1. Sends(h, x, r)
    BY <1>3, <1>7, EmitFinSends
  <2> QED BY <1>6, <2>1
<1>8. CASE r = Quietly(x)
  <2>1. Sends(h, x, r)
    BY <1>3, <1>8, SendsNothing
  <2> QED BY <1>6, <2>1
<1> QED BY <1>1, <1>5, <1>7, <1>8

\* What a connection is created with.
LEMMA FreshShape ==
    ASSUME NEW h \in Host
    PROVE  LET c == Fresh(h)
           IN  /\ c.snd_una = Isn[h] /\ c.snd_nxt = Isn[h] /\ c.rcv_nxt = 0 /\ c.rx = <<>>
               /\ c.tx = <<>> /\ c.ooo = {} /\ c.rtq = {} /\ c.fin_sent = FALSE
               /\ c.fin_received = FALSE /\ c.close_requested = FALSE
               /\ c.state = (IF h \in Clients THEN "Closed" ELSE "Listen")
  BY DEF Fresh, NewConnection

\* initiate_syn
LEMMA InitiateSynSends ==
    ASSUME NEW h \in Clients, conn[h] = Fresh(h), Sound(h, conn[h]), wrote[h] = 0,
           got[h] = <<>>
    PROVE  Sends(h, conn[h], InitiateSyn(conn[h]))
<1> DEFINE c == conn[h]
           a == AckSegment(c, c.snd_nxt)
           m == [a EXCEPT !.ack = 0, !.isAck = FALSE, !.syn = TRUE,
                          !.mss = c.local_mss, !.sackOk = TRUE]
           k == c.snd_nxt + 1
           c1 == [c EXCEPT !.state = "SynSent", !.snd_nxt = k]
           e == RtqEntry(c.snd_nxt, 1, TRUE, FALSE, FALSE, <<>>)
           x == TrackForRetransmit(c1, e)
<1>1. h \in Host /\ Isn[h] \in Nat /\ Len(AppData[h]) \in Nat
  BY PairAssumption, HostData
<1>2. InitiateSyn(c) = Result(x, <<m>>)
  BY DEF InitiateSyn
<1>3. /\ ConnOK(c) /\ c.ooo = {} /\ c.state = "Closed"
      /\ c.snd_una + c.cc.in_flight = c.snd_nxt
  BY <1>1, FreshOK
<1>4. /\ c.snd_una = Isn[h] /\ c.snd_nxt = Isn[h] /\ c.rcv_nxt = 0 /\ c.rx = <<>>
      /\ c.tx = <<>> /\ c.rtq = {} /\ c.fin_sent = FALSE
      /\ c.fin_received = FALSE /\ c.close_requested = FALSE
  BY <1>1, FreshShape
<1>5. ConnOK(x)
  <2>1. InitiateSyn(c).c = x
    BY <1>2 DEF Result
  <2> QED BY <1>3, <2>1, InitiateSynOK DEF Keeps
<1>6. c \in Connection /\ c.snd_nxt \in Nat /\ c.local_mss \in Nat
  BY <1>3 DEF ConnOK, Connection
<1>7. Sound(h, c)
  OBVIOUS
<1> HIDE DEF c
<1>8. a \in Segment
  BY <1>6, AckSegmentOK
<1>9. a.seq = c.snd_nxt /\ a.fin = FALSE /\ a.data = <<>>
  BY DEF AckSegment
<1> HIDE DEF a
<1>10. /\ m \in Segment /\ m.seq = c.snd_nxt /\ m.syn = TRUE /\ m.isAck = FALSE
       /\ m.fin = FALSE /\ m.data = <<>>
  BY <1>6, <1>8, <1>9 DEF Segment
<1>11. k \in Nat
  BY <1>6
<1> HIDE DEF k, m
<1>12. /\ c1 \in Connection /\ c1.state = "SynSent" /\ c1.snd_nxt = k
       /\ c1.fin_sent = c.fin_sent
       /\ c1.snd_una = c.snd_una /\ c1.rtq = c.rtq /\ c1.tx = c.tx
       /\ c1.close_requested = c.close_requested /\ c1.fin_received = c.fin_received
       /\ SameReceive(c, c1)
  BY <1>6, <1>11 DEF Connection, SameReceive, TcpState
<1> HIDE DEF c1
<1>13. Tracks(c)
  BY <1>7 DEF Sound, SendOK
<1>14. c1.snd_nxt = c.snd_nxt + 1 /\ TRUE \in BOOLEAN /\ FALSE \in BOOLEAN
       /\ c.snd_una = c.snd_nxt
  BY <1>4, <1>12 DEF k
<1>15. /\ x \in Connection /\ Tracks(x) /\ x.rtq = c.rtq \cup {e}
       /\ x.snd_una = c1.snd_una /\ x.snd_nxt = c1.snd_nxt /\ x.tx = c1.tx
       /\ x.fin_sent = c1.fin_sent /\ x.close_requested = c1.close_requested
       /\ x.fin_received = c1.fin_received /\ SameReceive(c1, x)
       /\ x.state = c1.state
       /\ e.seq = c.snd_nxt /\ e.syn = TRUE /\ e.isAck = FALSE /\ e.fin = FALSE
       /\ e.data = <<>>
  BY <1>6, <1>12, <1>13, <1>14, NumberedShape
<1> HIDE DEF x, e
<1>16. /\ x.snd_una = Isn[h] /\ x.snd_nxt = Isn[h] + 1 /\ x.tx = <<>> /\ x.fin_sent = FALSE
       /\ x.close_requested = c.close_requested /\ x.fin_received = FALSE /\ x.rx = <<>>
       /\ x.rcv_nxt = 0 /\ x.ooo = {} /\ x.state = "SynSent" /\ x.rtq = {e}
  BY <1>3, <1>4, <1>12, <1>14, <1>15 DEF SameReceive
<1>17. DataEnd(x) = Isn[h] + 1 /\ DataEnd(c) = Isn[h]
  BY <1>1, <1>4, <1>16 DEF DataEnd, Bit
<1>18. ASSUME NEW f, f.seq = Isn[h], f.syn = TRUE, f.fin = FALSE, f.data = <<>>
       PROVE  Stamped(h, x, f)
  <2>1. FinSeq(f) + Bit(f.fin) = Isn[h] + 1
    <3>1. Len(<<>>) = 0
      OBVIOUS
    <3> QED BY <1>1, <1>18, <3>1 DEF FinSeq, Bit
  <2>2. Carries(h, f.seq, f.data, DataEnd(x))
    BY <1>18, CarriesNothing
  <2>3. Isn[h] + 1 <= x.snd_nxt
    BY <1>1, <1>16
  <2> QED BY <1>16, <1>18, <2>1, <2>2, <2>3 DEF Stamped
<1>19. SendOK(h, wrote[h], x)
  <2>1. Carries(h, x.snd_nxt, x.tx, x.snd_nxt + Len(x.tx))
    BY <1>16, CarriesNothing
  <2>2. DataEnd(x) + Len(x.tx) = Isn[h] + 1 + wrote[h]
    <3>1. Len(x.tx) = 0 /\ wrote[h] = 0
      BY <1>16
    <3> QED BY <1>1, <1>17, <3>1
  <2>3. \A f \in x.rtq : Stamped(h, x, f)
    BY <1>4, <1>15, <1>16, <1>18
  <2>4. /\ Isn[h] < x.snd_nxt /\ Isn[h] <= x.snd_nxt /\ wrote[h] <= Len(AppData[h])
        /\ DataEnd(x) + Len(x.tx) <= Isn[h] + 1 + wrote[h]
    BY <1>1, <1>16, <2>2
  <2> QED BY <1>15, <1>16, <2>1, <2>2, <2>3, <2>4 DEF SendOK
<1>20. RecvOK(Other(h), got[h], conn[Other(h)], x)
  <2>1. got[h] \o x.rx = <<>>
    <3>1. <<>> \o <<>> = <<>>
      OBVIOUS
    <3> QED BY <1>16, <3>1
  <2> QED BY <1>16, <2>1 DEF RecvOK, Blank
<1>21. Acked(h, conn[Other(h)], x)
  BY <1>1, <1>16 DEF Acked
<1>22. Sound(h, x) /\ SameIn(c, x)
  BY <1>4, <1>16, <1>19, <1>20, <1>21 DEF Sound, SameIn
<1>23. Advances(c, x)
  BY <1>1, <1>4, <1>16, <1>17 DEF Advances
<1>24. SegOK(h, x, m)
  BY <1>4, <1>10, <1>18 DEF SegOK
<1>25. Sends(h, c, Result(x, <<m>>))
  BY <1>5, <1>6, <1>10, <1>16, <1>22, <1>23, <1>24, SendsOne
<1> QED BY <1>2, <1>25 DEF c

\* write: the bytes accepted continue the stream.
LEMMA WriteSends ==
    ASSUME NEW h \in Host, NEW c, ConnOK(c), Sound(h, c), wrote[h] \in Nat, Sending(c),
           NEW n \in Nat, wrote[h] + n <= Len(AppData[h])
    PROVE  LET x == Write(c, SubSeq(AppData[h], wrote[h] + 1, wrote[h] + n))
               k == Len(x.tx) - Len(c.tx)
           IN  /\ SendOK(h, wrote[h] + k, x) /\ k \in Nat /\ wrote[h] + k <= Len(AppData[h])
               /\ RecvOK(Other(h), got[h], conn[Other(h)], x)
               /\ Acked(h, conn[Other(h)], x) /\ Advances(c, x) /\ SameIn(c, x)
               /\ x.close_requested = c.close_requested /\ x.fin_sent = c.fin_sent
               /\ x.snd_una = c.snd_una /\ x.snd_nxt = c.snd_nxt
<1> DEFINE w == wrote[h]
           A == AppData[h]
           l == w + n
           data == SubSeq(A, w + 1, l)
           b == Len(data)
           t == Len(c.tx)
           j == MinOf(Monus(SndBufferCapacity, t), b)
           p == SubSeq(data, 1, j)
           tx == c.tx \o p
           x == [c EXCEPT !.tx = tx]
           k == Len(x.tx) - Len(c.tx)
<1>1. /\ c \in Connection /\ Isn[h] \in Nat /\ A \in Seq(Byte) /\ Len(A) \in Nat
      /\ c.snd_nxt \in Nat /\ DataEnd(c) \in Int /\ t \in Nat /\ c.tx \in Seq(Byte)
      /\ c.snd_una \in Nat /\ c.rcv_nxt \in Nat
  BY ConnTypes, HostData DEF ConnOK
<1>2. w \in Nat /\ w + 1 \in Nat \ {0} /\ l \in Int /\ l <= Len(A) /\ l \in Nat
  OBVIOUS
<1>3. SendOK(h, w, c) /\ ~c.fin_sent /\ DataEnd(c) + t = Isn[h] + 1 + w
  BY DEF Sound, SendOK, Sending
<1>4. DataEnd(c) = c.snd_nxt
  BY <1>1, <1>3 DEF DataEnd, Bit
<1>5. data \in Seq(Byte) /\ b = (IF w + 1 <= l THEN l - (w + 1) + 1 ELSE 0)
  <2> HIDE DEF w, A, l
  <2> QED BY <1>1, <1>2, Slice
<1>6. b = n
  <2> HIDE DEF b
  <2> QED BY <1>2, <1>5
<1>7. j \in Nat /\ j <= n
  <2> HIDE DEF b, t
  <2>1. Monus(SndBufferCapacity, t) \in Nat
    BY <1>1, Saturating, EndpointAssumption
  <2> QED BY <1>6, <2>1, Saturating
<1>8. p \in Seq(Byte) /\ Len(p) = j
  <2> HIDE DEF j, data
  <2>1. j <= Len(data) /\ j \in Int /\ 1 \in Nat \ {0}
    BY <1>6, <1>7
  <2>2. p \in Seq(Byte) /\ Len(p) = (IF 1 <= j THEN j - 1 + 1 ELSE 0)
    BY <1>5, <2>1, Slice
  <2> HIDE DEF p
  <2> QED BY <1>7, <2>2
<1>9. Write(c, data) = x
  BY DEF Write
<1>10. Carries(h, Isn[h] + 1, A, Isn[h] + 1 + Len(A))
  <2> DEFINE q == Len(A)
  <2> SUFFICES ASSUME NEW i \in 1 .. q
               PROVE  /\ Isn[h] < Isn[h] + 1 + i - 1 /\ Isn[h] + 1 + i - 1 < Isn[h] + 1 + q
                      /\ A[i] = A[Isn[h] + 1 + i - 1 - Isn[h]]
    BY DEF Carries
  <2>1. q \in Nat
    BY <1>1
  <2> HIDE DEF q, A
  <2>2. i \in Int /\ i >= 1 /\ i <= q
    BY <2>1
  <2>3. Isn[h] + 1 + i - 1 - Isn[h] = i
    BY <1>1, <2>2
  <2> QED BY <1>1, <2>1, <2>2, <2>3
<1>11. Carries(h, Isn[h] + 1 + w, p, Isn[h] + 1 + Len(A))
  <2> DEFINE end == Isn[h] + 1 + Len(A)
             s0 == Isn[h] + 1
             s1 == Isn[h] + 1 + w
  <2>1. end \in Int /\ s0 \in Int /\ s1 \in Int
    <3> HIDE DEF A, w
    <3>1. Len(A) \in Nat /\ w \in Nat
      BY <1>1, <1>2
    <3> QED BY <1>1, <3>1
  <2>2. Carries(h, s0 + (w + 1) - 1, data, end)
    <3> HIDE DEF end, s0, A, w
    <3>1. Carries(h, s0, A, end)
      BY <1>10 DEF end, s0
    <3> HIDE DEF l
    <3> QED BY <1>1, <1>2, <2>1, <3>1, CarriesPart
  <2>3. s0 + (w + 1) - 1 = s1
    BY <1>1, <1>2
  <2>4. Carries(h, s1 + 1 - 1, p, end)
    <3> HIDE DEF end, s0, s1, data, j
    <3>1. Carries(h, s1, data, end) /\ j <= Len(data) /\ j \in Int /\ 1 \in Nat \ {0}
      BY <1>6, <1>7, <2>2, <2>3
    <3> QED BY <1>5, <2>1, <3>1, CarriesPart
  <2>5. s1 + 1 - 1 = s1
    BY <2>1
  <2> QED BY <2>4, <2>5
<1> HIDE DEF p
<1>12. tx \in Seq(Byte) /\ Len(tx) = t + j
  <2> HIDE DEF j
  <2> QED BY <1>1, <1>8, ConcatProperties
<1>13. Carries(h, c.snd_nxt, tx, c.snd_nxt + Len(tx))
  <2> DEFINE big == Isn[h] + 1 + Len(A)
             end == c.snd_nxt + t
             fin == c.snd_nxt + Len(tx)
  <2>1. c.snd_nxt + t = Isn[h] + 1 + w
    BY <1>3, <1>4
  <2>2. big \in Int /\ end \in Int /\ end <= fin /\ fin <= big /\ fin = end + j /\ fin \in Int
    <3> DEFINE al == Len(A)
               I == Isn[h]
               s == c.snd_nxt
    <3>1. /\ j <= n /\ w + n <= al /\ al \in Nat /\ fin = s + (t + j)
          /\ big = I + 1 + al /\ end = s + t /\ s + t = I + 1 + w
          /\ s \in Nat /\ t \in Nat /\ I \in Nat /\ w \in Nat /\ j \in Nat
      BY <1>1, <1>7, <1>12, <2>1
    <3> HIDE DEF t, w, j, A, al, fin, big, end, I, s
    <3> QED BY <3>1
  <2>3. Carries(h, c.snd_nxt, c.tx, end)
    BY <1>3 DEF SendOK
  <2>4. Carries(h, c.snd_nxt, c.tx, fin)
    <3> HIDE DEF end, fin
    <3>1. c.snd_nxt \in Int
      BY <1>1
    <3> QED BY <1>1, <2>2, <2>3, <3>1, CarriesMore
  <2>5. Carries(h, c.snd_nxt + Len(c.tx), p, fin)
    <3>1. Carries(h, end, p, big)
      BY <1>11, <2>1
    <3> SUFFICES ASSUME NEW i \in 1 .. Len(p)
                 PROVE  /\ Isn[h] < end + i - 1 /\ end + i - 1 < fin
                        /\ p[i] = AppData[h][end + i - 1 - Isn[h]]
      BY DEF Carries
    <3>2. /\ Isn[h] < end + i - 1
          /\ p[i] = AppData[h][end + i - 1 - Isn[h]]
      BY <3>1 DEF Carries
    <3>3. end + i - 1 < fin
      <4> HIDE DEF end, fin, j
      <4>1. i \in 1 .. j
        BY <1>8
      <4> QED BY <1>7, <2>2, <4>1
    <3> QED BY <3>2, <3>3
  <2>6. Carries(h, c.snd_nxt, c.tx \o p, fin)
    <3> HIDE DEF fin
    <3>1. c.snd_nxt \in Int
      BY <1>1
    <3> QED BY <1>1, <1>8, <2>2, <2>4, <2>5, <3>1, CarriesBoth
  <2> QED BY <2>6
<1> HIDE DEF tx
<1>14. /\ x.tx = tx /\ SameReceive(c, x) /\ x.state = c.state
       /\ x.snd_una = c.snd_una /\ x.snd_nxt = c.snd_nxt /\ x.rtq = c.rtq
       /\ x.fin_sent = c.fin_sent /\ x.fin_received = c.fin_received
       /\ x.close_requested = c.close_requested
  BY <1>1 DEF Connection, SameReceive
<1> HIDE DEF x
<1>15. k = j
  <2> HIDE DEF t, j
  <2>1. k = (t + j) - t
    BY <1>12, <1>14 DEF t
  <2> HIDE DEF k
  <2> QED BY <1>1, <1>7, <2>1
<1>16. DataEnd(x) = DataEnd(c) /\ x.rx = c.rx /\ x.rcv_nxt = c.rcv_nxt /\ x.ooo = c.ooo
  BY <1>14 DEF DataEnd, SameReceive
<1>17. w + k <= Len(A) /\ w + k \in Nat /\ k \in Nat
  <2> HIDE DEF k, w, j, A
  <2>1. w + n <= Len(A)
    BY DEF w, A
  <2> QED BY <1>1, <1>2, <1>7, <1>15, <2>1
<1>18. SendOK(h, w + k, x)
  <2>1. \A e \in x.rtq : Stamped(h, x, e)
    BY <1>3, <1>14, StampedSame DEF SendOK
  <2>2. Tracks(x)
    BY <1>3, <1>14 DEF SendOK, Tracks
  <2>3. DataEnd(x) + Len(x.tx) = Isn[h] + 1 + (w + k)
    <3> DEFINE u == Len(x.tx)
               D == DataEnd(c)
               I == Isn[h]
    <3> HIDE DEF w, k, j, t
    <3>1. u = t + j /\ D \in Int /\ D + t = I + 1 + w /\ DataEnd(x) = D
          /\ I \in Nat /\ t \in Nat /\ j \in Nat /\ w \in Nat /\ k = j
      BY <1>1, <1>2, <1>3, <1>7, <1>12, <1>14, <1>15, <1>16
    <3> HIDE DEF u, D, I
    <3>2. D + u = I + 1 + (w + k)
      BY <3>1
    <3> QED BY <3>1, <3>2 DEF u, I
  <2>4. DataEnd(x) + Len(x.tx) <= Isn[h] + 1 + (w + k)
    <3> DEFINE v == w + k
    <3>1. v \in Nat
      BY <1>17
    <3> HIDE DEF w, k, v
    <3>2. DataEnd(x) + Len(x.tx) = Isn[h] + 1 + v
      BY <2>3 DEF v
    <3> QED BY <1>1, <3>1, <3>2 DEF v
  <2>5. x.state \notin {"Listen", "SynSent", "SynReceived", "Closed"}
    BY <1>14 DEF Sending
  <2>6. Carries(h, x.snd_nxt, x.tx, x.snd_nxt + Len(x.tx))
    BY <1>13, <1>14
  <2>7. Isn[h] <= x.snd_nxt /\ Isn[h] < x.snd_nxt
    BY <1>3, <1>14 DEF SendOK, Sending
  <2> HIDE DEF k, w
  <2> QED BY <1>3, <1>14, <1>17, <2>1, <2>2, <2>3, <2>4, <2>5, <2>6, <2>7 DEF SendOK
<1>19. RecvOK(Other(h), got[h], conn[Other(h)], x)
  <2>1. Passes(c, x.state)
    BY <1>14 DEF Passes
  <2> QED BY <1>14, <1>16, <2>1, RecvSame DEF Sound
<1>20. Acked(h, conn[Other(h)], x)
  BY <1>14 DEF Sound, Acked
<1>21. Advances(c, x)
  BY <1>1, <1>14, <1>16 DEF Advances
<1> QED BY <1>9, <1>14, <1>16, <1>17, <1>18, <1>19, <1>20, <1>21 DEF SameIn

\* read: the bytes move from the buffer to the application.
LEMMA ReadSends ==
    ASSUME NEW h \in Host, NEW c, ConnOK(c), Sound(h, c), got[h] \in Seq(Byte),
           NEW n \in Nat, n <= Len(c.rx)
    PROVE  LET x == Read(c, n)
               g == got[h] \o SubSeq(c.rx, 1, n)
           IN  /\ SendOK(h, wrote[h], x) /\ RecvOK(Other(h), g, conn[Other(h)], x)
               /\ Acked(h, conn[Other(h)], x) /\ Advances(c, x)
               /\ x.close_requested = c.close_requested
               /\ g \o x.rx = got[h] \o c.rx /\ x.fin_received = c.fin_received
               /\ x.snd_una = c.snd_una /\ x.snd_nxt = c.snd_nxt /\ x.fin_sent = c.fin_sent
<1> DEFINE l == Len(c.rx)
           p == SubSeq(c.rx, 1, n)
           q == SubSeq(c.rx, n + 1, l)
           x == [c EXCEPT !.rx = q]
           g == got[h] \o p
<1>1. /\ c \in Connection /\ c.rx \in Seq(Byte) /\ l \in Nat /\ c.snd_una \in Nat
      /\ c.snd_nxt \in Nat /\ c.rcv_nxt \in Nat /\ DataEnd(c) \in Int
  BY ConnTypes DEF ConnOK
<1>2. Read(c, n) = x
  BY DEF Read
<1>3. /\ p \in Seq(Byte) /\ Len(p) = n /\ q \in Seq(Byte) /\ Len(q) = l - n
      /\ \A i \in 1 .. n : p[i] = c.rx[i]
      /\ \A j \in 1 .. l - n : q[j] = c.rx[n + j]
  <2>1. \A i \in 1 .. l : c.rx[i] \in Byte
    BY <1>1, ElementOfSeq
  <2>2. n <= l
    OBVIOUS
  <2> HIDE DEF l
  <2>3. \A i \in 1 .. n : c.rx[i] \in Byte
    BY <1>1, <2>1, <2>2
  <2>4. \A i \in n + 1 .. l : c.rx[i] \in Byte
    BY <1>1, <2>1, <2>2
  <2>5. /\ p \in Seq(Byte) /\ Len(p) = (IF 1 <= n THEN n - 1 + 1 ELSE 0)
        /\ \A i \in 1 .. n - 1 + 1 : p[i] = c.rx[1 + i - 1]
    BY <1>1, <2>3, SubSeqProperties
  <2>6. /\ q \in Seq(Byte) /\ Len(q) = (IF n + 1 <= l THEN l - (n + 1) + 1 ELSE 0)
        /\ \A i \in 1 .. l - (n + 1) + 1 : q[i] = c.rx[n + 1 + i - 1]
    <3>1. n + 1 \in Int /\ l \in Int
      BY <1>1
    <3> QED BY <1>1, <2>4, <3>1, SubSeqProperties
  <2> HIDE DEF p, q
  <2>7. Len(p) = n /\ Len(q) = l - n
    BY <1>1, <2>2, <2>5, <2>6
  <2>8. ASSUME NEW i \in 1 .. n PROVE p[i] = c.rx[i]
    <3>1. 1 + i - 1 = i /\ i \in 1 .. n - 1 + 1
      OBVIOUS
    <3> QED BY <2>5, <3>1
  <2>9. ASSUME NEW i \in 1 .. l - n PROVE q[i] = c.rx[n + i]
    <3>1. n + 1 + i - 1 = n + i /\ i \in 1 .. l - (n + 1) + 1
      BY <1>1
    <3> QED BY <2>6, <3>1
  <2> QED BY <2>5, <2>6, <2>7, <2>8, <2>9
<1>4. p \o q = c.rx
  <2> DEFINE z == p \o q
             v == Len(q)
  <2> HIDE DEF p, q, l
  <2>1. z \in Seq(Byte) /\ Len(z) = n + v
        /\ \A i \in 1 .. n + v : z[i] = IF i <= n THEN p[i] ELSE q[i - n]
    <3>1. p \in Seq(Byte) /\ q \in Seq(Byte) /\ Len(p) = n
      BY <1>3
    <3> QED BY <3>1, ConcatProperties
  <2> v = l - n
    BY <1>3
  <2> HIDE DEF v
  <2> HIDE DEF z
  <2>2. Len(z) = l /\ n <= l
    BY <1>1, <2>1 DEF l
  <2>3. ASSUME NEW i \in 1 .. l PROVE z[i] = c.rx[i]
    <3>1. i \in 1 .. n + v
      BY <1>1, <2>2
    <3>2. CASE i <= n
      <4>1. i \in 1 .. n
        BY <1>1, <3>2
      <4> QED BY <1>3, <2>1, <3>1, <3>2, <4>1
    <3>3. CASE i > n
      <4>1. i - n \in 1 .. l - n /\ n + (i - n) = i
        BY <1>1, <3>3
      <4> QED BY <1>3, <2>1, <3>1, <3>3, <4>1
    <3> QED BY <1>1, <3>2, <3>3
  <2>4. Len(c.rx) = l
    BY DEF l
  <2>5. z = c.rx
    BY <1>1, <2>1, <2>2, <2>3, <2>4, SeqEqual
  <2> QED BY <2>5 DEF z
<1> HIDE DEF p, q
<1>5. /\ x.rx = q /\ x.ooo = c.ooo /\ x.rcv_nxt = c.rcv_nxt /\ x.state = c.state
      /\ SameOut(c, x) /\ x.fin_received = c.fin_received
  BY <1>1 DEF Connection, SameOut
<1> HIDE DEF x
<1>6. g \o x.rx = got[h] \o c.rx
  <2>1. got[h] \o (p \o q) = (got[h] \o p) \o q
    BY <1>3, Concat3
  <2> QED BY <1>4, <1>5, <2>1, Zenon
<1> HIDE DEF g
<1>7. Passes(c, x.state)
  BY <1>5 DEF Passes
<1>8. SendOK(h, wrote[h], x)
  BY <1>5, <1>7, SendSame DEF Sound
<1>9. RecvOK(Other(h), g, conn[Other(h)], x)
  <2> DEFINE r == got[h] \o c.rx
  <2>1. Blank(r, c) \/ Synced(Other(h), r, conn[Other(h)], c)
    BY DEF Sound, RecvOK
  <2>2. g \o x.rx = r
    BY <1>6
  <2> HIDE DEF r
  <2>3. Blank(r, x) \/ Synced(Other(h), r, conn[Other(h)], x)
    BY <1>5, <2>1 DEF Blank, Synced
  <2> QED BY <2>2, <2>3 DEF RecvOK
<1>10. Acked(h, conn[Other(h)], x)
  BY <1>5 DEF Sound, Acked, SameOut
<1>11. Advances(c, x)
  <2>1. DataEnd(x) = DataEnd(c) /\ x.snd_una = c.snd_una /\ x.snd_nxt = c.snd_nxt
        /\ x.fin_sent = c.fin_sent
    BY <1>5 DEF DataEnd, SameOut
  <2> QED BY <1>1, <1>5, <2>1 DEF Advances
<1> QED BY <1>2, <1>5, <1>6, <1>8, <1>9, <1>10, <1>11 DEF SameOut, g, p

-----------------------------------------------------------------------------
(* handle_segment *)

\* A segment, not a reset, that the peer of h has sent at some time.
Arrives(h, m) ==
    /\ m \in Segment
    /\ Stamped(Other(h), conn[Other(h)], m)
    /\ m.isAck => m.ack <= conn[Other(h)].rcv_nxt

\* A step from c to x that emits nothing and takes nothing from the peer.
Turns(h, c, x) ==
    /\ ConnOK(x) /\ Sound(h, x) /\ Advances(c, x) /\ SameIn(c, x)
    /\ x.close_requested = c.close_requested

\* Such a step is a handler that sends nothing.
LEMMA TurnsQuietly ==
    ASSUME NEW h, NEW c, NEW x, Turns(h, c, x)
    PROVE  Sends(h, c, Quietly(x)) /\ Quietly(x).c = x
  BY StepsQuietly DEF Turns, Sends

\* A handler after such a step.
LEMMA TurnsThen ==
    ASSUME NEW h, NEW c \in Connection, NEW x, Turns(h, c, x), NEW r, Sends(h, x, r)
    PROVE  Sends(h, c, r)
<1>1. x \in Connection
  BY DEF Turns, ConnOK
<1> QED BY <1>1, SendsAfter DEF Turns

\* Two such steps.
LEMMA TurnsTwice ==
    ASSUME NEW h, NEW c \in Connection, NEW x, NEW y, Turns(h, c, x), Turns(h, x, y)
    PROVE  Turns(h, c, y)
<1>1. x \in Connection /\ y \in Connection
  BY DEF Turns, ConnOK
<1>2. Advances(c, y)
  BY <1>1, AdvancesTwice DEF Turns
<1> QED BY <1>2 DEF Turns, SameIn

\* A change of the state or of a field that says nothing of the streams.
LEMMA TurnsKin ==
    ASSUME NEW h, NEW c \in Connection, NEW x, ConnOK(x), Sound(h, c), Kin(c, x),
           Passes(c, x.state)
    PROVE  Turns(h, c, x)
<1>1. x \in Connection
  BY DEF ConnOK
<1> QED BY <1>1, KinSound DEF Turns

\* What a handler that takes nothing leaves behind.
LEMMA TurnsOf ==
    ASSUME NEW h, NEW c, NEW r, Sends(h, c, r)
    PROVE  Turns(h, c, r.c)
  BY DEF Sends, Steps, Turns

\* A handler that emits nothing after one that emitted something.
LEMMA SendsThenTurns ==
    ASSUME NEW h \in Host, NEW c \in Connection, NEW a, Sends(h, c, a), NEW x, Turns(h, a.c, x)
    PROVE  Sends(h, c, Result(x, a.out))
<1> DEFINE q == Quietly(x)
<1>1. Sends(h, a.c, q) /\ q.c = x /\ q.out = <<>>
  BY TurnsQuietly DEF Quietly, Result
<1>2. Sends(h, c, Result(q.c, a.out \o q.out))
  BY <1>1, SendsTwice
<1>3. a.out \o <<>> = a.out
  BY ConcatEmptySeq DEF Sends, Steps
<1> HIDE DEF q
<1> QED BY <1>1, <1>2, <1>3

\* The window the peer offers and an acknowledgement of new data.
LEMMA SlideTurns ==
    ASSUME NEW h \in Host, NEW c, ConnOK(c), Sound(h, c), conn[Other(h)] \in Connection,
           c.state \notin {"Closed", "TimeWait"}, NEW ack \in Nat, NEW wnd \in Nat,
           c.snd_una <= ack, ack <= c.snd_nxt, ack <= conn[Other(h)].rcv_nxt
    PROVE  LET x == SlideTo([c EXCEPT !.snd_wnd = wnd], ack)
           IN  Turns(h, c, x) /\ x.state = c.state /\ x.fin_sent = c.fin_sent
               /\ x.snd_nxt = c.snd_nxt /\ x.snd_una = ack
<1> DEFINE cw == [c EXCEPT !.snd_wnd = wnd]
           x == SlideTo(cw, ack)
<1>1. c \in Connection
  BY DEF ConnOK
<1>2. /\ cw \in Connection /\ Kin(c, cw) /\ cw.state = c.state /\ cw.cc = c.cc
      /\ cw.snd_una = c.snd_una /\ cw.snd_nxt = c.snd_nxt /\ cw.fin_sent = c.fin_sent
      /\ SameReceive(c, cw)
  BY <1>1 DEF Connection, Kin, SameOut, SameReceive
<1>3. ConnOK(x)
  <2>1. c.snd_una + c.cc.in_flight = c.snd_nxt
    BY DEF ConnOK, FlightOK
  <2> QED BY <2>1, SlideOK
<1> HIDE DEF cw
<1>4. ConnOK(cw)
  BY <1>2, SetOK
<1>5. Turns(h, c, cw)
  <2>1. Passes(c, cw.state)
    BY <1>2 DEF Passes
  <2> QED BY <1>1, <1>2, <1>4, <2>1, TurnsKin
<1>6. Sound(h, x) /\ Advances(cw, x) /\ SameIn(cw, x)
  BY <1>2, <1>5, SlideSound DEF Turns
<1>7. /\ x.state = cw.state /\ x.fin_sent = cw.fin_sent /\ x.snd_nxt = cw.snd_nxt
      /\ x.snd_una = ack /\ x.close_requested = cw.close_requested
  BY <1>2, SlideShape
<1> HIDE DEF x
<1>8. Turns(h, c, x)
  BY <1>1, <1>3, <1>5, <1>6, <1>7, TurnsTwice DEF Turns
<1> QED BY <1>2, <1>7, <1>8 DEF x, cw

\* A change of the state alone.
LEMMA StateTurns ==
    ASSUME NEW h, NEW c, ConnOK(c), Sound(h, c), NEW t \in TcpState \ {"Listen", "SynSent"},
           t \in {"Closed", "TimeWait"} \/ c.state \notin {"Closed", "TimeWait"}, Passes(c, t)
    PROVE  Turns(h, c, [c EXCEPT !.state = t])
<1> DEFINE x == [c EXCEPT !.state = t]
<1>1. c \in Connection
  BY DEF ConnOK
<1>2. ConnOK(x)
  BY ChangeStateOK
<1>3. Kin(c, x) /\ x.state = t
  BY <1>1 DEF Connection, Kin, SameOut, SameReceive
<1> HIDE DEF x
<1>4. Turns(h, c, x)
  BY <1>1, <1>2, <1>3, TurnsKin
<1> QED BY <1>4 DEF x

\* Once the handshake is over the receive side is synchronised.
LEMMA IsSynced ==
    ASSUME NEW h, NEW c, Sound(h, c), c.state \notin {"Closed", "Listen", "SynSent"}
    PROVE  Synced(Other(h), got[h] \o c.rx, conn[Other(h)], c)
  BY DEF Sound, RecvOK, Blank

\* The acknowledgement of everything, in CLOSING and LAST_ACK
LEMMA OnFinalAckSends ==
    ASSUME TypeOK, NEW h \in Host, NEW c, ConnOK(c), Sound(h, c), NEW m, Arrives(h, m),
           c.state \in {"Closing", "LastAck"}, NEW next \in {"TimeWait", "Closed"}
    PROVE  Sends(h, c, OnFinalAck(c, m, next))
<1> DEFINE y == SlideTo(c, m.ack)
           x == [y EXCEPT !.state = next]
<1>1. OnFinalAck(c, m, next) = IF m.isAck /\ m.ack >= c.snd_nxt THEN Quietly(x) ELSE Quietly(c)
  BY DEF OnFinalAck
<1>2. CASE ~(m.isAck /\ m.ack >= c.snd_nxt)
  BY <1>1, <1>2, SendsNothing
<1>3. CASE m.isAck /\ m.ack >= c.snd_nxt
  <2>1. /\ c \in Connection /\ m \in Segment /\ m.ack \in Nat /\ conn[Other(h)] \in Connection
        /\ m.ack <= conn[Other(h)].rcv_nxt
    BY <1>3, Context DEF ConnOK, Arrives, Segment
  <2>2. c.snd_una <= m.ack
    <3>1. c.snd_una + c.cc.in_flight = c.snd_nxt
      BY DEF ConnOK, FlightOK
    <3>2. c.snd_una \in Nat /\ c.cc.in_flight \in Nat /\ c.snd_nxt \in Nat
      BY <2>1 DEF Connection, CongestionControl
    <3> QED BY <1>3, <2>1, <3>1, <3>2
  <2>3. Sound(h, y) /\ Advances(c, y) /\ SameIn(c, y)
    BY <2>1, <2>2, SlideSound
  <2>4. y \in Connection /\ y.state = c.state /\ y.close_requested = c.close_requested
    BY <2>1, SlideShape
  <2>5. ConnOK(x)
    <3>1. OnFinalAck(c, m, next).c = x
      BY <1>1, <1>3 DEF Quietly, Result
    <3> QED BY <2>1, <3>1, OnFinalAckOK DEF Keeps
  <2> HIDE DEF y
  <2>6. Kin(y, x) /\ x.state = next /\ x.close_requested = y.close_requested
    BY <2>4 DEF Connection, Kin, SameOut, SameReceive
  <2> HIDE DEF x
  <2>7. Passes(y, x.state)
    BY <2>4, <2>6 DEF Passes
  <2>8. Turns(h, y, x)
    BY <2>3, <2>4, <2>5, <2>6, <2>7, TurnsKin
  <2>9. Turns(h, c, x)
    <3>1. x \in Connection
      BY <2>5 DEF ConnOK
    <3>2. Advances(c, x)
      BY <2>1, <2>3, <2>4, <2>8, <3>1, AdvancesTwice DEF Turns
    <3> QED BY <2>3, <2>4, <2>8, <3>2 DEF Turns, SameIn
  <2> QED BY <1>1, <1>3, <2>9, TurnsQuietly
<1> QED BY <1>2, <1>3

\* TIME_WAIT acknowledges a FIN once more.
LEMMA OnTimeWaitSends ==
    ASSUME NEW h, NEW c, ConnOK(c), Sound(h, c), NEW m
    PROVE  Sends(h, c, OnTimeWait(c, m))
<1> DEFINE a == AckSegment(c, c.snd_nxt)
<1>1. OnTimeWait(c, m) = IF m.fin THEN Result(c, <<a>>) ELSE Quietly(c)
  BY DEF OnTimeWait
<1>2. c \in Connection /\ c.snd_nxt \in Nat
  BY DEF ConnOK, Connection
<1>3. a \in Segment /\ PlainAck(c, a)
  BY <1>2, AckSegmentOK DEF AckSegment, PlainAck
<1> HIDE DEF a
<1>4. SegOK(h, c, a)
  BY <1>2, <1>3, PlainAckGood
<1>5. Sends(h, c, Result(c, <<a>>))
  BY <1>2, <1>3, <1>4, AdvancesSame, SendsOne DEF SameIn
<1> QED BY <1>1, <1>5, SendsNothing

\* CLOSE_WAIT: the peer's stream is complete, ours is still being acknowledged.
LEMMA OnCloseWaitSends ==
    ASSUME TypeOK, NEW h \in Host, NEW c, ConnOK(c), Sound(h, c), NEW m, Arrives(h, m),
           c.state = "CloseWait"
    PROVE  Sends(h, c, OnCloseWait(c, m))
<1> DEFINE s == m.isAck /\ c.snd_una < m.ack /\ m.ack <= c.snd_nxt
           x == SlideTo([c EXCEPT !.snd_wnd = m.wnd], m.ack)
           c1 == IF s THEN x ELSE c
<1>1. /\ c \in Connection /\ m \in Segment /\ m.ack \in Nat /\ m.wnd \in Nat
      /\ conn[Other(h)] \in Connection /\ c.snd_una \in Nat
      /\ m.isAck => m.ack <= conn[Other(h)].rcv_nxt
  BY Context DEF ConnOK, Arrives, Segment, Connection
<1>2. Turns(h, c, c)
  BY <1>1, AdvancesSame DEF Turns, SameIn
<1>3. s => Turns(h, c, x)
  <2> SUFFICES ASSUME s PROVE Turns(h, c, x)
    OBVIOUS
  <2>1. c.snd_una <= m.ack
    BY <1>1
  <2> QED BY <1>1, <2>1, SlideTurns
<1>4. Turns(h, c, c1)
  BY <1>2, <1>3
<1>5. OnCloseWait(c, m) = IF m.fin THEN BuildAck(c1) ELSE Quietly(c1)
  BY DEF OnCloseWait
<1> HIDE DEF c1
<1>6. Sends(h, c, Quietly(c1))
  BY <1>4, TurnsQuietly
<1>7. Sends(h, c, BuildAck(c1))
  BY <1>1, <1>4, BuildAckSends, TurnsThen DEF Turns
<1> QED BY <1>5, <1>6, <1>7

\* Where the peer's stream begins, from a segment with its SYN.
LEMMA SynKnown ==
    ASSUME NEW o \in Host, NEW d \in Connection, NEW w \in Nat, SendOK(o, w, d),
           NEW m \in Segment, Stamped(o, d, m), m.syn
    PROVE  m.seq = Isn[o] /\ Isn[o] < DataEnd(d)
<1>1. m.seq = Isn[o] /\ m.data = <<>> /\ ~m.fin /\ FinSeq(m) + Bit(m.fin) <= d.snd_nxt
  BY DEF Stamped
<1>2. Isn[o] \in Nat /\ d.snd_nxt \in Nat /\ DataEnd(d) \in Int
  BY HostData, ConnTypes
<1>3. FinSeq(m) + Bit(m.fin) = Isn[o] + 1
  <2>1. Len(<<>>) = 0
    OBVIOUS
  <2> QED BY <1>1, <1>2, <2>1 DEF FinSeq, Bit
<1>4. CASE d.fin_sent
  <2>1. d.tx = <<>> /\ DataEnd(d) + Len(d.tx) = Isn[o] + 1 + w
    BY <1>4 DEF SendOK
  <2>2. Len(<<>>) = 0
    OBVIOUS
  <2>3. DataEnd(d) + 0 = Isn[o] + 1 + w
    BY <2>1, <2>2
  <2> QED BY <1>1, <1>2, <2>3
<1>5. CASE ~d.fin_sent
  <2>1. DataEnd(d) = d.snd_nxt
    BY <1>2, <1>5 DEF DataEnd, Bit
  <2> QED BY <1>1, <1>2, <1>3, <2>1
<1> QED BY <1>4, <1>5

\* The first number of the peer makes the receive side synchronised.
LEMMA OpensSynced ==
    ASSUME NEW o \in Host, NEW g, NEW d, NEW c, NEW x, RecvOK(o, g, d, c),
           c.state \in {"Listen", "SynSent"}, x.state \notin {"Listen", "SynSent"},
           x.rx = c.rx, x.ooo = c.ooo, x.fin_received = c.fin_received,
           x.rcv_nxt = Isn[o] + 1, Isn[o] < DataEnd(d)
    PROVE  RecvOK(o, g, d, x) /\ c.rcv_nxt = 0 /\ ~c.fin_received
<1>1. Blank(g \o c.rx, c)
  BY DEF RecvOK, Synced
<1>2. c.rcv_nxt = 0 /\ g \o c.rx = <<>> /\ c.ooo = {} /\ ~c.fin_received
  BY <1>1 DEF Blank
<1>3. g \o x.rx = <<>> /\ x.ooo = {} /\ ~x.fin_received
  BY <1>2
<1> DEFINE r == g \o x.rx
<1>4. r = <<>>
  BY <1>3
<1> HIDE DEF r
<1>5. Isn[o] \in Nat /\ Len(r) = 0
  BY <1>4, HostData
<1>6. x.rcv_nxt = Isn[o] + 1 + Len(r) + Bit(x.fin_received)
  BY <1>3, <1>5 DEF Bit
<1>7. Carries(o, Isn[o] + 1, r, DataEnd(d))
  BY <1>4, CarriesNothing
<1>8. Synced(o, r, d, x)
  BY <1>3, <1>6, <1>7 DEF Synced
<1> QED BY <1>2, <1>8 DEF RecvOK, r

\* LISTEN: the SYN-ACK takes the first number of our stream.
LEMMA OnListenSends ==
    ASSUME TypeOK, NEW h \in Host, NEW c, ConnOK(c), Sound(h, c),
           Sound(Other(h), conn[Other(h)]), NEW m, Arrives(h, m), c.state = "Listen"
    PROVE  Sends(h, c, OnListen(c, m))
<1> DEFINE o == Other(h)
           d == conn[o]
           k == c.snd_nxt + 1
           n == m.seq + 1
           c1 == [c EXCEPT !.rcv_nxt = n, !.snd_wnd = m.wnd, !.snd_nxt = k,
                           !.state = "SynReceived"]
           a == AckSegment(c1, c.snd_nxt)
           b == [a EXCEPT !.syn = TRUE, !.mss = c.local_mss, !.sackOk = c.sack_permitted]
           e == RtqEntry(c.snd_nxt, 1, TRUE, TRUE, FALSE, <<>>)
           x == TrackForRetransmit(c1, e)
<1>1. OnListen(c, m) = IF m.syn THEN Result(x, <<b>>) ELSE Quietly(c)
  BY DEF OnListen
<1>2. CASE ~m.syn
  BY <1>1, <1>2, SendsNothing
<1>3. CASE m.syn
  <2>1. /\ c \in Connection /\ c.snd_nxt \in Nat /\ c.local_mss \in Nat
        /\ c.sack_permitted \in BOOLEAN /\ m \in Segment /\ m.seq \in Nat /\ m.wnd \in Nat
        /\ Stamped(o, d, m) /\ SendOK(o, wrote[o], d)
    BY DEF ConnOK, Connection, Arrives, Segment, Sound
  <2>2. o \in Host /\ d \in Connection /\ wrote[o] \in Nat /\ Isn[h] \in Nat /\ Isn[o] \in Nat
    BY Context, TwoHosts, HostData
  <2>3. m.seq = Isn[o] /\ Isn[o] < DataEnd(d)
    BY <1>3, <2>1, <2>2, SynKnown
  <2>4. ConnOK(x) /\ OnListen(c, m) = Result(x, <<b>>)
    <3>1. OnListen(c, m).c = x
      BY <1>1, <1>3 DEF Result
    <3> QED BY <1>1, <1>3, <2>1, <3>1, OnListenOK DEF Keeps
  <2>5. /\ SendOK(h, wrote[h], c) /\ Tracks(c) /\ c.tx = <<>> /\ wrote[h] = 0
        /\ c.snd_nxt = Isn[h] /\ ~c.fin_sent
    BY DEF Sound, SendOK
  <2>6. k \in Nat /\ n \in Nat /\ k = Isn[h] + 1 /\ n = Isn[o] + 1
    BY <2>1, <2>2, <2>3, <2>5
  <2> HIDE DEF k, n
  <2>7. /\ c1 \in Connection /\ c1.rcv_nxt = n /\ c1.snd_nxt = k /\ c1.state = "SynReceived"
        /\ c1.snd_una = c.snd_una /\ c1.rtq = c.rtq /\ c1.tx = c.tx /\ c1.rx = c.rx
        /\ c1.ooo = c.ooo /\ c1.fin_sent = c.fin_sent /\ c1.fin_received = c.fin_received
        /\ c1.close_requested = c.close_requested
    BY <2>1, <2>6 DEF Connection, TcpState
  <2> HIDE DEF c1
  <2>8. a \in Segment
    BY <2>1, <2>7, AckSegmentOK
  <2>9. a.seq = c.snd_nxt /\ a.ack = c1.rcv_nxt /\ a.fin = FALSE /\ a.data = <<>> /\ a.isAck
    BY DEF AckSegment
  <2> HIDE DEF a
  <2>10. /\ b \in Segment /\ b.seq = c.snd_nxt /\ b.ack = c1.rcv_nxt /\ b.syn = TRUE /\ b.isAck
         /\ b.fin = FALSE /\ b.data = <<>>
    BY <2>1, <2>8, <2>9 DEF Segment
  <2> HIDE DEF b
  <2>11. c1.snd_nxt = c.snd_nxt + 1 /\ TRUE \in BOOLEAN /\ FALSE \in BOOLEAN
         /\ c1 \in Connection /\ c1.snd_una = c.snd_una /\ c1.rtq = c.rtq
         /\ c \in Connection /\ Tracks(c) /\ c.state # "Closed"
    BY <2>1, <2>5, <2>7 DEF k
  <2>12. /\ x \in Connection /\ Tracks(x) /\ x.rtq = c.rtq \cup {e}
         /\ x.snd_una = c1.snd_una /\ x.snd_nxt = c1.snd_nxt /\ x.tx = c1.tx
         /\ x.fin_sent = c1.fin_sent /\ x.close_requested = c1.close_requested
         /\ x.fin_received = c1.fin_received /\ SameReceive(c1, x)
         /\ x.state = c1.state
         /\ e.seq = c.snd_nxt /\ e.syn = TRUE /\ e.isAck = TRUE /\ e.fin = FALSE
         /\ e.data = <<>>
    BY <2>11, NumberedShape
  <2> HIDE DEF x, e
  <2>13. /\ x.snd_una = c.snd_una /\ x.snd_nxt = Isn[h] + 1 /\ x.tx = <<>>
         /\ x.fin_sent = c.fin_sent /\ x.close_requested = c.close_requested
         /\ x.fin_received = c.fin_received /\ x.rx = c.rx
         /\ x.rcv_nxt = Isn[o] + 1 /\ x.ooo = c.ooo /\ x.state = "SynReceived"
    BY <2>5, <2>6, <2>7, <2>12 DEF SameReceive
  <2>14. RecvOK(o, got[h], d, x) /\ c.rcv_nxt = 0
    <3>1. RecvOK(o, got[h], d, c)
      BY DEF Sound
    <3>2. x.state \notin {"Listen", "SynSent"} /\ c.state \in {"Listen", "SynSent"}
      BY <2>13
    <3> HIDE DEF o, d
    <3> QED BY <2>2, <2>3, <2>13, <3>1, <3>2, OpensSynced
  <2>15. DataEnd(x) = Isn[h] + 1 /\ DataEnd(c) = Isn[h]
    BY <2>2, <2>5, <2>13 DEF DataEnd, Bit
  <2>16. Advances(c, x)
    <3>1. c.snd_una \in Nat
      BY <2>1, ConnTypes
    <3> QED BY <2>2, <2>5, <2>13, <2>14, <2>15, <3>1 DEF Advances
  <2>17. ASSUME NEW f, f.seq = Isn[h], f.syn = TRUE, f.isAck, f.fin = FALSE, f.data = <<>>
         PROVE  Stamped(h, x, f)
    <3>1. FinSeq(f) + Bit(f.fin) = Isn[h] + 1
      <4>1. Len(<<>>) = 0
        OBVIOUS
      <4> QED BY <2>2, <2>17, <4>1 DEF FinSeq, Bit
    <3>2. Carries(h, f.seq, f.data, DataEnd(x))
      BY <2>17, CarriesNothing
    <3>3. Isn[h] + 1 <= x.snd_nxt
      BY <2>2, <2>13
    <3> QED BY <2>13, <2>17, <3>1, <3>2, <3>3 DEF Stamped
  <2>18. SendOK(h, wrote[h], x)
    <3>1. Carries(h, x.snd_nxt, x.tx, x.snd_nxt + Len(x.tx))
      BY <2>13, CarriesNothing
    <3>2. DataEnd(x) + Len(x.tx) = Isn[h] + 1 + wrote[h]
      <4>1. Len(x.tx) = 0 /\ wrote[h] = 0
        BY <2>5, <2>13
      <4> QED BY <2>2, <2>15, <4>1
    <3>3. \A f \in x.rtq : Stamped(h, x, f)
      <4> SUFFICES ASSUME NEW f \in x.rtq PROVE Stamped(h, x, f)
        OBVIOUS
      <4>1. CASE f = e
        BY <2>5, <2>12, <2>17, <4>1
      <4>2. CASE f \in c.rtq
        <5>1. f.seq \in Nat /\ f.data \in Seq(Byte) /\ f.fin \in BOOLEAN
          BY <2>1, <4>2, ConnTypes DEF RetransmitSegment
        <5>2. Stamped(h, c, f)
          BY <2>5, <4>2 DEF SendOK
        <5> QED BY <2>1, <2>12, <2>16, <5>1, <5>2, StampedLater
      <4> QED BY <2>12, <4>1, <4>2
    <3>4. /\ Isn[h] < x.snd_nxt /\ Isn[h] <= x.snd_nxt /\ wrote[h] <= Len(AppData[h])
          /\ DataEnd(x) + Len(x.tx) <= Isn[h] + 1 + wrote[h]
      <4>1. Len(AppData[h]) \in Nat
        BY HostData
      <4> QED BY <2>2, <2>5, <2>13, <3>2, <4>1
    <3> QED BY <2>5, <2>12, <2>13, <3>1, <3>2, <3>3, <3>4 DEF SendOK
  <2>19. Sound(h, x) /\ SameIn(c, x)
    BY <2>13, <2>14, <2>18 DEF Sound, Acked, SameIn
  <2>20. SegOK(h, x, b)
    <3>1. b.ack <= x.rcv_nxt
      BY <2>2, <2>6, <2>7, <2>10, <2>13
    <3> QED BY <2>5, <2>10, <2>17, <3>1 DEF SegOK
  <2>21. Sends(h, c, Result(x, <<b>>))
    BY <2>1, <2>4, <2>10, <2>13, <2>16, <2>19, <2>20, SendsOne
  <2> QED BY <2>4, <2>21
<1> QED BY <1>2, <1>3

\* SYN_SENT: the SYN-ACK completes the open; of a bare SYN the peer is not capable.
LEMMA OnSynSentSends ==
    ASSUME OneOpener, TypeOK, NEW h \in Host, NEW c, ConnOK(c), Sound(h, c),
           Sound(Other(h), conn[Other(h)]), NEW m, Arrives(h, m), c.state = "SynSent"
    PROVE  Sends(h, c, OnSynSent(c, m))
<1> DEFINE o == Other(h)
           d == conn[o]
           y == SlideTo(c, m.ack)
           n == m.seq + 1
           x == [y EXCEPT !.rcv_nxt = n, !.snd_wnd = m.wnd, !.state = "Established"]
           a == AckSegment(x, x.snd_nxt)
           half == [c EXCEPT !.rcv_nxt = n, !.state = "SynReceived"]
           s == <<[AckSegment(half, half.snd_nxt) EXCEPT !.syn = TRUE]>>
<1>1. OnSynSent(c, m) =
        IF m.syn /\ m.isAck
        THEN IF m.ack = c.snd_nxt THEN Result(x, <<a>>) ELSE Quietly(c)
        ELSE IF m.syn THEN Result(half, s) ELSE Quietly(c)
  BY DEF OnSynSent
<1>2. /\ c \in Connection /\ m \in Segment /\ m.seq \in Nat /\ m.wnd \in Nat /\ m.ack \in Nat
      /\ Stamped(o, d, m) /\ (m.isAck => m.ack <= d.rcv_nxt) /\ SendOK(o, wrote[o], d)
      /\ SendOK(h, wrote[h], c)
  BY DEF ConnOK, Arrives, Segment, Sound
<1>3. /\ o \in Host /\ d \in Connection /\ wrote[o] \in Nat /\ Isn[h] \in Nat /\ Isn[o] \in Nat
      /\ o # h
  BY Context, TwoHosts, HostData
<1>4. m.syn => m.isAck
  <2>1. h \in Clients
    BY <1>2 DEF SendOK
  <2>2. m.syn => m.isAck \/ o \in Clients
    BY <1>2 DEF Stamped
  <2> QED BY <1>3, <2>1, <2>2 DEF OneOpener
<1>5. CASE ~(m.syn /\ m.isAck /\ m.ack = c.snd_nxt)
  <2>1. OnSynSent(c, m) = Quietly(c)
    BY <1>1, <1>4, <1>5
  <2> QED BY <2>1, SendsNothing
<1>6. CASE m.syn /\ m.isAck /\ m.ack = c.snd_nxt
  <2> HIDE DEF half, s
  <2>1. m.seq = Isn[o] /\ Isn[o] < DataEnd(d)
    BY <1>2, <1>3, <1>6, SynKnown
  <2>2. ConnOK(x) /\ OnSynSent(c, m) = Result(x, <<a>>)
    <3>1. OnSynSent(c, m).c = x
      BY <1>1, <1>6 DEF Result
    <3> QED BY <1>1, <1>2, <1>6, <3>1, OnSynSentOK DEF Keeps
  <2>3. c.snd_una <= m.ack
    <3>1. c.snd_una + c.cc.in_flight = c.snd_nxt
      BY DEF ConnOK, FlightOK
    <3>2. c.snd_una \in Nat /\ c.cc.in_flight \in Nat /\ c.snd_nxt \in Nat
      BY <1>2 DEF Connection, CongestionControl
    <3> QED BY <1>2, <1>6, <3>1, <3>2
  <2>4. Sound(h, y) /\ Advances(c, y) /\ SameIn(c, y)
    BY <1>2, <1>3, <1>6, <2>3, SlideSound
  <2>5. /\ y \in Connection /\ y.state = c.state /\ y.close_requested = c.close_requested
        /\ SameReceive(c, y) /\ y.fin_received = c.fin_received
    BY <1>2, SlideShape
  <2>6. n \in Nat /\ n = Isn[o] + 1
    BY <1>2, <2>1
  <2> HIDE DEF y, n
  <2>7. /\ SameOut(y, x) /\ x.state = "Established" /\ x.rcv_nxt = n /\ x.rx = y.rx
        /\ x.ooo = y.ooo /\ x.fin_received = y.fin_received
    BY <2>5 DEF Connection, SameOut
  <2> HIDE DEF x
  <2>8. x \in Connection
    BY <2>2 DEF ConnOK
  <2>9. RecvOK(o, got[h], d, x) /\ y.rcv_nxt = 0
    <3>1. RecvOK(o, got[h], d, y)
      BY <2>4 DEF Sound
    <3>2. y.state \in {"Listen", "SynSent"} /\ x.state \notin {"Listen", "SynSent"}
          /\ x.rcv_nxt = Isn[o] + 1
      BY <2>5, <2>6, <2>7
    <3> HIDE DEF o, d
    <3> QED BY <1>3, <2>1, <2>7, <3>1, <3>2, OpensSynced
  <2>10. SendOK(h, wrote[h], x)
    <3>1. /\ SendOK(h, wrote[h], y) /\ y.state = "SynSent" /\ ~y.fin_sent
      BY <2>4, <2>5 DEF Sound, SendOK
    <3>2. /\ x.snd_una = y.snd_una /\ x.snd_nxt = y.snd_nxt /\ x.tx = y.tx /\ x.rtq = y.rtq
          /\ x.fin_sent = y.fin_sent /\ x.close_requested = y.close_requested
      BY <2>7 DEF SameOut
    <3>3. DataEnd(x) = DataEnd(y)
      BY <3>2 DEF DataEnd
    <3>4. \A e \in x.rtq : Stamped(h, x, e)
      BY <3>1, <3>2, StampedSame DEF SendOK
    <3>5. Tracks(x)
      BY <3>1, <3>2 DEF SendOK, Tracks
    <3> QED BY <2>7, <3>1, <3>2, <3>3, <3>4, <3>5 DEF SendOK
  <2>11. Sound(h, x) /\ SameIn(y, x)
    BY <2>4, <2>7, <2>9, <2>10 DEF Sound, SameIn, Acked, SameOut
  <2>12. Advances(y, x)
    <3>1. /\ x.snd_una = y.snd_una /\ x.snd_nxt = y.snd_nxt /\ DataEnd(x) = DataEnd(y)
          /\ x.fin_sent = y.fin_sent
      BY <2>7 DEF SameOut, DataEnd
    <3>2. y.snd_una \in Nat /\ y.snd_nxt \in Nat /\ x.rcv_nxt \in Nat /\ DataEnd(y) \in Int
      BY <2>5, <2>8, ConnTypes
    <3> QED BY <2>9, <3>1, <3>2 DEF Advances
  <2>13. Advances(c, x) /\ SameIn(c, x) /\ x.close_requested = c.close_requested
    BY <1>2, <2>4, <2>5, <2>7, <2>8, <2>11, <2>12, AdvancesTwice DEF SameIn, SameOut
  <2>14. a \in Segment /\ PlainAck(x, a)
    <3>1. x.snd_nxt \in Nat
      BY <2>8, ConnTypes
    <3> QED BY <2>8, <3>1, AckSegmentOK DEF AckSegment, PlainAck
  <2> HIDE DEF a
  <2>15. SegOK(h, x, a)
    BY <2>8, <2>14, PlainAckGood
  <2>16. Sends(h, c, Result(x, <<a>>))
    BY <1>2, <2>2, <2>11, <2>13, <2>14, <2>15, SendsOne
  <2> QED BY <2>2, <2>16
<1> QED BY <1>5, <1>6

\* A handler that takes something, after a step that emitted nothing.
LEMMA TurnsThenMoves ==
    ASSUME NEW h, NEW c \in Connection, NEW x, Turns(h, c, x), NEW r, Moves(h, x, r)
    PROVE  Moves(h, c, r)
<1>1. x \in Connection /\ r.c \in Connection /\ Advances(c, x) /\ Advances(x, r.c)
      /\ x.rx = c.rx /\ x.fin_received = c.fin_received
  BY DEF Turns, Moves, Steps, ConnOK, SameIn
<1>2. Advances(c, r.c)
  BY <1>1, AdvancesTwice
<1>3. Took(c, r.c)
  <2>1. Took(x, r.c) /\ c.rcv_nxt <= r.c.rcv_nxt
    BY <1>2 DEF Moves, Advances
  <2> QED BY <1>1, <2>1 DEF Took, Extends
<1> QED BY <1>2, <1>3 DEF Moves, Steps, Turns

\* The same, after one that did.
LEMMA SendsThenMoves ==
    ASSUME NEW h \in Host, NEW c \in Connection, NEW a, Sends(h, c, a), NEW x,
           Moves(h, a.c, Quietly(x))
    PROVE  Moves(h, c, Result(x, a.out))
<1> DEFINE q == Quietly(x)
<1>1. q.c = x /\ q.out = <<>> /\ Moves(h, a.c, q)
  BY DEF Quietly, Result
<1> HIDE DEF q
<1>2. Steps(h, c, Result(q.c, a.out \o q.out))
  BY <1>1, StepsTwice DEF Sends, Moves
<1>3. a.out \o <<>> = a.out
  BY ConcatEmptySeq DEF Sends, Steps
<1>4. Steps(h, c, Result(x, a.out)) /\ Result(x, a.out).c = x
  BY <1>1, <1>2, <1>3 DEF Result
<1>5. Turns(h, c, a.c)
  BY TurnsOf
<1>6. Moves(h, c, q)
  BY <1>1, <1>5, TurnsThenMoves
<1> QED BY <1>1, <1>4, <1>6 DEF Moves

\* A handler that emits nothing and takes nothing, after one that took something.
LEMMA MovesThenTurns ==
    ASSUME NEW h \in Host, NEW c \in Connection, NEW a, Moves(h, c, a), NEW x, Turns(h, a.c, x)
    PROVE  Moves(h, c, Result(x, a.out))
<1> DEFINE q == Quietly(x)
<1>1. Sends(h, a.c, q) /\ q.c = x /\ q.out = <<>>
  BY TurnsQuietly DEF Quietly, Result
<1>2. Moves(h, c, Result(q.c, a.out \o q.out))
  BY <1>1, MovesThenSends
<1>3. a.out \o <<>> = a.out
  BY ConcatEmptySeq DEF Moves, Steps
<1> HIDE DEF q
<1> QED BY <1>1, <1>2, <1>3

\* A handler that takes nothing, after one that took something and emitted nothing.
LEMMA TookThenSends ==
    ASSUME NEW h \in Host, NEW c \in Connection, NEW x, Moves(h, c, Quietly(x)), NEW r,
           Sends(h, x, r)
    PROVE  Moves(h, c, r)
<1> DEFINE q == Quietly(x)
<1>1. q.c = x /\ q.out = <<>> /\ Moves(h, c, q)
  BY DEF Quietly, Result
<1> HIDE DEF q
<1>2. Moves(h, c, Result(r.c, q.out \o r.out))
  BY <1>1, MovesThenSends
<1>3. <<>> \o r.out = r.out
  BY ConcatEmptySeq DEF Sends, Steps
<1>4. Moves(h, c, Result(r.c, r.out))
  BY <1>1, <1>2, <1>3
<1>5. Result(r.c, r.out).c = r.c /\ Result(r.c, r.out).out = r.out
  BY DEF Result
<1> QED BY <1>4, <1>5 DEF Moves, Steps

\* The payload of a segment
LEMMA AcceptMoves ==
    ASSUME TypeOK, NEW h \in Host, NEW c, ConnOK(c), Sound(h, c), NEW m, Arrives(h, m),
           c.state \in {"Established", "FinWait1", "FinWait2"}
    PROVE  LET x == AcceptData(c, m.seq, m.data)
           IN  /\ Moves(h, c, Quietly(x)) /\ x.state = c.state
               /\ m.data = <<>> => x = c
<1> DEFINE o == Other(h)
           d == conn[o]
           g == got[h]
           data == m.data
           x == AcceptData(c, m.seq, data)
<1>1. /\ o \in Host /\ d \in Connection /\ g \in Seq(Byte) /\ c \in Connection
      /\ m.seq \in Nat /\ data \in Seq(Byte) /\ Carries(o, m.seq, data, DataEnd(d))
  BY TwoHosts, Context DEF ConnOK, Arrives, Stamped, Segment
<1>2. Synced(o, g \o c.rx, d, c) /\ ~c.fin_received
  BY IsSynced DEF Synced
<1>3. /\ Synced(o, g \o x.rx, d, x) /\ Extends(c, x) /\ SameOut(c, x)
      /\ x.state = c.state /\ x.fin_received = c.fin_received
      /\ data = <<>> => x = c
  <2> HIDE DEF o, d, g, data
  <2> QED BY <1>1, <1>2, AcceptSynced
<1>4. ConnOK(x)
  BY <1>1, AcceptDataOK
<1> HIDE DEF x
<1>5. x \in Connection
  BY <1>4 DEF ConnOK
<1>6. Sound(h, x)
  <2>1. Passes(c, x.state)
    BY <1>3 DEF Passes
  <2>2. SendOK(h, wrote[h], x)
    BY <1>3, <2>1, SendSame DEF Sound
  <2>3. RecvOK(o, g, d, x)
    BY <1>3 DEF RecvOK
  <2> QED BY <1>3, <2>2, <2>3 DEF Sound, Acked, SameOut
<1>7. Advances(c, x)
  <2>1. DataEnd(x) = DataEnd(c) /\ x.snd_una = c.snd_una /\ x.snd_nxt = c.snd_nxt
        /\ x.fin_sent = c.fin_sent
    BY <1>3 DEF SameOut, DataEnd
  <2>2. c.snd_una \in Nat /\ c.snd_nxt \in Nat /\ DataEnd(c) \in Int
    BY <1>1, ConnTypes
  <2> QED BY <1>3, <2>1, <2>2 DEF Advances, Extends
<1>8. Steps(h, c, Quietly(x)) /\ Quietly(x).c = x
  BY <1>3, <1>4, <1>6, <1>7, StepsQuietly DEF SameOut
<1>9. Took(c, x)
  BY <1>2, <1>3 DEF Took
<1> QED BY <1>3, <1>8, <1>9 DEF Moves, x

\* SYN_RECEIVED: the acknowledgement of our SYN, perhaps with the first data.
LEMMA OnSynReceivedMoves ==
    ASSUME TypeOK, NEW h \in Host, NEW c, ConnOK(c), Sound(h, c), NEW m, Arrives(h, m),
           c.state = "SynReceived"
    PROVE  Moves(h, c, OnSynReceived(c, m))
<1> DEFINE w == [c EXCEPT !.snd_wnd = m.wnd]
           y == SlideTo(w, m.ack)
           x == [y EXCEPT !.state = "Established"]
           z == AcceptData(x, m.seq, m.data)
<1>1. /\ c \in Connection /\ m \in Segment /\ m.ack \in Nat /\ m.wnd \in Nat
      /\ conn[Other(h)] \in Connection /\ c.snd_una \in Nat /\ c.snd_nxt \in Nat
      /\ m.isAck => m.ack <= conn[Other(h)].rcv_nxt
  BY Context DEF ConnOK, Arrives, Segment, Connection
<1>2. [SlideTo(c, m.ack) EXCEPT !.snd_wnd = m.wnd, !.state = "Established"] = x
  <2> DEFINE n == Monus(m.ack, c.snd_una)
             cc == OnAck(c.cc, n)
             q == RetireAcked(c.rtq, m.ack)
  <2>1. SlideTo(c, m.ack) = [c EXCEPT !.snd_una = m.ack, !.cc = cc, !.rtq = q]
    BY DEF SlideTo
  <2>2. w.cc = c.cc /\ w.snd_una = c.snd_una /\ w.rtq = c.rtq
    BY <1>1 DEF Connection
  <2>3. y = [w EXCEPT !.snd_una = m.ack, !.cc = cc, !.rtq = q]
    BY <2>2 DEF SlideTo
  <2> HIDE DEF cc, q, y, n
  <2> QED BY <1>1, <2>1, <2>3 DEF Connection
<1>3. OnSynReceived(c, m) =
        IF ~(m.isAck /\ m.ack = c.snd_nxt) THEN Quietly(c)
        ELSE IF m.data = <<>> THEN Quietly(x) ELSE BuildAck(z)
  BY <1>2 DEF OnSynReceived
<1>4. CASE ~(m.isAck /\ m.ack = c.snd_nxt)
  BY <1>1, <1>3, <1>4, SendsNothing, SendsMoves
<1>5. CASE m.isAck /\ m.ack = c.snd_nxt
  <2>1. c.snd_una <= m.ack /\ m.ack <= c.snd_nxt
    <3>1. c.snd_una + c.cc.in_flight = c.snd_nxt
      BY DEF ConnOK, FlightOK
    <3>2. c.cc.in_flight \in Nat
      BY <1>1 DEF Connection, CongestionControl
    <3> QED BY <1>1, <1>5, <3>1, <3>2
  <2>2. Turns(h, c, y) /\ y.state = c.state
    BY <1>1, <1>5, <2>1, SlideTurns
  <2>3. ConnOK(y) /\ Sound(h, y)
    BY <2>2 DEF Turns
  <2> HIDE DEF y
  <2>4. Turns(h, y, x) /\ x.state = "Established"
    <3>1. ~y.fin_sent /\ ~y.fin_received
      <4>1. Synced(Other(h), got[h] \o y.rx, conn[Other(h)], y)
        BY <2>2, <2>3, IsSynced
      <4> QED BY <2>2, <2>3, <4>1 DEF Synced, Sound, SendOK
    <3>2. Passes(y, "Established") /\ "Established" \in TcpState \ {"Listen", "SynSent"}
      BY <2>2, <3>1 DEF Passes, TcpState
    <3>3. x.state = "Established"
      BY <2>3 DEF ConnOK, Connection
    <3>4. y.state \notin {"Closed", "TimeWait"}
      BY <2>2
    <3> HIDE DEF x
    <3>5. Turns(h, y, [y EXCEPT !.state = "Established"])
      BY <2>3, <3>2, <3>4, StateTurns
    <3> QED BY <3>3, <3>5 DEF x
  <2> HIDE DEF x
  <2>5. Turns(h, c, x)
    BY <1>1, <2>2, <2>4, TurnsTwice
  <2>6. CASE m.data = <<>>
    <3>1. Sends(h, c, Quietly(x))
      BY <2>5, TurnsQuietly
    <3>2. OnSynReceived(c, m) = Quietly(x)
      BY <1>3, <1>5, <2>6
    <3> QED BY <1>1, <3>1, <3>2, SendsMoves
  <2>7. CASE m.data # <<>>
    <3>1. Moves(h, x, Quietly(z)) /\ x \in Connection
      BY <2>4, AcceptMoves DEF Turns, ConnOK
    <3> HIDE DEF z
    <3>2. ConnOK(z) /\ Sound(h, z)
      BY <3>1 DEF Moves, Steps, Quietly, Result
    <3>3. Moves(h, x, BuildAck(z))
      BY <3>1, <3>2, BuildAckSends, TookThenSends
    <3>4. Moves(h, c, BuildAck(z))
      BY <1>1, <2>5, <3>3, TurnsThenMoves
    <3> QED BY <1>3, <1>5, <2>7, <3>4
  <2> QED BY <2>6, <2>7
<1> QED BY <1>4, <1>5

\* Step 1 of the synchronized arm
LEMMA ProcessAckSends ==
    ASSUME TypeOK, NEW h \in Host, NEW c, ConnOK(c), Sound(h, c), NEW m, Arrives(h, m),
           c.state \in {"Established", "FinWait1", "FinWait2"},
           ~(m.isAck /\ m.ack > c.snd_nxt)
    PROVE  Sends(h, c, ProcessAck(c, m)) /\ ProcessAck(c, m).c.state = c.state
<1> DEFINE w == m.wnd
           cw == [c EXCEPT !.snd_wnd = w]
           cc == OnDupAck(cw.cc)
           cd == [cw EXCEPT !.cc = cc]
           y == SlideTo(cw, m.ack)
           r == ProcessAck(c, m)
<1>1. /\ c \in Connection /\ m \in Segment /\ m.ack \in Nat /\ m.wnd \in Nat
      /\ conn[Other(h)] \in Connection /\ c.snd_una \in Nat /\ c.snd_nxt \in Nat
      /\ m.isAck => m.ack <= conn[Other(h)].rcv_nxt
  BY Context DEF ConnOK, Arrives, Segment, Connection
<1>2. r = IF ~m.isAck THEN Quietly(c)
          ELSE IF m.ack > c.snd_una THEN Quietly(y)
          ELSE IF ~IsDupAck(c, m) THEN Quietly(cw)
          ELSE IF TriggersFastRetransmit(c.cc) THEN RetransmitOldest(cd)
          ELSE Quietly(cd)
  BY DEF ProcessAck
<1>3. r = Quietly(c) => Sends(h, c, r) /\ r.c.state = c.state
  <2>1. Sends(h, c, Quietly(c)) /\ Quietly(c).c = c
    BY SendsNothing DEF Quietly, Result
  <2> QED BY <2>1
<1>4. CASE m.isAck /\ m.ack > c.snd_una
  <2>1. c.snd_una <= m.ack /\ m.ack <= c.snd_nxt
    BY <1>1, <1>4
  <2>2. c.state \notin {"Closed", "TimeWait"} /\ m.ack <= conn[Other(h)].rcv_nxt
    BY <1>1, <1>4
  <2>3. Turns(h, c, y) /\ y.state = c.state
    BY <1>1, <2>1, <2>2, SlideTurns
  <2>4. r = Quietly(y)
    BY <1>2, <1>4
  <2> HIDE DEF y, r
  <2>5. Sends(h, c, r) /\ r.c = y
    BY <2>3, <2>4, TurnsQuietly
  <2> QED BY <2>3, <2>5 DEF r
<1>5. Turns(h, c, cw) /\ cw.state = c.state /\ cw.cc = c.cc
  <2>1. /\ cw \in Connection /\ Kin(c, cw) /\ cw.state = c.state /\ cw.cc = c.cc
        /\ cw.snd_una = c.snd_una /\ cw.snd_nxt = c.snd_nxt /\ SameReceive(c, cw)
    BY <1>1 DEF Connection, Kin, SameOut, SameReceive
  <2> HIDE DEF cw
  <2>2. ConnOK(cw) /\ Passes(c, cw.state)
    BY <2>1, SetOK DEF Passes
  <2> QED BY <1>1, <2>1, <2>2, TurnsKin
<1> HIDE DEF cw
<1>6. Turns(h, cw, cd) /\ cd.state = cw.state
  <2>1. cw \in Connection /\ cw.cc \in CongestionControl /\ ConnOK(cw) /\ Sound(h, cw)
    BY <1>5 DEF Turns, ConnOK, Connection
  <2>2. cc \in CongestionControl /\ cc.in_flight = cw.cc.in_flight
    BY <2>1, OnDupAckOK
  <2> HIDE DEF cc
  <2>3. /\ cd \in Connection /\ Kin(cw, cd) /\ cd.state = cw.state /\ cd.cc = cc
        /\ cd.snd_una = cw.snd_una /\ cd.snd_nxt = cw.snd_nxt /\ SameReceive(cw, cd)
    BY <2>1, <2>2 DEF Connection, Kin, SameOut, SameReceive
  <2> HIDE DEF cd
  <2>4. cd.cc.in_flight = cw.cc.in_flight
    BY <2>2, <2>3
  <2>5. ConnOK(cd) /\ Passes(cw, cd.state)
    BY <2>1, <2>3, <2>4, SetOK DEF Passes
  <2> QED BY <2>1, <2>3, <2>5, TurnsKin
<1> HIDE DEF cd
<1>7. Turns(h, c, cd) /\ cd.state = c.state
  BY <1>1, <1>5, <1>6, TurnsTwice
<1>8. CASE r = Quietly(cw)
  <2>1. Sends(h, c, Quietly(cw)) /\ Quietly(cw).c = cw
    BY <1>5, TurnsQuietly
  <2> QED BY <1>5, <1>8, <2>1
<1>9. CASE r = Quietly(cd)
  <2>1. Sends(h, c, Quietly(cd)) /\ Quietly(cd).c = cd
    BY <1>7, TurnsQuietly
  <2> QED BY <1>7, <1>9, <2>1
<1>10. CASE r = RetransmitOldest(cd)
  <2>1. Sends(h, cd, RetransmitOldest(cd)) /\ RetransmitOldest(cd).c.state = cd.state
    BY <1>7, RetransmitOldestSends DEF Turns
  <2>2. Sends(h, c, RetransmitOldest(cd))
    BY <1>1, <1>7, <2>1, TurnsThen
  <2> QED BY <1>7, <1>10, <2>1, <2>2
<1> HIDE DEF r
<1> QED BY <1>2, <1>3, <1>4, <1>8, <1>9, <1>10 DEF r

\* The peer's FIN, taken where its stream ends.
LEMMA ConsumeFinMoves ==
    ASSUME TypeOK, NEW h \in Host, NEW c, ConnOK(c), Sound(h, c), NEW m, Arrives(h, m),
           c.state \in {"Established", "FinWait1", "FinWait2"}, ConsumesFin(c, m)
    PROVE  Moves(h, c, Quietly(ConsumeFin(c))) /\ m.data = <<>>
<1> DEFINE o == Other(h)
           d == conn[o]
           g == got[h]
           k == c.rcv_nxt + 1
           t == CASE c.state = "Established" -> "CloseWait"
                  [] c.state = "FinWait1" -> "Closing"
                  [] c.state = "FinWait2" -> "TimeWait"
                  [] OTHER -> c.state
           x == [c EXCEPT !.rcv_nxt = k, !.fin_received = TRUE, !.state = t]
           r == g \o c.rx
           n == Len(r)
<1>1. ConsumeFin(c) = x
  BY DEF ConsumeFin
<1>2. /\ o \in Host /\ d \in Connection /\ g \in Seq(Byte) /\ c \in Connection /\ Isn[o] \in Nat
      /\ c.rcv_nxt \in Nat /\ d.snd_nxt \in Nat /\ Stamped(o, d, m) /\ m.seq \in Nat
      /\ c.rx \in Seq(Byte)
  BY TwoHosts, Context, HostData, ConnTypes DEF ConnOK, Arrives, Segment
<1>3. r \in Seq(Byte) /\ n \in Nat
  BY <1>2, ConcatProperties, LenProperties
<1>4. Synced(o, r, d, c) /\ ~c.fin_received
  BY IsSynced DEF Synced
<1>5. m.fin /\ FinSeq(m) = c.rcv_nxt
  BY DEF ConsumesFin
<1>6. m.data = <<>> /\ d.fin_sent /\ m.seq = DataEnd(d) /\ ~m.syn
  BY <1>2, <1>5 DEF Stamped
<1>7. c.rcv_nxt + 1 = d.snd_nxt
  <2>1. Len(<<>>) = 0
    OBVIOUS
  <2>2. FinSeq(m) = m.seq
    BY <1>2, <1>6, <2>1 DEF FinSeq
  <2>3. DataEnd(d) = d.snd_nxt - 1
    BY <1>6 DEF DataEnd, Bit
  <2> QED BY <1>2, <1>5, <1>6, <2>2, <2>3
<1>8. ConnOK(x)
  BY <1>1, ConsumeFinOK
<1>9. k \in Nat /\ t \in {"CloseWait", "Closing", "TimeWait"} /\ k = d.snd_nxt
      /\ (c.state # "Established" => t # "CloseWait")
  BY <1>2, <1>7
<1> HIDE DEF k, t
<1>10. /\ SameOut(c, x) /\ x.rx = c.rx /\ x.ooo = c.ooo /\ x.rcv_nxt = k
       /\ x.fin_received = TRUE /\ x.state = t
  BY <1>2 DEF Connection, SameOut
<1> HIDE DEF x
<1>11. x \in Connection
  BY <1>8 DEF ConnOK
<1>12. Passes(c, x.state)
  <2>1. c.fin_sent => c.state # "Established"
    BY DEF Sound, SendOK
  <2> QED BY <1>4, <1>9, <1>10, <2>1 DEF Passes
<1>13. SendOK(h, wrote[h], x)
  BY <1>10, <1>12, SendSame DEF Sound
<1>14. Synced(o, r, d, x)
  <2>1. c.rcv_nxt = Isn[o] + 1 + n + 0
    BY <1>4 DEF Synced, Bit
  <2>2. k = Isn[o] + 1 + n + 1
    <3> HIDE DEF n
    <3> QED BY <1>2, <1>3, <2>1 DEF k
  <2>3. x.rcv_nxt = Isn[o] + 1 + Len(r) + Bit(x.fin_received)
    BY <1>10, <2>2 DEF Bit
  <2> HIDE DEF r
  <2> QED BY <1>4, <1>6, <1>9, <1>10, <2>3 DEF Synced
<1>15. RecvOK(o, g, d, x)
  BY <1>10, <1>14 DEF RecvOK
<1>16. Sound(h, x)
  BY <1>10, <1>13, <1>15 DEF Sound, Acked, SameOut
<1>17. Advances(c, x) /\ c.rcv_nxt <= x.rcv_nxt
  <2>1. DataEnd(x) = DataEnd(c) /\ x.snd_una = c.snd_una /\ x.snd_nxt = c.snd_nxt
        /\ x.fin_sent = c.fin_sent
    BY <1>10 DEF SameOut, DataEnd
  <2>2. c.snd_una \in Nat /\ c.snd_nxt \in Nat /\ DataEnd(c) \in Int
    BY <1>2, ConnTypes
  <2>3. c.rcv_nxt <= x.rcv_nxt
    BY <1>2, <1>7, <1>9, <1>10
  <2> QED BY <2>1, <2>2, <2>3 DEF Advances
<1>18. Steps(h, c, Quietly(x)) /\ Quietly(x).c = x
  BY <1>8, <1>10, <1>16, <1>17, StepsQuietly DEF SameOut
<1>19. Took(c, x)
  <2>1. Extends(c, c)
    BY <1>2, ExtendsSame
  <2>2. Extends(c, x)
    BY <1>10, <1>17, <2>1 DEF Extends
  <2> QED BY <1>10, <2>2 DEF Took
<1> QED BY <1>1, <1>6, <1>18, <1>19 DEF Moves

\* Step 5 of the synchronized arm
LEMMA AfterFinAckedTurns ==
    ASSUME NEW h \in Host, NEW c, ConnOK(c), Sound(h, c)
    PROVE  Turns(h, c, AfterFinAcked(c))
<1> DEFINE t == CASE c.state = "FinWait1" -> "FinWait2"
                  [] c.state = "Closing" -> "TimeWait"
                  [] OTHER -> c.state
           x == [c EXCEPT !.state = t]
<1>1. AfterFinAcked(c) = IF c.fin_sent /\ c.snd_una >= c.snd_nxt THEN x ELSE c
  BY DEF AfterFinAcked
<1>2. c \in Connection /\ c.state \in TcpState
  BY ConnTypes DEF ConnOK
<1>3. CASE c.fin_sent /\ c.snd_una >= c.snd_nxt
  <2>1. ConnOK(x)
    BY <1>1, <1>3, AfterFinAckedOK
  <2>2. c.state = "FinWait1" => ~c.fin_received
    BY IsSynced DEF Synced
  <2>3. Passes(c, t)
    BY <1>2, <2>2 DEF Passes, TcpState
  <2> HIDE DEF t
  <2>4. Kin(c, x) /\ x.state = t
    BY <1>2 DEF Connection, Kin, SameOut, SameReceive
  <2> HIDE DEF x
  <2>5. Turns(h, c, x)
    BY <1>2, <2>1, <2>3, <2>4, TurnsKin
  <2> QED BY <1>1, <1>3, <2>5
<1>4. CASE ~(c.fin_sent /\ c.snd_una >= c.snd_nxt)
  <2>1. Turns(h, c, c)
    BY <1>2, AdvancesSame DEF Turns, SameIn
  <2> QED BY <1>1, <1>4, <2>1
<1> QED BY <1>3, <1>4

\* ESTABLISHED, FIN_WAIT_1 and FIN_WAIT_2
LEMMA OnSynchronizedMoves ==
    ASSUME TypeOK, NEW h \in Host, NEW c, ConnOK(c), Sound(h, c), NEW m, Arrives(h, m),
           c.state \in {"Established", "FinWait1", "FinWait2"}
    PROVE  Moves(h, c, OnSynchronized(c, m))
<1> DEFINE a == ProcessAck(c, m)
           y == AcceptData(a.c, m.seq, m.data)
           isFin == ConsumesFin(y, m)
           f == IF isFin THEN ConsumeFin(y) ELSE y
           b == (m.data # <<>> \/ isFin) /\ a.out = <<>>
           r == IF b THEN BuildAck(f) ELSE Result(f, a.out)
           z == AfterFinAcked(r.c)
<1>1. OnSynchronized(c, m) = IF m.isAck /\ m.ack > c.snd_nxt THEN BuildAck(c)
                             ELSE Result(z, r.out)
  BY DEF OnSynchronized
<1>2. c \in Connection
  BY DEF ConnOK
<1>3. CASE m.isAck /\ m.ack > c.snd_nxt
  BY <1>1, <1>2, <1>3, BuildAckSends, SendsMoves
<1>4. CASE ~(m.isAck /\ m.ack > c.snd_nxt)
  <2>1. Sends(h, c, a) /\ a.c.state = c.state
    BY <1>4, ProcessAckSends
  <2> HIDE DEF a
  <2>2. /\ ConnOK(a.c) /\ Sound(h, a.c) /\ a.c \in Connection
        /\ a.c.state \in {"Established", "FinWait1", "FinWait2"}
    BY <2>1 DEF Sends, Steps, ConnOK
  <2>3. Moves(h, a.c, Quietly(y)) /\ y.state = a.c.state /\ (m.data = <<>> => y = a.c)
    BY <2>2, AcceptMoves
  <2> HIDE DEF y
  <2>4. /\ ConnOK(y) /\ Sound(h, y)
        /\ y.state \in {"Established", "FinWait1", "FinWait2"}
    BY <2>2, <2>3 DEF Moves, Steps, Quietly, Result
  <2>5. Moves(h, a.c, Quietly(f))
    <3>1. CASE isFin
      <4>1. Moves(h, y, Quietly(ConsumeFin(y))) /\ m.data = <<>>
        BY <2>4, <3>1, ConsumeFinMoves
      <4> QED BY <2>3, <3>1, <4>1
    <3>2. CASE ~isFin
      BY <2>3, <3>2
    <3> QED BY <3>1, <3>2
  <2> HIDE DEF f, isFin
  <2>6. ConnOK(f) /\ Sound(h, f)
    BY <2>5 DEF Moves, Steps, Quietly, Result
  <2>7. Moves(h, c, r)
    <3>1. CASE b
      <4>1. Moves(h, a.c, BuildAck(f))
        BY <2>2, <2>5, <2>6, BuildAckSends, TookThenSends
      <4>2. Turns(h, c, a.c)
        BY <2>1, TurnsOf
      <4>3. Moves(h, c, BuildAck(f))
        BY <1>2, <4>1, <4>2, TurnsThenMoves
      <4> QED BY <3>1, <4>3
    <3>2. CASE ~b
      <4>1. Moves(h, c, Result(f, a.out))
        BY <1>2, <2>1, <2>5, SendsThenMoves
      <4> QED BY <3>2, <4>1
    <3> QED BY <3>1, <3>2
  <2> HIDE DEF r
  <2>8. Turns(h, r.c, z)
    BY <2>7, AfterFinAckedTurns DEF Moves, Steps
  <2> HIDE DEF z
  <2>9. Moves(h, c, Result(z, r.out))
    BY <1>2, <2>7, <2>8, MovesThenTurns
  <2> QED BY <1>1, <1>4, <2>9
<1> QED BY <1>3, <1>4

\* handle_segment, whatever the state
LEMMA HandleSegmentMoves ==
    ASSUME OneOpener, TypeOK, NEW h \in Host, NEW c, ConnOK(c), Sound(h, c),
           Sound(Other(h), conn[Other(h)]), NEW m \in Segment,
           SegOK(Other(h), conn[Other(h)], m)
    PROVE  Moves(h, c, HandleSegment(c, m))
<1> DEFINE x == ApplyOptions(c, m)
           r == HandleSegment(c, m)
<1>1. c \in Connection /\ wrote[h] \in Nat
  BY Context DEF ConnOK
<1>2. Turns(h, c, x)
  BY ApplyOptionsSound DEF Turns
<1>3. r = IF m.rst THEN Quietly(OnRst(x, m))
          ELSE CASE x.state = "Listen" -> OnListen(x, m)
                 [] x.state = "SynSent" -> OnSynSent(x, m)
                 [] x.state = "SynReceived" -> OnSynReceived(x, m)
                 [] x.state \in {"Established", "FinWait1", "FinWait2"} -> OnSynchronized(x, m)
                 [] x.state = "CloseWait" -> OnCloseWait(x, m)
                 [] x.state = "Closing" -> OnFinalAck(x, m, "TimeWait")
                 [] x.state = "LastAck" -> OnFinalAck(x, m, "Closed")
                 [] x.state = "TimeWait" -> OnTimeWait(x, m)
                 [] x.state = "Closed" -> Quietly(x)
  BY DEF HandleSegment
<1> HIDE DEF x, r
<1>4. ConnOK(x) /\ Sound(h, x) /\ x \in Connection /\ x.state \in TcpState
  BY <1>2, ConnTypes DEF Turns, ConnOK
<1>5. Moves(h, x, r)
  <2>1. CASE m.rst
    <3>1. r = Quietly(OnRst(x, m))
      BY <1>3, <2>1
    <3> QED BY <1>1, <1>4, <3>1, OnRstSends, SendsMoves
  <2>2. CASE ~m.rst
    <3> Arrives(h, m)
      BY <2>2 DEF SegOK, Arrives
    <3>1. CASE x.state = "Listen"
      <4>1. r = OnListen(x, m)
        BY <1>3, <2>2, <3>1
      <4> QED BY <1>4, <3>1, <4>1, OnListenSends, SendsMoves
    <3>2. CASE x.state = "SynSent"
      <4>1. r = OnSynSent(x, m)
        BY <1>3, <2>2, <3>2
      <4> QED BY <1>4, <3>2, <4>1, OnSynSentSends, SendsMoves
    <3>3. CASE x.state = "SynReceived"
      <4>1. r = OnSynReceived(x, m)
        BY <1>3, <2>2, <3>3
      <4> QED BY <1>4, <3>3, <4>1, OnSynReceivedMoves
    <3>4. CASE x.state \in {"Established", "FinWait1", "FinWait2"}
      <4>1. r = OnSynchronized(x, m)
        BY <1>3, <2>2, <3>4
      <4> QED BY <1>4, <3>4, <4>1, OnSynchronizedMoves
    <3>5. CASE x.state = "CloseWait"
      <4>1. r = OnCloseWait(x, m)
        BY <1>3, <2>2, <3>5
      <4> QED BY <1>4, <3>5, <4>1, OnCloseWaitSends, SendsMoves
    <3>6. CASE x.state = "Closing"
      <4>1. r = OnFinalAck(x, m, "TimeWait")
        BY <1>3, <2>2, <3>6
      <4> QED BY <1>4, <3>6, <4>1, OnFinalAckSends, SendsMoves
    <3>7. CASE x.state = "LastAck"
      <4>1. r = OnFinalAck(x, m, "Closed")
        BY <1>3, <2>2, <3>7
      <4> QED BY <1>4, <3>7, <4>1, OnFinalAckSends, SendsMoves
    <3>8. CASE x.state = "TimeWait"
      <4>1. r = OnTimeWait(x, m)
        BY <1>3, <2>2, <3>8
      <4> QED BY <1>4, <4>1, OnTimeWaitSends, SendsMoves
    <3>9. CASE x.state = "Closed"
      <4>1. r = Quietly(x)
        BY <1>3, <2>2, <3>9
      <4> QED BY <1>4, <4>1, SendsNothing, SendsMoves
    <3> QED BY <1>4, <3>1, <3>2, <3>3, <3>4, <3>5, <3>6, <3>7, <3>8, <3>9 DEF TcpState
  <2> QED BY <2>1, <2>2
<1>6. Moves(h, c, r)
  BY <1>1, <1>2, <1>5, TurnsThenMoves
<1> QED BY <1>6 DEF r

-----------------------------------------------------------------------------
(* poll_output *)

\* Division with remainder.
LEMMA Remainder ==
    ASSUME NEW a \in Nat, NEW b \in Nat \ {0}
    PROVE  a % b \in Nat /\ a % b < b /\ a \div b \in Nat /\ a = b * (a \div b) + (a % b)
  OBVIOUS

\* The multiples of a number.
LEMMA Multiples ==
    ASSUME NEW p \in Nat, NEW q \in Nat, NEW b \in Nat \ {0}
    PROVE  /\ (b * p) % b = 0 /\ b * p \in Nat
           /\ p < q => b * p + b <= b * q
           /\ p <= q => b * p <= b * q
           /\ b * p < b * q => p < q
<1>1. (b * p) % b = 0 /\ b * p \in Nat
  OBVIOUS
<1>2. p < q => b * p + b <= b * q
  OBVIOUS
<1>3. p <= q => b * p <= b * q
  OBVIOUS
<1>4. b * p < b * q => p < q
  OBVIOUS
<1> QED BY <1>1, <1>2, <1>3, <1>4

\* Where the segments begin into which n bytes are cut: they tile the n bytes, and
\* there are as many as it takes.
LEMMA Starts ==
    ASSUME NEW n \in Nat, NEW size \in Nat \ {0}
    PROVE  LET S == {o \in 0 .. (n - 1) : o % size = 0}
           IN  /\ \A p, q \in S : p < q => p + size <= q
               /\ \A j \in 0 .. (n - 1) : \E o \in S : o <= j /\ j < o + size
               /\ Cardinality(S) \in Nat
               /\ \A i \in 1 .. Cardinality(S) :
                    (i - 1) * size \in Nat /\ (i - 1) * size < n
<1> DEFINE S == {o \in 0 .. (n - 1) : o % size = 0}
           N == Cardinality(S)
<1>1. ASSUME NEW o \in S
      PROVE  o \in Nat /\ o < n /\ o \div size \in Nat /\ o = size * (o \div size)
  <2>1. o \in Nat /\ o < n /\ o % size = 0
    OBVIOUS
  <2> QED BY <2>1, Remainder
<1>2. ASSUME NEW p \in S, NEW q \in S, p < q PROVE p + size <= q
  <2> DEFINE a == p \div size
             b == q \div size
  <2>1. a \in Nat /\ b \in Nat /\ p = size * a /\ q = size * b
    BY <1>1
  <2> HIDE DEF a, b, S
  <2>2. size * a < size * b
    BY <1>2, <2>1
  <2>3. a < b
    BY <2>1, <2>2, Multiples
  <2>4. size * a + size <= size * b
    BY <2>1, <2>3, Multiples
  <2> QED BY <2>1, <2>4
<1>3. ASSUME NEW j \in 0 .. (n - 1) PROVE \E o \in S : o <= j /\ j < o + size
  <2> DEFINE q == j \div size
             o == size * q
  <2>1. j \in Nat /\ j < n
    OBVIOUS
  <2>2. q \in Nat /\ j % size \in Nat /\ j % size < size /\ j = o + (j % size)
    BY <2>1, Remainder
  <2> HIDE DEF q
  <2>3. o \in Nat /\ o % size = 0
    BY <2>2, Multiples
  <2> HIDE DEF o
  <2>4. o <= j /\ j < o + size
    BY <2>1, <2>2, <2>3
  <2>5. o \in S
    BY <2>1, <2>3, <2>4
  <2> QED BY <2>4, <2>5
<1>4. N \in Nat /\ IsFiniteSet(S)
  <2>1. 0 \in Int /\ n - 1 \in Int
    OBVIOUS
  <2>2. IsFiniteSet(0 .. (n - 1))
    BY <2>1, FS_Interval
  <2>3. IsFiniteSet(S)
    BY <2>2, FS_Subset
  <2> QED BY <2>3, FS_CardinalityType
<1>5. ASSUME NEW i \in 1 .. N PROVE (i - 1) * size \in Nat /\ (i - 1) * size < n
  <2>1. CASE n = 0
    <3>1. S = {}
      BY <2>1
    <3>2. N = 0
      BY <3>1, FS_EmptySet
    <3> QED BY <3>2
  <2>2. CASE n > 0
    <3> DEFINE l == n - 1
               K == l \div size
               f == [q \in 0 .. K |-> size * q]
    <3>1. l \in Nat /\ l + 1 = n
      BY <2>2
    <3>2. K \in Nat /\ l % size \in Nat /\ l % size < size /\ l = size * K + (l % size)
      BY <3>1, Remainder
    <3> HIDE DEF l, K
    <3>3. ASSUME NEW q \in 0 .. K PROVE size * q \in S
      <4>1. q \in Nat /\ q <= K
        BY <3>2
      <4>2. size * q \in Nat /\ size * q <= size * K /\ (size * q) % size = 0
            /\ size * K \in Nat
        BY <3>2, <4>1, Multiples
      <4> DEFINE a == size * q
                 b == size * K
      <4> HIDE DEF a, b
      <4>3. a \in Nat /\ b \in Nat /\ a <= b /\ a % size = 0 /\ l = b + (l % size)
        BY <3>2, <4>2 DEF a, b
      <4>4. a \in 0 .. (n - 1)
        BY <3>1, <3>2, <4>3
      <4> QED BY <4>3, <4>4 DEF a
    <3>4. ASSUME NEW o \in S PROVE \E q \in 0 .. K : f[q] = o
      <4> DEFINE q == o \div size
      <4>1. q \in Nat /\ o = size * q /\ o \in Nat /\ o < n
        BY <1>1
      <4> HIDE DEF q, S
      <4>2. K + 1 \in Nat /\ size * (K + 1) = size * K + size
        BY <3>2
      <4> DEFINE a == size * K
                 b == size * (K + 1)
      <4>3. a \in Nat /\ b = a + size /\ l = a + (l % size)
        BY <3>2, <4>2, Multiples
      <4> HIDE DEF a
      <4>4. o < b
        BY <3>1, <3>2, <4>1, <4>3
      <4>5. q < K + 1
        BY <4>1, <4>2, <4>4, Multiples
      <4>6. q \in 0 .. K
        BY <3>2, <4>1, <4>5
      <4> QED BY <4>1, <4>6
    <3>5. f \in Surjection(0 .. K, S)
      <4>1. f \in [0 .. K -> S]
        BY <3>3
      <4> HIDE DEF f, S
      <4> QED BY <3>4, <4>1 DEF Surjection
    <3>6. IsFiniteSet(0 .. K) /\ Cardinality(0 .. K) = K + 1
      <4>1. 0 \in Int /\ K \in Int
        BY <3>2
      <4>2. IsFiniteSet(0 .. K) /\ Cardinality(0 .. K) = (IF 0 > K THEN 0 ELSE K - 0 + 1)
        BY <4>1, FS_Interval
      <4>3. ~(0 > K) /\ K - 0 + 1 = K + 1
        BY <3>2
      <4> QED BY <4>2, <4>3
    <3>7. N <= K + 1
      <4> HIDE DEF f, S
      <4> QED BY <3>5, <3>6, FS_Surjection
    <3> HIDE DEF N
    <3>8. i - 1 \in Nat /\ i - 1 <= K
      BY <1>4, <3>2, <3>7
    <3> DEFINE q == i - 1
    <3> HIDE DEF q
    <3>9. q \in Nat /\ size * q <= size * K /\ size * q \in Nat /\ size * K \in Nat
      BY <3>2, <3>8, Multiples DEF q
    <3>10. q * size = size * q
      BY <3>9
    <3>11. q * size \in Nat /\ q * size < n
      <4> DEFINE a == size * q
                 b == size * K
      <4>1. a \in Nat /\ b \in Nat /\ a <= b /\ q * size = a /\ l = b + (l % size)
        BY <3>2, <3>9, <3>10
      <4> HIDE DEF a, b
      <4> QED BY <3>1, <3>2, <4>1
    <3> QED BY <3>11 DEF q
  <2> QED BY <2>1, <2>2
<1> HIDE DEF N
<1>6. /\ \A p, q \in S : p < q => p + size <= q
      /\ \A j \in 0 .. (n - 1) : \E o \in S : o <= j /\ j < o + size
  BY <1>2, <1>3
<1>7. \A i \in 1 .. N : (i - 1) * size \in Nat /\ (i - 1) * size < n
  BY <1>5
<1> QED BY <1>4, <1>6, <1>7 DEF N

\* A slice ends where its last byte does.
LEMMA CarriesTight ==
    ASSUME NEW h \in Host, NEW seq \in Int, NEW data \in Seq(Byte), NEW end,
           Carries(h, seq, data, end)
    PROVE  Carries(h, seq, data, seq + Len(data))
<1> DEFINE n == Len(data)
<1>1. n \in Nat
  BY LenProperties
<1> SUFFICES ASSUME NEW i \in 1 .. Len(data)
             PROVE  /\ Isn[h] < seq + i - 1 /\ seq + i - 1 < seq + n
                    /\ data[i] = AppData[h][seq + i - 1 - Isn[h]]
  BY DEF Carries
<1>2. Isn[h] < seq + i - 1 /\ data[i] = AppData[h][seq + i - 1 - Isn[h]]
  BY DEF Carries
<1>3. i \in 1 .. n
  OBVIOUS
<1> HIDE DEF n
<1>4. seq + i - 1 < seq + n
  BY <1>1, <1>3
<1> QED BY <1>2, <1>4

\* Steps 1 and 5: the segments put on the wire are slices of the stream that tile the
\* bytes taken from the send buffer.
LEMMA TransmitSends ==
    ASSUME NEW h \in Host, NEW c, ConnOK(c), Sound(h, c), wrote[h] \in Nat,
           c.state # "Closed", NEW n \in Nat \ {0}, n <= Len(c.tx), NEW size \in Nat \ {0}
    PROVE  Sends(h, c, Transmit(c, n, size)) /\ Transmit(c, n, size).c.state = c.state
<1> DEFINE s == c.snd_nxt
           I == Isn[h]
           l == Len(c.tx)
           starts == {o \in 0 .. (n - 1) : o % size = 0}
           Chunk(o) == SubSeq(c.tx, o + 1, MinOf(o + size, n))
           Seg(o) == [AckSegment(c, s + o) EXCEPT !.data = Chunk(o)]
           F(o) == RtqEntry(s + o, Len(Chunk(o)), FALSE, TRUE, FALSE, Chunk(o))
           E == {F(o) : o \in starts}
           q == c.rtq \cup E
           tx == SubSeq(c.tx, n + 1, l)
           cc == RecordSent(c.cc, n)
           k == s + n
           w == CurrentRcvWnd(c)
           x == [c EXCEPT !.tx = tx, !.snd_nxt = k, !.cc = cc, !.rtq = q,
                          !.last_advertised_wnd = w]
           N == Cardinality(starts)
           out == [i \in 1 .. N |-> Seg((i - 1) * size)]
           r == Transmit(c, n, size)
<1>1. /\ c \in Connection /\ s \in Nat /\ c.tx \in Seq(Byte) /\ l \in Nat /\ I \in Nat
      /\ n <= l /\ c.snd_una \in Nat /\ c.rcv_nxt \in Nat
      /\ c.rtq \in SUBSET RetransmitSegment
  BY ConnTypes, HostData DEF ConnOK
<1>2. r = Result(x, out) /\ r.c = x /\ r.out = out
  BY DEF Transmit, Result
<1>3. ConnOK(x) /\ out \in Seq(Segment) /\ x.state = c.state
  <2>1. Keeps(c, r) /\ r.c.state = c.state
    BY TransmitOK DEF SendsOnly
  <2> HIDE DEF x, out, r
  <2> QED BY <1>2, <2>1 DEF Keeps
<1>4. /\ SendOK(h, wrote[h], c) /\ Tracks(c) /\ ~c.fin_sent
      /\ c.state \notin {"Listen", "SynSent", "SynReceived"}
      /\ Carries(h, s, c.tx, s + l)
  <2>1. c.tx # <<>>
    <3>1. c.tx = <<>> => l = 0
      OBVIOUS
    <3> HIDE DEF l
    <3> QED BY <1>1, <3>1
  <2> QED BY <2>1 DEF Sound, SendOK
<1>5. /\ \A a, b \in starts : a < b => a + size <= b
      /\ \A j \in 0 .. (n - 1) : \E o \in starts : o <= j /\ j < o + size
      /\ N \in Nat
      /\ \A i \in 1 .. N : (i - 1) * size \in Nat /\ (i - 1) * size < n
  BY Starts
<1>6. \A o \in starts : o \in Nat /\ o < n
  OBVIOUS
<1> HIDE DEF starts, N
<1>7. ASSUME NEW o \in Nat, o < n
      PROVE  /\ Chunk(o) \in Seq(Byte) /\ Len(Chunk(o)) \in Nat \ {0}
             /\ o + Len(Chunk(o)) <= n /\ Len(Chunk(o)) <= size
             /\ o + size <= n => Len(Chunk(o)) = size
             /\ o + size > n => o + Len(Chunk(o)) = n
             /\ Carries(h, s + o, Chunk(o), k)
  <2> DEFINE j == MinOf(o + size, n)
             y == SubSeq(c.tx, o + 1, j)
             v == Len(y)
  <2>1. j \in Nat /\ j <= n /\ j <= o + size /\ o < j
        /\ (o + size <= n => j = o + size) /\ (o + size > n => j = n)
    BY <1>7 DEF MinOf
  <2>2. o + 1 \in Nat \ {0} /\ j \in Int /\ j <= l
    <3> HIDE DEF j, l
    <3> QED BY <1>1, <2>1
  <2> HIDE DEF j
  <2>3. y \in Seq(Byte) /\ v = IF o + 1 <= j THEN j - (o + 1) + 1 ELSE 0
    BY <1>1, <2>2, Slice
  <2>4. Carries(h, s + (o + 1) - 1, y, s + l)
    <3>1. s \in Int /\ s + l \in Int
      BY <1>1
    <3> QED BY <1>1, <1>4, <2>2, <3>1, CarriesPart
  <2> HIDE DEF v, y
  <2>5. v = j - o
    BY <2>1, <2>3
  <2>6. Carries(h, s + o, y, k)
    <3>1. s + (o + 1) - 1 = s + o /\ s + o \in Int
      BY <1>1
    <3>2. Carries(h, s + o, y, s + l)
      BY <2>4, <3>1
    <3>3. Carries(h, s + o, y, s + o + v)
      BY <2>3, <3>1, <3>2, CarriesTight DEF v
    <3>4. s + o + v \in Int /\ k \in Int /\ s + o + v <= k
      BY <1>1, <2>1, <2>5
    <3> HIDE DEF k
    <3> QED BY <2>3, <3>1, <3>3, <3>4, CarriesMore
  <2>7. /\ v \in Nat \ {0} /\ o + v <= n /\ v <= size
        /\ o + size <= n => v = size
        /\ o + size > n => o + v = n
    BY <1>7, <2>1, <2>5
  <2> QED BY <2>3, <2>6, <2>7 DEF y, v, j
<1> HIDE DEF Chunk
<1>8. ASSUME NEW o \in Nat, o < n
      PROVE  LET e == F(o)
             IN  /\ e \in RetransmitSegment /\ e.seq = s + o /\ e.end = s + o + Len(Chunk(o))
                 /\ ~e.syn /\ ~e.fin /\ e.data = Chunk(o)
  <2> DEFINE y == Chunk(o)
             v == Len(y)
             b == s + o
             e == RtqEntry(b, v, FALSE, TRUE, FALSE, y)
  <2>1. y \in Seq(Byte) /\ v \in Nat /\ b \in Nat
    BY <1>1, <1>7, <1>8
  <2> HIDE DEF y, v, b
  <2>2. /\ e \in RetransmitSegment /\ e.seq = b /\ e.end = b + v
        /\ ~e.syn /\ ~e.fin /\ e.data = y
    BY <2>1 DEF RtqEntry, RetransmitSegment
  <2> QED BY <2>2 DEF y, v, b
<1>9. ASSUME NEW o \in Nat, o < n
      PROVE  LET m == Seg(o)
             IN  /\ m.seq = s + o /\ ~m.syn /\ ~m.fin /\ m.data = Chunk(o)
                 /\ m.ack = c.rcv_nxt
  BY DEF AckSegment
<1> HIDE DEF F, Seg
<1>10. /\ x.snd_nxt = k /\ x.tx = tx /\ x.rtq = q /\ x.snd_una = c.snd_una
       /\ x.fin_sent = c.fin_sent /\ x.fin_received = c.fin_received
       /\ x.close_requested = c.close_requested /\ x.rx = c.rx /\ x.rcv_nxt = c.rcv_nxt
       /\ x.ooo = c.ooo
  <2> HIDE DEF tx, k, q, cc, w
  <2> QED BY <1>1 DEF Connection
<1> HIDE DEF x
<1>11. x \in Connection
  BY <1>3 DEF ConnOK
<1>12. k \in Nat /\ DataEnd(c) = s /\ DataEnd(x) = k /\ s <= k
  BY <1>1, <1>4, <1>10 DEF DataEnd, Bit
<1>13. Advances(c, x)
  BY <1>1, <1>4, <1>10, <1>12 DEF Advances
<1>14. ASSUME NEW f, NEW o \in Nat, o < n, f.seq = s + o, ~f.syn, ~f.fin, f.data = Chunk(o)
       PROVE  Stamped(h, x, f)
  <2> DEFINE v == Len(Chunk(o))
  <2>1. v \in Nat /\ o + v <= n /\ Carries(h, s + o, Chunk(o), k)
    BY <1>7, <1>14
  <2>2. FinSeq(f) + Bit(f.fin) = s + o + v
    <3>1. FinSeq(f) + Bit(f.fin) = (s + o) + 0 + v + 0
      BY <1>14 DEF FinSeq, Bit
    <3> HIDE DEF v
    <3> QED BY <1>1, <2>1, <3>1
  <2> HIDE DEF v
  <2>3. s + o + v <= k
    BY <1>1, <2>1
  <2> QED BY <1>10, <1>12, <1>14, <2>1, <2>2, <2>3 DEF Stamped
<1>15. E \in SUBSET RetransmitSegment
  BY <1>6, <1>8
<1>16. Tracks(x)
  <2>1. \A e \in E : s <= e.seq /\ e.seq < e.end /\ e.end <= x.snd_nxt
    <3> SUFFICES ASSUME NEW e \in E PROVE s <= e.seq /\ e.seq < e.end /\ e.end <= x.snd_nxt
      OBVIOUS
    <3>1. PICK o \in starts : e = F(o)
      OBVIOUS
    <3> DEFINE v == Len(Chunk(o))
    <3>2. o \in Nat /\ o < n
      BY <1>6
    <3>3. e.seq = s + o /\ e.end = s + o + v /\ v \in Nat \ {0} /\ o + v <= n
      BY <1>7, <1>8, <3>1, <3>2
    <3> HIDE DEF v
    <3> QED BY <1>1, <1>10, <3>2, <3>3
  <2>2. \A e, f \in E : e = f \/ e.end <= f.seq \/ f.end <= e.seq
    <3> SUFFICES ASSUME NEW e \in E, NEW f \in E
                 PROVE  e = f \/ e.end <= f.seq \/ f.end <= e.seq
      OBVIOUS
    <3>1. PICK a \in starts : e = F(a)
      OBVIOUS
    <3>2. PICK b \in starts : f = F(b)
      OBVIOUS
    <3> DEFINE v == Len(Chunk(a))
               u == Len(Chunk(b))
    <3>3. a \in Nat /\ a < n /\ b \in Nat /\ b < n
      BY <1>6
    <3>4. e.seq = s + a /\ e.end = s + a + v /\ v \in Nat /\ v <= size
      BY <1>7, <1>8, <3>1, <3>3
    <3>5. f.seq = s + b /\ f.end = s + b + u /\ u \in Nat /\ u <= size
      BY <1>7, <1>8, <3>2, <3>3
    <3>6. (a < b => a + size <= b) /\ (b < a => b + size <= a)
      BY <1>5
    <3>7. a = b => e = f
      BY <3>1, <3>2
    <3> HIDE DEF v, u
    <3> QED BY <1>1, <3>3, <3>4, <3>5, <3>6, <3>7
  <2>3. \A j \in s .. (x.snd_nxt - 1) : \E e \in E : e.seq <= j /\ j < e.end
    <3> SUFFICES ASSUME NEW j \in s .. (x.snd_nxt - 1)
                 PROVE  \E e \in E : e.seq <= j /\ j < e.end
      OBVIOUS
    <3> DEFINE i == j - s
    <3>1. j = s + i /\ i \in 0 .. (n - 1) /\ i \in Int
      BY <1>1, <1>10
    <3> HIDE DEF i
    <3>2. PICK o \in starts : o <= i /\ i < o + size
      BY <1>5, <3>1
    <3> DEFINE v == Len(Chunk(o))
    <3>3. o \in Nat /\ o < n
      BY <1>6
    <3>4. /\ v \in Nat /\ (o + size <= n => v = size) /\ (o + size > n => o + v = n)
          /\ F(o).seq = s + o /\ F(o).end = s + o + v
      BY <1>7, <1>8, <3>3
    <3> HIDE DEF v
    <3>5. i < o + v
      <4>1. CASE o + size <= n
        BY <3>2, <3>4, <4>1
      <4>2. CASE o + size > n
        BY <3>1, <3>4, <4>2
      <4> QED BY <3>3, <4>1, <4>2
    <3>6. s + o <= j /\ j < s + o + v
      <4> HIDE DEF s
      <4> QED BY <1>1, <3>1, <3>2, <3>3, <3>4, <3>5
    <3>7. F(o).seq <= j /\ j < F(o).end
      BY <3>4, <3>6
    <3> QED BY <3>7
  <2>4. x.snd_nxt = c.snd_nxt + n /\ n \in Nat /\ x.rtq = c.rtq \cup E
    BY <1>10
  <2> HIDE DEF E
  <2> QED BY <1>1, <1>4, <1>10, <1>11, <1>15, <2>1, <2>2, <2>3, <2>4, TracksMore
<1>17. \A f \in x.rtq : Stamped(h, x, f)
  <2> SUFFICES ASSUME NEW f \in x.rtq PROVE Stamped(h, x, f)
    OBVIOUS
  <2>1. CASE f \in E
    <3>1. PICK o \in starts : f = F(o)
      BY <2>1
    <3>2. o \in Nat /\ o < n
      BY <1>6
    <3> QED BY <1>8, <1>14, <3>1, <3>2
  <2>2. CASE f \in c.rtq
    <3>1. f.seq \in Nat /\ f.data \in Seq(Byte) /\ f.fin \in BOOLEAN
      BY <1>1, <2>2 DEF RetransmitSegment
    <3>2. Stamped(h, c, f)
      BY <1>4, <2>2 DEF SendOK
    <3> QED BY <1>1, <1>11, <1>13, <3>1, <3>2, StampedLater
  <2> QED BY <1>10, <2>1, <2>2
<1>18. /\ tx \in Seq(Byte) /\ Len(tx) = l - n
       /\ Carries(h, k, tx, k + Len(tx))
  <2>1. n + 1 \in Nat \ {0} /\ l \in Int /\ l <= Len(c.tx)
    BY <1>1
  <2>2. tx \in Seq(Byte) /\ Len(tx) = IF n + 1 <= l THEN l - (n + 1) + 1 ELSE 0
    BY <1>1, <2>1, Slice
  <2>3. Carries(h, s + (n + 1) - 1, tx, s + l)
    <3>1. s \in Int /\ s + l \in Int
      BY <1>1
    <3> QED BY <1>1, <1>4, <2>1, <3>1, CarriesPart
  <2> HIDE DEF l, tx
  <2>4. Len(tx) = l - n
    BY <1>1, <2>2
  <2>5. s + (n + 1) - 1 = k /\ s + l = k + Len(tx)
    BY <1>1, <2>4
  <2>6. Carries(h, k, tx, k + Len(tx))
    BY <2>3, <2>5
  <2> QED BY <2>2, <2>4, <2>6
<1>19. SendOK(h, wrote[h], x)
  <2>1. Carries(h, x.snd_nxt, x.tx, x.snd_nxt + Len(x.tx))
    BY <1>10, <1>18
  <2>2. DataEnd(x) + Len(x.tx) = DataEnd(c) + Len(c.tx)
    <3>1. Len(x.tx) = l - n
      BY <1>10, <1>18
    <3>2. s + n + (l - n) = s + l
      <4> HIDE DEF l
      <4> QED BY <1>1
    <3> QED BY <1>12, <3>1, <3>2
  <2>3. Isn[h] < c.snd_nxt
    BY <1>4 DEF SendOK
  <2>4. Isn[h] < x.snd_nxt /\ Isn[h] <= x.snd_nxt
    BY <1>1, <1>10, <1>12, <2>3
  <2>5. /\ DataEnd(c) + Len(c.tx) <= Isn[h] + 1 + wrote[h]
        /\ DataEnd(c) + Len(c.tx) = Isn[h] + 1 + wrote[h] /\ wrote[h] <= Len(AppData[h])
    BY <1>4 DEF SendOK
  <2> QED BY <1>3, <1>4, <1>10, <1>16, <1>17, <2>1, <2>2, <2>4, <2>5 DEF SendOK
<1>20. RecvOK(Other(h), got[h], conn[Other(h)], x)
  <2>1. Passes(c, x.state) /\ x.ooo \subseteq c.ooo
    BY <1>3, <1>10 DEF Passes
  <2> QED BY <1>10, <2>1, RecvSame DEF Sound
<1>21. Sound(h, x) /\ SameIn(c, x)
  BY <1>10, <1>19, <1>20 DEF Sound, Acked, SameIn
<1>22. \A i \in 1 .. Len(out) : SegOK(h, x, out[i])
  <2>1. out \in [1 .. N -> {Seg((i - 1) * size) : i \in 1 .. N}]
    OBVIOUS
  <2>2. Len(out) = N
    <3> DEFINE T == {Seg((i - 1) * size) : i \in 1 .. N}
    <3>1. out \in [1 .. N -> T]
      BY <2>1
    <3> HIDE DEF out, T
    <3> QED BY <1>5, <3>1, FcnIsSeq
  <2> SUFFICES ASSUME NEW i \in 1 .. N PROVE SegOK(h, x, out[i])
    BY <2>2
  <2> DEFINE o == (i - 1) * size
             m == Seg(o)
  <2>3. o \in Nat /\ o < n /\ out[i] = m
    BY <1>5
  <2> HIDE DEF o
  <2>4. m.seq = s + o /\ ~m.syn /\ ~m.fin /\ m.data = Chunk(o) /\ m.ack = c.rcv_nxt
    BY <1>9, <2>3
  <2> HIDE DEF m
  <2>5. Stamped(h, x, m)
    BY <1>14, <2>3, <2>4
  <2>6. m.ack <= x.rcv_nxt
    BY <1>1, <1>10, <2>4
  <2> QED BY <2>3, <2>5, <2>6 DEF SegOK
<1> HIDE DEF out, r
<1>23. Sends(h, c, r)
  BY <1>2, <1>3, <1>10, <1>13, <1>21, <1>22 DEF Sends, Steps
<1> QED BY <1>2, <1>3, <1>23 DEF r

\* Step 1: queued data
LEMMA SendQueuedSends ==
    ASSUME NEW h \in Host, NEW c, ConnOK(c), Sound(h, c), wrote[h] \in Nat
    PROVE  Sends(h, c, SendQueued(c)) /\ SendQueued(c).c.state = c.state
<1> DEFINE l == Len(c.tx)
           n == MinOf(Available(c), l)
<1>1. SendQueued(c) = IF Sending(c) /\ n > 0 THEN Transmit(c, n, c.peer_mss) ELSE Quietly(c)
  BY DEF SendQueued
<1>2. c \in Connection /\ c.peer_mss \in Nat \ {0} /\ l \in Nat
  BY ConnTypes DEF ConnOK, Connection
<1>3. Sends(h, c, Quietly(c)) /\ Quietly(c).c = c
  BY SendsNothing DEF Quietly, Result
<1>4. Available(c) \in Nat
  <2>1. c.cc \in CongestionControl /\ c.snd_wnd \in Nat
    BY <1>2 DEF Connection
  <2> QED BY <2>1, Saturating DEF Available, SendWindowAvailable, CongestionControl
<1>5. n \in Nat /\ n <= l
  <2> HIDE DEF l
  <2> QED BY <1>2, <1>4, Saturating
<1>6. CASE Sending(c) /\ n > 0
  <2>1. c.state # "Closed"
    BY <1>6 DEF Sending
  <2>2. n \in Nat \ {0} /\ n <= Len(c.tx)
    BY <1>5, <1>6
  <2>3. SendQueued(c) = Transmit(c, n, c.peer_mss)
    BY <1>1, <1>6
  <2> HIDE DEF n
  <2> QED BY <1>2, <2>1, <2>2, <2>3, TransmitSends
<1>7. CASE ~(Sending(c) /\ n > 0)
  BY <1>1, <1>3, <1>7
<1> QED BY <1>6, <1>7

\* The FIN leaves the connection open for sending again what is lost.
LEMMA EmitFinState ==
    ASSUME NEW c, ConnOK(c)
    PROVE  EmitFin(c).c.state \in {c.state, "FinWait1", "LastAck"}
<1> DEFINE s == IF c.state = "Established" THEN "FinWait1" ELSE "LastAck"
           k == c.snd_nxt + 1
           c1 == [c EXCEPT !.state = s, !.snd_nxt = k, !.fin_sent = TRUE]
           e == RtqEntry(c.snd_nxt, 1, FALSE, TRUE, TRUE, <<>>)
           x == TrackForRetransmit(c1, e)
           m == [AckSegment(c, c.snd_nxt) EXCEPT !.fin = TRUE]
<1>1. EmitFin(c) = IF MayEmitFin(c) THEN Result(x, <<m>>) ELSE Quietly(c)
  BY DEF EmitFin
<1>2. EmitFin(c).c = x \/ EmitFin(c).c = c
  <2> HIDE DEF x, m
  <2>1. Result(x, <<m>>).c = x /\ Quietly(c).c = c
    BY DEF Result, Quietly
  <2>2. CASE MayEmitFin(c)
    BY <1>1, <2>1, <2>2
  <2>3. CASE ~MayEmitFin(c)
    BY <1>1, <2>1, <2>3
  <2> QED BY <2>2, <2>3
<1>3. x.state = c1.state /\ c1.state = s
  <2>1. c \in Connection
    BY DEF ConnOK
  <2>2. c1.state = s /\ c1.rtq = c.rtq /\ c1.cc = c.cc
        /\ DOMAIN c1 = DOMAIN c
    BY <2>1 DEF Connection
  <2> DEFINE q == c1.rtq \cup {e}
             cc == RecordSent(c1.cc, e.end - e.seq)
  <2>3. x = [c1 EXCEPT !.rtq = q, !.cc = cc]
    BY DEF TrackForRetransmit
  <2> HIDE DEF q, cc, e, s, k
  <2>4. [c1 EXCEPT !.rtq = q, !.cc = cc].state = c1.state
    BY <2>1 DEF Connection
  <2> QED BY <2>2, <2>3, <2>4
<1> QED BY <1>2, <1>3

\* Step 2: the FIN that waited for the send buffer to drain
LEMMA DeferredFinSends ==
    ASSUME NEW h \in Host, NEW c, ConnOK(c), Sound(h, c), wrote[h] \in Nat
    PROVE  /\ Sends(h, c, DeferredFin(c))
           /\ DeferredFin(c).c.state \in {c.state, "FinWait1", "LastAck"}
<1>1. Sends(h, c, Quietly(c)) /\ Quietly(c).c = c
  BY SendsNothing DEF Quietly, Result
<1>2. CASE c.close_requested /\ c.tx = <<>>
  BY <1>2, EmitFinSends, EmitFinState DEF DeferredFin
<1>3. CASE ~(c.close_requested /\ c.tx = <<>>)
  BY <1>1, <1>3 DEF DeferredFin
<1> QED BY <1>2, <1>3

\* Step 3: the retransmission timer
LEMMA TimeoutSends ==
    ASSUME NEW h \in Host, NEW c, ConnOK(c), Sound(h, c)
    PROVE  Sends(h, c, Timeout(c)) /\ Timeout(c).c.state = c.state
<1> DEFINE cc == OnTimeout(c.cc)
           x == [c EXCEPT !.cc = cc]
<1>1. Timeout(c) = RetransmitOldest(x)
  BY DEF Timeout
<1>2. c \in Connection /\ c.cc \in CongestionControl
  BY DEF ConnOK, Connection
<1>3. cc \in CongestionControl /\ cc.in_flight = c.cc.in_flight
  BY <1>2, OnTimeoutOK
<1> HIDE DEF cc
<1>4. /\ x \in Connection /\ Kin(c, x) /\ x.state = c.state /\ x.cc = cc
      /\ x.snd_una = c.snd_una /\ x.snd_nxt = c.snd_nxt /\ SameReceive(c, x)
  BY <1>2, <1>3 DEF Connection, Kin, SameOut, SameReceive
<1> HIDE DEF x
<1>5. x.cc.in_flight = c.cc.in_flight
  BY <1>3, <1>4
<1>6. ConnOK(x) /\ Passes(c, x.state)
  BY <1>4, <1>5, SetOK DEF Passes
<1>7. Turns(h, c, x)
  BY <1>2, <1>4, <1>6, TurnsKin
<1>8. Sends(h, x, RetransmitOldest(x)) /\ RetransmitOldest(x).c.state = x.state
  BY <1>7, RetransmitOldestSends DEF Turns
<1>9. Sends(h, c, RetransmitOldest(x))
  BY <1>2, <1>7, <1>8, TurnsThen
<1> QED BY <1>1, <1>4, <1>8, <1>9

\* The persist timer set or cleared
LEMMA PersistTurns ==
    ASSUME NEW h, NEW c, ConnOK(c), Sound(h, c), NEW b \in BOOLEAN
    PROVE  Turns(h, c, [c EXCEPT !.persist = b]) /\ [c EXCEPT !.persist = b].state = c.state
<1> DEFINE x == [c EXCEPT !.persist = b]
<1>1. c \in Connection
  BY DEF ConnOK
<1>2. /\ x \in Connection /\ Kin(c, x) /\ x.state = c.state /\ x.cc = c.cc
      /\ x.snd_una = c.snd_una /\ x.snd_nxt = c.snd_nxt /\ SameReceive(c, x)
  BY <1>1 DEF Connection, Kin, SameOut, SameReceive
<1> HIDE DEF x
<1>3. ConnOK(x) /\ Passes(c, x.state)
  BY <1>2, SetOK DEF Passes
<1>4. Turns(h, c, x)
  BY <1>1, <1>2, <1>3, TurnsKin
<1> QED BY <1>2, <1>4 DEF x

\* Step 5: the zero-window probe
LEMMA ProbeSends ==
    ASSUME NEW h \in Host, NEW c, ConnOK(c), Sound(h, c), wrote[h] \in Nat,
           c.state # "Closed", NEW wasSending, NEW isDue
    PROVE  Sends(h, c, Probe(c, wasSending, isDue))
<1> DEFINE r == Probe(c, wasSending, isDue)
           x == [c EXCEPT !.persist = FALSE]
           y == [c EXCEPT !.persist = TRUE]
<1>1. r = IF ~(wasSending /\ Stalled(c)) THEN Quietly(x)
          ELSE IF c.persist /\ isDue THEN Transmit(c, 1, 1) ELSE Quietly(y)
  BY DEF Probe
<1>2. Sends(h, c, Quietly(x)) /\ Sends(h, c, Quietly(y))
  <2>1. TRUE \in BOOLEAN /\ FALSE \in BOOLEAN
    OBVIOUS
  <2>2. Turns(h, c, x) /\ Turns(h, c, y)
    BY <2>1, PersistTurns
  <2> HIDE DEF x, y
  <2> QED BY <2>2, TurnsQuietly
<1>3. Stalled(c) => Sends(h, c, Transmit(c, 1, 1))
  <2> SUFFICES ASSUME Stalled(c) PROVE Sends(h, c, Transmit(c, 1, 1))
    OBVIOUS
  <2>1. c.tx # <<>> /\ c.tx \in Seq(Byte) /\ Len(c.tx) \in Nat
    BY ConnTypes DEF Stalled, ConnOK
  <2>2. Len(c.tx) # 0
    BY <2>1, EmptySeq
  <2>3. 1 <= Len(c.tx) /\ 1 \in Nat \ {0}
    BY <2>1, <2>2
  <2> QED BY <2>3, TransmitSends
<1> HIDE DEF r, x, y
<1>4. Sends(h, c, r)
  BY <1>1, <1>2, <1>3
<1> QED BY <1>4 DEF r

\* poll_output, whatever timers are due
LEMMA PollOutputSends ==
    ASSUME NEW h \in Host, NEW c, ConnOK(c), Sound(h, c), wrote[h] \in Nat, NEW due
    PROVE  Sends(h, c, PollOutput(c, due))
<1> DEFINE s1 == SendQueued(c)
           s2 == DeferredFin(s1.c)
           s3 == IF "rto" \in due THEN Timeout(s2.c) ELSE Quietly(s2.c)
           s4 == IF WindowReopened(s3.c) THEN BuildAck(s3.c) ELSE Quietly(s3.c)
           s5 == Probe(s4.c, Sending(c), "persist" \in due)
           c6 == IF "timewait" \in due THEN [s5.c EXCEPT !.state = "Closed"] ELSE s5.c
           a == Abort(s2.c)
           p2 == Result(s2.c, s1.out \o s2.out)
           p3 == Result(s3.c, s1.out \o s2.out \o s3.out)
           p4 == Result(s4.c, s1.out \o s2.out \o s3.out \o s4.out)
           p5 == Result(s5.c, s1.out \o s2.out \o s3.out \o s4.out \o s5.out)
           r == PollOutput(c, due)
<1>1. r = IF c.aborted \/ c.state = "Closed" THEN Quietly(c)
          ELSE IF "rto" \in due /\ Exhausted(s2.c)
               THEN Result(a, s1.out \o s2.out)
               ELSE Result(c6, s1.out \o s2.out \o s3.out \o s4.out \o s5.out)
  BY DEF PollOutput
<1>2. c \in Connection
  BY DEF ConnOK
<1>3. CASE c.aborted \/ c.state = "Closed"
  BY <1>1, <1>3, SendsNothing
<1>4. CASE ~(c.aborted \/ c.state = "Closed")
  <2>1. Sends(h, c, s1) /\ s1.c.state # "Closed"
    BY <1>4, SendQueuedSends
  <2> HIDE DEF s1
  <2>2. ConnOK(s1.c) /\ Sound(h, s1.c)
    BY <2>1 DEF Sends, Steps
  <2>3. Sends(h, s1.c, s2) /\ s2.c.state # "Closed"
    BY <2>1, <2>2, DeferredFinSends
  <2> HIDE DEF s2
  <2>4. ConnOK(s2.c) /\ Sound(h, s2.c)
    BY <2>3 DEF Sends, Steps
  <2>5. Sends(h, c, p2) /\ p2.c = s2.c /\ p2.out = s1.out \o s2.out
    BY <1>2, <2>1, <2>3, SendsTwice DEF Result
  <2>6. CASE "rto" \in due /\ Exhausted(s2.c)
    <3>1. Sends(h, s2.c, Quietly(a))
      BY <2>4, AbortSends
    <3>2. Turns(h, p2.c, a)
      <4>1. Quietly(a).c = a
        BY DEF Quietly, Result
      <4> HIDE DEF a
      <4> QED BY <2>5, <3>1, <4>1, TurnsOf
    <3> HIDE DEF p2, a
    <3>3. Sends(h, c, Result(a, p2.out))
      BY <1>2, <2>5, <3>2, SendsThenTurns
    <3> QED BY <1>1, <1>4, <2>5, <2>6, <3>3
  <2>7. CASE ~("rto" \in due /\ Exhausted(s2.c))
    <3>1. Sends(h, s2.c, s3) /\ s3.c.state = s2.c.state
      <4>1. Sends(h, s2.c, Quietly(s2.c)) /\ Quietly(s2.c).c = s2.c
        BY <2>4, SendsNothing DEF Quietly, Result
      <4>2. Sends(h, s2.c, Timeout(s2.c)) /\ Timeout(s2.c).c.state = s2.c.state
        BY <2>4, TimeoutSends
      <4> QED BY <4>1, <4>2
    <3> HIDE DEF s3
    <3>2. ConnOK(s3.c) /\ Sound(h, s3.c)
      BY <3>1 DEF Sends, Steps
    <3>3. Sends(h, s3.c, s4) /\ s4.c.state = s3.c.state
      <4>1. Sends(h, s3.c, Quietly(s3.c)) /\ Quietly(s3.c).c = s3.c
        BY <3>2, SendsNothing DEF Quietly, Result
      <4>2. Sends(h, s3.c, BuildAck(s3.c)) /\ BuildAck(s3.c).c.state = s3.c.state
        BY <3>2, BuildAckSends
      <4> QED BY <4>1, <4>2
    <3> HIDE DEF s4
    <3>4. ConnOK(s4.c) /\ Sound(h, s4.c) /\ s4.c.state # "Closed"
      BY <2>3, <3>1, <3>3 DEF Sends, Steps
    <3>5. Sends(h, s4.c, s5)
      BY <3>4, ProbeSends
    <3> HIDE DEF s5
    <3>6. ConnOK(s5.c) /\ Sound(h, s5.c) /\ s5.c \in Connection
      BY <3>5 DEF Sends, Steps, ConnOK
    <3> HIDE DEF p2
    <3>7. Sends(h, c, p3) /\ p3.c = s3.c /\ p3.out = p2.out \o s3.out
      <4>1. Sends(h, c, Result(s3.c, p2.out \o s3.out))
        BY <1>2, <2>5, <3>1, SendsTwice
      <4> QED BY <2>5, <4>1 DEF Result
    <3> HIDE DEF p3
    <3>8. Sends(h, c, p4) /\ p4.c = s4.c /\ p4.out = p3.out \o s4.out
      <4>1. Sends(h, c, Result(s4.c, p3.out \o s4.out))
        BY <1>2, <3>3, <3>7, SendsTwice
      <4> QED BY <2>5, <3>7, <4>1 DEF Result
    <3> HIDE DEF p4
    <3>9. Sends(h, c, p5) /\ p5.c = s5.c /\ p5.out = p4.out \o s5.out
      <4>1. Sends(h, c, Result(s5.c, p4.out \o s5.out))
        BY <1>2, <3>5, <3>8, SendsTwice
      <4> QED BY <2>5, <3>7, <3>8, <4>1 DEF Result
    <3> HIDE DEF p5
    <3>10. Turns(h, s5.c, c6)
      <4>1. Turns(h, s5.c, s5.c)
        BY <3>6, AdvancesSame DEF Turns, SameIn
      <4>2. "Closed" \in TcpState \ {"Listen", "SynSent"} /\ Passes(s5.c, "Closed")
        BY DEF TcpState, Passes
      <4>3. Turns(h, s5.c, [s5.c EXCEPT !.state = "Closed"])
        BY <3>6, <4>2, StateTurns
      <4> QED BY <4>1, <4>3
    <3> HIDE DEF c6
    <3>11. Sends(h, c, Result(c6, p5.out))
      BY <1>2, <3>9, <3>10, SendsThenTurns
    <3>12. p5.out = s1.out \o s2.out \o s3.out \o s4.out \o s5.out
      BY <2>5, <3>7, <3>8, <3>9
    <3> QED BY <1>1, <1>4, <2>7, <3>11, <3>12
  <2> QED BY <2>6, <2>7
<1> QED BY <1>3, <1>4


-----------------------------------------------------------------------------
(* Queues of segments *)

\* Every segment of the queue s may come from host h, whose connection is c.
Good(h, c, s) == \A i \in 1 .. Len(s) : SegOK(h, c, s[i])

\* Two queues one after the other.
LEMMA GoodBoth ==
    ASSUME NEW h, NEW c, NEW s \in Seq(Segment), NEW t \in Seq(Segment),
           Good(h, c, s), Good(h, c, t)
    PROVE  Good(h, c, s \o t) /\ s \o t \in Seq(Segment)
<1> DEFINE n == Len(s)
           k == Len(t)
           p == s \o t
<1>1. n \in Nat /\ k \in Nat
  BY LenProperties
<1>2. /\ p \in Seq(Segment) /\ Len(p) = n + k
      /\ \A i \in 1 .. n + k : p[i] = IF i <= n THEN s[i] ELSE t[i - n]
  BY ConcatProperties
<1>3. /\ \A i \in 1 .. n : SegOK(h, c, s[i])
      /\ \A i \in 1 .. k : SegOK(h, c, t[i])
  BY DEF Good
<1> HIDE DEF n, k, p
<1>4. ASSUME NEW i \in 1 .. n + k PROVE SegOK(h, c, p[i])
  <2>1. CASE i <= n
    <3>1. i \in 1 .. n /\ p[i] = s[i]
      BY <1>1, <1>2, <2>1
    <3> QED BY <1>3, <3>1
  <2>2. CASE ~(i <= n)
    <3>1. i - n \in 1 .. k /\ p[i] = t[i - n]
      BY <1>1, <1>2, <2>2
    <3> QED BY <1>3, <3>1
  <2> QED BY <2>1, <2>2
<1>5. Good(h, c, p)
  BY <1>2, <1>4 DEF Good
<1> QED BY <1>2, <1>5 DEF p

\* One segment.
LEMMA GoodOne ==
    ASSUME NEW h, NEW c, NEW m \in Segment, SegOK(h, c, m)
    PROVE  Good(h, c, <<m>>) /\ <<m>> \in Seq(Segment)
<1>1. Len(<<m>>) = 1 /\ <<m>>[1] = m /\ <<m>> \in Seq(Segment)
  OBVIOUS
<1> HIDE DEF SegOK
<1> QED BY <1>1 DEF Good

\* No segment.
LEMMA GoodNone ==
    ASSUME NEW h, NEW c
    PROVE  Good(h, c, <<>>) /\ <<>> \in Seq(Segment)
<1>1. Len(<<>>) = 0
  OBVIOUS
<1> QED BY <1>1, EmptySeq DEF Good

\* A queue that the network holds while its sender moves on.
LEMMA GoodLater ==
    ASSUME NEW h \in Host, NEW c \in Connection, NEW d \in Connection, Advances(c, d),
           NEW s \in Seq(Segment), Good(h, c, s)
    PROVE  Good(h, d, s)
<1>1. ASSUME NEW i \in 1 .. Len(s) PROVE SegOK(h, d, s[i])
  <2>1. s[i] \in Segment
    BY ElementOfSeq
  <2>2. SegOK(h, c, s[i])
    BY DEF Good
  <2> QED BY <2>1, <2>2, SegLater
<1> QED BY <1>1 DEF Good

\* A part of a queue.
LEMMA GoodPart ==
    ASSUME NEW h, NEW c, NEW s \in Seq(Segment), Good(h, c, s),
           NEW i \in Nat \ {0}, NEW j \in Int, j <= Len(s)
    PROVE  Good(h, c, SubSeq(s, i, j)) /\ SubSeq(s, i, j) \in Seq(Segment)
<1> DEFINE p == SubSeq(s, i, j)
           n == Len(s)
<1>1. n \in Nat /\ i \in Int
  BY LenProperties
<1>2. \A k \in i .. j : k \in 1 .. n
  <2> HIDE DEF n
  <2>1. j <= n
    BY DEF n
  <2> QED BY <1>1, <2>1
<1>3. \A k \in i .. j : s[k] \in Segment /\ SegOK(h, c, s[k])
  <2>1. \A k \in 1 .. Len(s) : s[k] \in Segment /\ SegOK(h, c, s[k])
    BY ElementOfSeq DEF Good
  <2> QED BY <1>2, <2>1
<1>4. /\ Len(p) = IF i <= j THEN j - i + 1 ELSE 0
      /\ \A k \in 1 .. j - i + 1 : p[k] = s[i + k - 1]
      /\ p \in Seq(Segment)
  <2>1. \A k \in i .. j : s[k] \in Segment
    BY <1>3
  <2> QED BY <1>1, <2>1, SubSeqProperties
<1> HIDE DEF p, n
<1>5. ASSUME NEW k \in 1 .. Len(p) PROVE SegOK(h, c, p[k])
  <2>1. k \in 1 .. j - i + 1 /\ i + k - 1 \in i .. j
    BY <1>4
  <2> QED BY <1>3, <1>4, <2>1
<1> QED BY <1>4, <1>5 DEF Good, p

\* The wire without its i-th segment.
LEMMA GoodWithout ==
    ASSUME NEW h, NEW c, NEW s \in Seq(Segment), Good(h, c, s), NEW i \in DOMAIN s
    PROVE  Good(h, c, Without(s, i)) /\ Without(s, i) \in Seq(Segment)
<1> DEFINE n == Len(s)
<1>1. n \in Nat /\ i \in 1 .. n
  BY LenProperties
<1>2. /\ i - 1 \in Int /\ i - 1 <= n /\ i + 1 \in Nat \ {0} /\ n \in Int /\ 1 \in Nat \ {0}
      /\ n <= n
  <2> HIDE DEF n
  <2> QED BY <1>1
<1>3. Good(h, c, SubSeq(s, 1, i - 1)) /\ SubSeq(s, 1, i - 1) \in Seq(Segment)
  BY <1>2, GoodPart
<1>4. Good(h, c, SubSeq(s, i + 1, n)) /\ SubSeq(s, i + 1, n) \in Seq(Segment)
  BY <1>2, GoodPart
<1> QED BY <1>3, <1>4, GoodBoth DEF Without

\* A segment in front of h was sent by its peer.
LEMMA ArrivingGood ==
    ASSUME IInv, StreamInv, NEW h \in Host, NEW i \in DOMAIN wire[h]
    PROVE  wire[h][i] \in Segment /\ SegOK(Other(h), conn[Other(h)], wire[h][i])
<1>1. TypeOK /\ Other(h) \in Host /\ Other(Other(h)) = h
  BY TwoHosts DEF IInv
<1>2. Flight(Other(h))
  BY <1>1 DEF StreamInv
<1> QED BY <1>1, <1>2, ArrivingOK DEF Flight

\* The queues of the two hosts, as the invariant describes them.
LEMMA QueuesGood ==
    ASSUME IInv, StreamInv, NEW h \in Host
    PROVE  /\ wire[h] \in Seq(Segment) /\ txq[h] \in Seq(Segment)
           /\ Good(Other(h), conn[Other(h)], wire[h]) /\ Good(h, conn[h], txq[h])
<1>1. wire[h] \in Seq(Segment) /\ txq[h] \in Seq(Segment)
  BY DEF IInv, TypeOK
<1>2. Other(h) \in Host /\ Other(Other(h)) = h
  BY TwoHosts
<1>3. Flight(Other(h)) /\ Flight(h)
  BY <1>2 DEF StreamInv
<1>4. DOMAIN wire[h] = 1 .. Len(wire[h]) /\ DOMAIN txq[h] = 1 .. Len(txq[h])
  BY <1>1, LenProperties
<1> QED BY <1>1, <1>2, <1>3, <1>4 DEF Flight, Good

-----------------------------------------------------------------------------
(* One lemma per action: it preserves StreamInv and moves the streams forward *)

\* What a step of host h does to the two streams of the connection: what was written
\* is followed by more, unless the application has closed; what was received is
\* followed by more, unless the FIN has been taken; nothing is taken back.
Evolves(h) ==
    /\ \A g \in Host : g # h => conn'[g] = conn[g] /\ wrote'[g] = wrote[g] /\ got'[g] = got[g]
    /\ Advances(conn[h], conn'[h])
    /\ conn[h].close_requested => conn'[h].close_requested
    /\ conn[h].fin_received => conn'[h].fin_received
    /\ wrote[h] <= wrote'[h]
    /\ wrote'[h] # wrote[h] => ~conn[h].close_requested /\ ~conn'[h].close_requested
    /\ \E f \in Seq(Byte) : got'[h] \o conn'[h].rx = (got[h] \o conn[h].rx) \o f
    /\ conn'[h].fin_received => got'[h] \o conn'[h].rx = got[h] \o conn[h].rx

\* Nothing added to a sequence of bytes.
LEMMA ConcatNothing ==
    ASSUME NEW s \in Seq(Byte)
    PROVE  s \o <<>> = s /\ <<>> \in Seq(Byte)
  BY EmptySeq, ConcatEmptySeq

\* A step of host h that leaves it with connection x.
LEMMA StepStreams ==
    ASSUME IInv, StreamInv, NEW h \in Host, NEW x \in Connection,
           conn' = [conn EXCEPT ![h] = x], Advances(conn[h], x),
           SendOK(h, wrote'[h], x), RecvOK(Other(h), got'[h], conn[Other(h)], x),
           Acked(h, conn[Other(h)], x),
           wrote'[Other(h)] = wrote[Other(h)], got'[Other(h)] = got[Other(h)],
           slot'[Other(h)] = "free" => slot[Other(h)] = "free",
           slot'[h] = "free" => wrote'[h] = 0 /\ got'[h] = <<>>,
           wire' \in [Host -> Seq(Segment)], txq' \in [Host -> Seq(Segment)],
           Good(h, x, wire'[Other(h)]), Good(h, x, txq'[h]),
           Good(Other(h), conn[Other(h)], wire'[h]), txq'[Other(h)] = txq[Other(h)]
    PROVE  StreamInv'
<1> DEFINE o == Other(h)
           d == conn[o]
<1>1. /\ o \in Host /\ o # h /\ Other(o) = h /\ \A g \in Host : g = h \/ g = o
  BY TwoHosts
<1>2. TypeOK /\ conn \in [Host -> Connection] /\ conn[h] \in Connection /\ d \in Connection
      /\ got[o] \in Seq(Byte)
  BY <1>1 DEF IInv, TypeOK
<1>3. conn'[h] = x /\ conn'[o] = d
  BY <1>1, <1>2
<1>4. Sound(o, d) /\ (slot[o] = "free" => wrote[o] = 0 /\ got[o] = <<>>)
  BY <1>1 DEF StreamInv
<1>5. /\ SendOK(o, wrote[o], d) /\ RecvOK(h, got[o], conn[h], d) /\ Acked(o, conn[h], d)
  BY <1>1, <1>4 DEF Sound
<1>6. RecvOK(h, got[o], x, d) /\ Acked(o, x, d)
  <2> HIDE DEF d, o
  <2> QED BY <1>1, <1>2, <1>5, RecvLater, AckedLater
<1>7. Good(o, d, txq[o])
  BY <1>1, QueuesGood
<1>8. /\ \A g \in Host : DOMAIN wire'[g] = 1 .. Len(wire'[g])
      /\ \A g \in Host : DOMAIN txq'[g] = 1 .. Len(txq'[g])
  BY LenProperties
<1> SUFFICES ASSUME NEW g \in Host
             PROVE  (/\ Sound(g, conn[g]) /\ Flight(g)
                     /\ slot[g] = "free" => wrote[g] = 0 /\ got[g] = <<>>)'
  BY DEF StreamInv
<1>9. CASE g = h
  <2>1. /\ SendOK(h, wrote'[h], conn'[h]) /\ RecvOK(o, got'[h], conn'[o], conn'[h])
        /\ Acked(h, conn'[o], conn'[h])
    BY <1>3
  <2>2. Sound(h, conn[h])'
    BY <2>1 DEF Sound
  <2>3. Flight(h)'
    BY <1>1, <1>3, <1>8 DEF Flight, Good
  <2> QED BY <1>9, <2>2, <2>3
<1>10. CASE g = o
  <2>1. /\ SendOK(o, wrote'[o], conn'[o]) /\ RecvOK(Other(o), got'[o], conn'[Other(o)], conn'[o])
        /\ Acked(o, conn'[Other(o)], conn'[o])
    BY <1>1, <1>3, <1>5, <1>6
  <2>2. Sound(o, conn[o])'
    BY <2>1 DEF Sound
  <2>3. Flight(o)'
    BY <1>1, <1>3, <1>7, <1>8 DEF Flight, Good
  <2> QED BY <1>4, <1>10, <2>2, <2>3
<1> QED BY <1>1, <1>9, <1>10

\* A step in which h's handler leaves result r, and neither application gets or gives
\* a byte.
LEMMA HandlerStreams ==
    ASSUME IInv, StreamInv, NEW h \in Host, NEW x, ConnOK(x),
           conn' = [conn EXCEPT ![h] = x], Sound(h, x), Advances(conn[h], x),
           conn[h].close_requested => x.close_requested, Took(conn[h], x),
           wrote' = wrote, got' = got,
           slot'[Other(h)] = slot[Other(h)], slot'[h] = "free" => slot[h] = "free",
           wire' \in [Host -> Seq(Segment)], txq' \in [Host -> Seq(Segment)],
           Good(h, x, wire'[Other(h)]), Good(h, x, txq'[h]),
           Good(Other(h), conn[Other(h)], wire'[h]), txq'[Other(h)] = txq[Other(h)]
    PROVE  StreamInv' /\ Evolves(h)
<1>1. x \in Connection /\ conn[h] \in Connection /\ conn \in [Host -> Connection]
      /\ got[h] \in Seq(Byte) /\ wrote[h] \in Nat
  BY DEF ConnOK, IInv, TypeOK
<1>2. SendOK(h, wrote'[h], x) /\ RecvOK(Other(h), got'[h], conn[Other(h)], x)
      /\ Acked(h, conn[Other(h)], x)
  BY DEF Sound
<1>3. slot'[h] = "free" => wrote'[h] = 0 /\ got'[h] = <<>>
  BY DEF StreamInv
<1>4. StreamInv'
  BY <1>1, <1>2, <1>3, StepStreams
<1>5. conn'[h] = x /\ \A g \in Host : g # h => conn'[g] = conn[g]
  BY <1>1
<1>6. \E f \in Seq(Byte) : got[h] \o x.rx = (got[h] \o conn[h].rx) \o f
  <2>1. PICK f \in Seq(Byte) : x.rx = conn[h].rx \o f
    BY DEF Took, Extends
  <2>2. conn[h].rx \in Seq(Byte)
    BY <1>1, ConnTypes
  <2>3. got[h] \o (conn[h].rx \o f) = (got[h] \o conn[h].rx) \o f
    BY <1>1, <2>2, Concat3
  <2> QED BY <2>1, <2>3
<1>7. /\ conn[h].fin_received => x.fin_received
      /\ x.fin_received => got[h] \o x.rx = got[h] \o conn[h].rx
  BY DEF Took
<1>8. wrote'[h] = wrote[h] /\ wrote[h] <= wrote'[h]
  BY <1>1
<1> QED BY <1>4, <1>5, <1>6, <1>7, <1>8 DEF Evolves

\* Taking nothing is a special case of taking something.
LEMMA SameInTook ==
    ASSUME NEW c \in Connection, NEW x, SameIn(c, x), c.rcv_nxt <= x.rcv_nxt
    PROVE  Took(c, x)
<1>1. c.rx \in Seq(Byte)
  BY ConnTypes
<1>2. x.rx = c.rx \o <<>> /\ <<>> \in Seq(Byte)
  BY <1>1, ConcatNothing DEF SameIn
<1> QED BY <1>2 DEF Took, Extends, SameIn

\* What a handler that keeps its promises hands to the step it is part of.
LEMMA MovesGives ==
    ASSUME NEW h, NEW c, NEW r, Moves(h, c, r)
    PROVE  /\ ConnOK(r.c) /\ Sound(h, r.c) /\ Advances(c, r.c) /\ Took(c, r.c)
           /\ r.c.close_requested = c.close_requested
           /\ r.out \in Seq(Segment) /\ Good(h, r.c, r.out)
  BY DEF Moves, Steps, Good

\* Host h has moved on to connection x and put out in tcp_tx.
LEMMA QueueMore ==
    ASSUME IInv, StreamInv, NEW h \in Host, NEW x \in Connection, Advances(conn[h], x),
           NEW out \in Seq(Segment), Good(h, x, out),
           txq' = [txq EXCEPT ![h] = @ \o out], wire' = wire
    PROVE  /\ Good(h, x, wire'[Other(h)]) /\ Good(h, x, txq'[h])
           /\ Good(Other(h), conn[Other(h)], wire'[h]) /\ txq'[Other(h)] = txq[Other(h)]
<1>1. Other(h) \in Host /\ Other(h) # h /\ Other(Other(h)) = h
  BY TwoHosts
<1>2. /\ wire[h] \in Seq(Segment) /\ txq[h] \in Seq(Segment)
      /\ Good(Other(h), conn[Other(h)], wire[h]) /\ Good(h, conn[h], txq[h])
      /\ wire[Other(h)] \in Seq(Segment) /\ Good(h, conn[h], wire[Other(h)])
  BY <1>1, QueuesGood
<1>3. conn[h] \in Connection /\ txq \in [Host -> Seq(Segment)]
  BY DEF IInv, TypeOK
<1>4. Good(h, x, txq[h]) /\ Good(h, x, wire[Other(h)])
  BY <1>2, <1>3, GoodLater
<1>5. Good(h, x, txq[h] \o out)
  BY <1>2, <1>4, GoodBoth
<1>6. txq'[h] = txq[h] \o out /\ txq'[Other(h)] = txq[Other(h)]
  BY <1>1, <1>3
<1> QED BY <1>2, <1>4, <1>5, <1>6

\* Host h has moved on to connection x and left both queues alone.
LEMMA QueueSame ==
    ASSUME IInv, StreamInv, NEW h \in Host, NEW x \in Connection, Advances(conn[h], x),
           txq' = txq, wire' = wire
    PROVE  /\ Good(h, x, wire'[Other(h)]) /\ Good(h, x, txq'[h])
           /\ Good(Other(h), conn[Other(h)], wire'[h]) /\ txq'[Other(h)] = txq[Other(h)]
<1>1. Other(h) \in Host /\ Other(h) # h /\ Other(Other(h)) = h
  BY TwoHosts
<1>2. /\ wire[h] \in Seq(Segment) /\ txq[h] \in Seq(Segment)
      /\ Good(Other(h), conn[Other(h)], wire[h]) /\ Good(h, conn[h], txq[h])
      /\ wire[Other(h)] \in Seq(Segment) /\ Good(h, conn[h], wire[Other(h)])
  BY <1>1, QueuesGood
<1>3. conn[h] \in Connection
  BY DEF IInv, TypeOK
<1>4. Good(h, x, txq[h]) /\ Good(h, x, wire[Other(h)])
  BY <1>2, <1>3, GoodLater
<1> QED BY <1>2, <1>4

\* connect
LEMMA TcpConnectStreams ==
    ASSUME IInv, StreamInv, TypeOK', NEW h \in Host, TcpConnect(h)
    PROVE  StreamInv' /\ Evolves(h)
<1> DEFINE r == InitiateSyn(conn[h])
<1>1. /\ conn' = [conn EXCEPT ![h] = r.c] /\ slot' = [slot EXCEPT ![h] = "live"]
      /\ txq' = [txq EXCEPT ![h] = @ \o r.out] /\ h \in Clients /\ slot[h] = "free"
      /\ wire' = wire /\ wrote' = wrote /\ got' = got
  BY DEF TcpConnect
<1>2. conn[h] = Fresh(h) /\ Sound(h, conn[h]) /\ wrote[h] = 0 /\ got[h] = <<>>
      /\ conn[h] \in Connection /\ slot \in [Host -> Slot]
  BY <1>1 DEF IInv, TypeOK, ConnInv, StreamInv
<1>3. Moves(h, conn[h], r)
  BY <1>1, <1>2, InitiateSynSends, SendsMoves
<1> HIDE DEF r
<1>4. /\ ConnOK(r.c) /\ Sound(h, r.c) /\ Advances(conn[h], r.c) /\ Took(conn[h], r.c)
      /\ r.c.close_requested = conn[h].close_requested
      /\ r.out \in Seq(Segment) /\ Good(h, r.c, r.out)
  BY <1>3, MovesGives
<1>5. r.c \in Connection
  BY <1>4 DEF ConnOK
<1>6. /\ Good(h, r.c, wire'[Other(h)]) /\ Good(h, r.c, txq'[h])
      /\ Good(Other(h), conn[Other(h)], wire'[h]) /\ txq'[Other(h)] = txq[Other(h)]
  BY <1>1, <1>4, <1>5, QueueMore
<1>7. slot'[Other(h)] = slot[Other(h)] /\ slot'[h] # "free"
  BY <1>1, <1>2, TwoHosts
<1>8. wire' \in [Host -> Seq(Segment)] /\ txq' \in [Host -> Seq(Segment)]
  BY DEF TypeOK
<1> QED BY <1>1, <1>4, <1>6, <1>7, <1>8, HandlerStreams

\* write
LEMMA TcpWriteStreams ==
    ASSUME IInv, StreamInv, TypeOK', NEW h \in Host, NEW n \in Nat, TcpWrite(h, n)
    PROVE  StreamInv' /\ Evolves(h)
<1> DEFINE c == conn[h]
           x == Write(c, SubSeq(AppData[h], wrote[h] + 1, wrote[h] + n))
           k == Len(x.tx) - Len(c.tx)
<1>1. /\ conn' = [conn EXCEPT ![h] = x] /\ wrote' = [wrote EXCEPT ![h] = @ + k]
      /\ slot[h] = "live" /\ wrote[h] + n <= Len(AppData[h]) /\ Sending(c)
      /\ ~c.close_requested
      /\ slot' = slot /\ txq' = txq /\ wire' = wire /\ got' = got
  BY DEF TcpWrite
<1>2. /\ ConnOK(c) /\ Sound(h, c) /\ wrote[h] \in Nat /\ conn \in [Host -> Connection]
      /\ wrote \in [Host -> Nat] /\ got[h] \in Seq(Byte) /\ c \in Connection
  BY DEF IInv, TypeOK, ConnInv, StreamInv
<1>3. /\ SendOK(h, wrote[h] + k, x) /\ k \in Nat
      /\ RecvOK(Other(h), got[h], conn[Other(h)], x)
      /\ Acked(h, conn[Other(h)], x) /\ Advances(c, x) /\ SameIn(c, x)
      /\ x.close_requested = c.close_requested
  BY <1>1, <1>2, WriteSends
<1> HIDE DEF x, k
<1>4. /\ conn'[h] = x /\ \A g \in Host : g # h => conn'[g] = conn[g]
  BY <1>1, <1>2
<1>5. x \in Connection
  <2>1. conn' \in [Host -> Connection]
    BY DEF TypeOK
  <2> QED BY <1>4, <2>1
<1>6. /\ Good(h, x, wire'[Other(h)]) /\ Good(h, x, txq'[h])
      /\ Good(Other(h), conn[Other(h)], wire'[h]) /\ txq'[Other(h)] = txq[Other(h)]
  BY <1>1, <1>3, <1>5, QueueSame
<1>7. /\ wrote'[h] = wrote[h] + k /\ \A g \in Host : g # h => wrote'[g] = wrote[g]
  BY <1>1, <1>2
<1>8. wire' \in [Host -> Seq(Segment)] /\ txq' \in [Host -> Seq(Segment)]
  BY DEF TypeOK
<1>9. Other(h) \in Host /\ Other(h) # h
  BY TwoHosts
<1>10. StreamInv'
  <2>1. /\ wrote'[Other(h)] = wrote[Other(h)] /\ got'[Other(h)] = got[Other(h)]
        /\ slot'[Other(h)] = "free" => slot[Other(h)] = "free"
    BY <1>1, <1>7, <1>9
  <2>2. slot'[h] = "free" => wrote'[h] = 0 /\ got'[h] = <<>>
    BY <1>1
  <2>3. SendOK(h, wrote'[h], x) /\ RecvOK(Other(h), got'[h], conn[Other(h)], x)
    BY <1>1, <1>3, <1>7
  <2>4. conn' = [conn EXCEPT ![h] = x] /\ Advances(conn[h], x)
    BY <1>1, <1>3
  <2> HIDE DEF c
  <2> QED BY <1>3, <1>5, <1>6, <1>8, <2>1, <2>2, <2>3, <2>4, StepStreams
<1>11. /\ got'[h] \o conn'[h].rx = got[h] \o conn[h].rx
       /\ \E f \in Seq(Byte) : got'[h] \o conn'[h].rx = (got[h] \o conn[h].rx) \o f
  <2>1. got'[h] \o conn'[h].rx = got[h] \o conn[h].rx
    BY <1>1, <1>3, <1>4 DEF SameIn
  <2>2. got[h] \o conn[h].rx \in Seq(Byte)
    BY <1>2, ConnTypes, ConcatProperties
  <2> QED BY <2>1, <2>2, ConcatNothing
<1>12. wrote[h] <= wrote'[h]
  BY <1>2, <1>3, <1>7
<1> QED BY <1>1, <1>3, <1>4, <1>7, <1>10, <1>11, <1>12 DEF Evolves, SameIn

\* read
LEMMA TcpReadStreams ==
    ASSUME IInv, StreamInv, TypeOK', NEW h \in Host, NEW n \in Nat, TcpRead(h, n)
    PROVE  StreamInv' /\ Evolves(h)
<1> DEFINE c == conn[h]
           x == Read(c, n)
           g == got[h] \o SubSeq(c.rx, 1, n)
<1>1. /\ conn' = [conn EXCEPT ![h] = x] /\ got' = [got EXCEPT ![h] = g]
      /\ slot[h] \in {"live", "reaped"} /\ n <= Len(c.rx)
      /\ slot' = slot /\ txq' = txq /\ wire' = wire /\ wrote' = wrote
  BY DEF TcpRead
<1>2. /\ ConnOK(c) /\ Sound(h, c) /\ wrote[h] \in Nat /\ conn \in [Host -> Connection]
      /\ got \in [Host -> Seq(Byte)] /\ got[h] \in Seq(Byte) /\ c \in Connection
  BY DEF IInv, TypeOK, ConnInv, StreamInv
<1>3. /\ SendOK(h, wrote[h], x) /\ RecvOK(Other(h), g, conn[Other(h)], x)
      /\ Acked(h, conn[Other(h)], x) /\ Advances(c, x)
      /\ x.close_requested = c.close_requested
      /\ g \o x.rx = got[h] \o c.rx /\ x.fin_received = c.fin_received
  BY <1>1, <1>2, ReadSends
<1> HIDE DEF x, g
<1>4. /\ conn'[h] = x /\ \A k \in Host : k # h => conn'[k] = conn[k]
      /\ got'[h] = g /\ \A k \in Host : k # h => got'[k] = got[k]
  BY <1>1, <1>2
<1>5. x \in Connection
  <2>1. conn' \in [Host -> Connection]
    BY DEF TypeOK
  <2> QED BY <1>4, <2>1
<1>6. /\ Good(h, x, wire'[Other(h)]) /\ Good(h, x, txq'[h])
      /\ Good(Other(h), conn[Other(h)], wire'[h]) /\ txq'[Other(h)] = txq[Other(h)]
  BY <1>1, <1>3, <1>5, QueueSame
<1>7. wire' \in [Host -> Seq(Segment)] /\ txq' \in [Host -> Seq(Segment)]
  BY DEF TypeOK
<1>8. Other(h) \in Host /\ Other(h) # h
  BY TwoHosts
<1>9. StreamInv'
  <2>1. /\ wrote'[Other(h)] = wrote[Other(h)] /\ got'[Other(h)] = got[Other(h)]
        /\ slot'[Other(h)] = "free" => slot[Other(h)] = "free"
    BY <1>1, <1>4, <1>8
  <2>2. slot'[h] = "free" => wrote'[h] = 0 /\ got'[h] = <<>>
    BY <1>1
  <2>3. SendOK(h, wrote'[h], x) /\ RecvOK(Other(h), got'[h], conn[Other(h)], x)
    BY <1>1, <1>3, <1>4
  <2>4. conn' = [conn EXCEPT ![h] = x] /\ Advances(conn[h], x)
    BY <1>1, <1>3
  <2> HIDE DEF c
  <2> QED BY <1>3, <1>5, <1>6, <1>7, <2>1, <2>2, <2>3, <2>4, StepStreams
<1>10. /\ got'[h] \o conn'[h].rx = got[h] \o conn[h].rx
       /\ \E f \in Seq(Byte) : got'[h] \o conn'[h].rx = (got[h] \o conn[h].rx) \o f
  <2>1. got'[h] \o conn'[h].rx = got[h] \o conn[h].rx
    BY <1>3, <1>4
  <2>2. got[h] \o conn[h].rx \in Seq(Byte)
    BY <1>2, ConnTypes, ConcatProperties
  <2> QED BY <2>1, <2>2, ConcatNothing
<1>11. wrote'[h] = wrote[h] /\ wrote[h] <= wrote'[h]
  BY <1>1, <1>2
<1> QED BY <1>1, <1>3, <1>4, <1>9, <1>10, <1>11 DEF Evolves

\* close and shutdown
LEMMA TcpCloseStreams ==
    ASSUME IInv, StreamInv, TypeOK', NEW h \in Host, TcpClose(h)
    PROVE  StreamInv' /\ Evolves(h)
<1> DEFINE r == InitiateClose(conn[h])
<1>1. /\ conn' = [conn EXCEPT ![h] = r.c] /\ txq' = [txq EXCEPT ![h] = @ \o r.out]
      /\ slot' = slot /\ wire' = wire /\ wrote' = wrote /\ got' = got
  BY DEF TcpClose
<1>2. /\ ConnOK(conn[h]) /\ Sound(h, conn[h]) /\ wrote[h] \in Nat /\ conn[h] \in Connection
  BY DEF IInv, TypeOK, ConnInv, StreamInv
<1>3. /\ Sound(h, r.c) /\ Advances(conn[h], r.c) /\ SameIn(conn[h], r.c)
      /\ conn[h].close_requested => r.c.close_requested
      /\ \A i \in 1 .. Len(r.out) : SegOK(h, r.c, r.out[i])
  BY <1>2, InitiateCloseSends
<1>4. ConnOK(r.c) /\ r.out \in Seq(Segment)
  BY <1>2, InitiateCloseOK DEF Keeps
<1> HIDE DEF r
<1>5. r.c \in Connection /\ Good(h, r.c, r.out)
  BY <1>3, <1>4 DEF ConnOK, Good
<1>6. /\ Good(h, r.c, wire'[Other(h)]) /\ Good(h, r.c, txq'[h])
      /\ Good(Other(h), conn[Other(h)], wire'[h]) /\ txq'[Other(h)] = txq[Other(h)]
  BY <1>1, <1>3, <1>4, <1>5, QueueMore
<1>7. wire' \in [Host -> Seq(Segment)] /\ txq' \in [Host -> Seq(Segment)]
  BY DEF TypeOK
<1>8. Took(conn[h], r.c)
  BY <1>2, <1>3, SameInTook DEF Advances
<1> QED BY <1>1, <1>3, <1>4, <1>6, <1>7, <1>8, HandlerStreams

\* Three queues put together.
LEMMA QueuesJoin ==
    ASSUME NEW a \in Seq(Segment), NEW b \in Seq(Segment), NEW c \in Seq(Segment)
    PROVE  (a \o b) \o c = a \o (b \o c)
  BY ConcatAssociative

\* tcp_abort: the last output, and a reset
LEMMA TcpAbortStreams ==
    ASSUME IInv, StreamInv, TypeOK', NEW h \in Host, TcpAbort(h)
    PROVE  StreamInv' /\ Evolves(h)
<1>1. /\ ConnOK(conn[h]) /\ Sound(h, conn[h]) /\ wrote[h] \in Nat /\ conn[h] \in Connection
      /\ slot \in [Host -> Slot] /\ txq[h] \in Seq(Segment) /\ txq \in [Host -> Seq(Segment)]
  BY DEF IInv, TypeOK, ConnInv, StreamInv
<1>2. PICK due \in SUBSET ArmedAt(h) :
        LET r   == PollOutput(conn[h], due)
            rst == [AckSegment(r.c, r.c.snd_nxt) EXCEPT !.rst = TRUE, !.wnd = 0]
        IN  /\ h \in MayAbort /\ slot[h] = "live"
            /\ Elapse(h, due, 0)
            /\ conn' = [conn EXCEPT ![h] = r.c]
            /\ slot' = [slot EXCEPT ![h] = "released"]
            /\ txq' = [txq EXCEPT ![h] = @ \o r.out \o
                         (IF r.c.state = "Closed" THEN <<>> ELSE <<rst>>)]
            /\ UNCHANGED <<wire, wrote, got>>
  BY DEF TcpAbort
<1> DEFINE r == PollOutput(conn[h], due)
           a == AckSegment(r.c, r.c.snd_nxt)
           rst == [a EXCEPT !.rst = TRUE, !.wnd = 0]
           last == IF r.c.state = "Closed" THEN <<>> ELSE <<rst>>
           out == r.out \o last
<1>3. /\ conn' = [conn EXCEPT ![h] = r.c] /\ slot' = [slot EXCEPT ![h] = "released"]
      /\ txq' = [txq EXCEPT ![h] = (txq[h] \o r.out) \o last]
      /\ wire' = wire /\ wrote' = wrote /\ got' = got
  BY <1>2
<1>4. Moves(h, conn[h], r)
  BY <1>1, PollOutputSends, SendsMoves
<1> HIDE DEF r
<1>5. /\ ConnOK(r.c) /\ Sound(h, r.c) /\ Advances(conn[h], r.c) /\ Took(conn[h], r.c)
      /\ r.c.close_requested = conn[h].close_requested
      /\ r.out \in Seq(Segment) /\ Good(h, r.c, r.out)
  BY <1>4, MovesGives
<1>6. r.c \in Connection /\ r.c.snd_nxt \in Nat
  BY <1>5 DEF ConnOK, Connection
<1>7. Good(h, r.c, last) /\ last \in Seq(Segment)
  <2>1. a \in Segment
    BY <1>6, AckSegmentOK
  <2> HIDE DEF a
  <2>2. rst \in Segment /\ rst.rst
    BY <2>1 DEF Segment
  <2> HIDE DEF rst
  <2>3. SegOK(h, r.c, rst)
    BY <2>2 DEF SegOK
  <2>4. Good(h, r.c, <<rst>>) /\ <<rst>> \in Seq(Segment)
    BY <2>2, <2>3, GoodOne
  <2> QED BY <2>4, GoodNone
<1> HIDE DEF last
<1>8. Good(h, r.c, out) /\ out \in Seq(Segment)
  BY <1>5, <1>7, GoodBoth
<1>9. txq' = [txq EXCEPT ![h] = @ \o out]
  <2>1. (txq[h] \o r.out) \o last = txq[h] \o (r.out \o last)
    <3>1. txq[h] \in Seq(Segment) /\ r.out \in Seq(Segment) /\ last \in Seq(Segment)
      BY <1>1, <1>5, <1>7
    <3> QED BY <3>1, QueuesJoin
  <2> QED BY <1>3, <2>1
<1> HIDE DEF out
<1>10. /\ Good(h, r.c, wire'[Other(h)]) /\ Good(h, r.c, txq'[h])
       /\ Good(Other(h), conn[Other(h)], wire'[h]) /\ txq'[Other(h)] = txq[Other(h)]
  BY <1>3, <1>5, <1>6, <1>8, <1>9, QueueMore
<1>11. slot'[Other(h)] = slot[Other(h)] /\ slot'[h] # "free"
  BY <1>1, <1>3, TwoHosts
<1>12. wire' \in [Host -> Seq(Segment)] /\ txq' \in [Host -> Seq(Segment)]
  BY DEF TypeOK
<1> QED BY <1>3, <1>5, <1>10, <1>11, <1>12, HandlerStreams

\* A step that leaves every connection alone, as those of the network do.
LEMMA NetworkStreams ==
    ASSUME IInv, StreamInv, TypeOK', NEW h \in Host, conn' = conn, wrote' = wrote, got' = got,
           txq' = txq, \A g \in Host : slot'[g] = "free" => slot[g] = "free",
           Good(h, conn[h], wire'[Other(h)]), Good(Other(h), conn[Other(h)], wire'[h])
    PROVE  StreamInv' /\ Evolves(h)
<1>1. /\ ConnOK(conn[h]) /\ Sound(h, conn[h]) /\ conn[h] \in Connection
      /\ conn \in [Host -> Connection] /\ wrote[h] \in Nat /\ got[h] \in Seq(Byte)
  BY DEF IInv, TypeOK, ConnInv, StreamInv
<1>2. conn' = [conn EXCEPT ![h] = conn[h]]
  BY <1>1
<1>3. Advances(conn[h], conn[h])
  BY <1>1, AdvancesSame
<1>4. /\ SendOK(h, wrote'[h], conn[h]) /\ RecvOK(Other(h), got'[h], conn[Other(h)], conn[h])
      /\ Acked(h, conn[Other(h)], conn[h])
  BY <1>1 DEF Sound
<1>5. Good(h, conn[h], txq'[h])
  BY QueuesGood
<1>6. wire' \in [Host -> Seq(Segment)] /\ txq' \in [Host -> Seq(Segment)]
  BY DEF TypeOK
<1>7. /\ slot'[Other(h)] = "free" => slot[Other(h)] = "free"
      /\ slot'[h] = "free" => wrote'[h] = 0 /\ got'[h] = <<>>
  BY TwoHosts DEF StreamInv
<1>8. StreamInv'
  BY <1>1, <1>2, <1>3, <1>4, <1>5, <1>6, <1>7, StepStreams
<1>9. got[h] \o conn[h].rx \in Seq(Byte)
  BY <1>1, ConnTypes, ConcatProperties
<1>10. \E f \in Seq(Byte) : got'[h] \o conn'[h].rx = (got[h] \o conn[h].rx) \o f
  BY <1>9, ConcatNothing
<1>11. wrote[h] <= wrote'[h]
  BY <1>1
<1> QED BY <1>3, <1>8, <1>10, <1>11 DEF Evolves

\* What a dispatch leaves on the wires: h is now at connection x.
LEMMA ExchangeGood ==
    ASSUME IInv, StreamInv, NEW h \in Host, NEW i \in DOMAIN wire[h], NEW x \in Connection,
           Advances(conn[h], x), NEW out \in Seq(Segment), Good(h, x, out),
           Exchange(h, i, out)
    PROVE  Good(h, x, wire'[Other(h)]) /\ Good(Other(h), conn[Other(h)], wire'[h])
<1>1. Other(h) \in Host /\ Other(h) # h /\ Other(Other(h)) = h
  BY TwoHosts
<1>2. /\ wire[h] \in Seq(Segment) /\ wire[Other(h)] \in Seq(Segment)
      /\ Good(Other(h), conn[Other(h)], wire[h]) /\ Good(h, conn[h], wire[Other(h)])
  BY <1>1, QueuesGood
<1>3. conn[h] \in Connection
  BY DEF IInv, TypeOK
<1>4. Good(h, x, wire[Other(h)])
  BY <1>2, <1>3, GoodLater
<1>5. Good(h, x, wire[Other(h)] \o out)
  BY <1>2, <1>4, GoodBoth
<1>6. Good(Other(h), conn[Other(h)], Without(wire[h], i))
  BY <1>2, GoodWithout
<1>7. wire'[h] = Without(wire[h], i) /\ wire'[Other(h)] = wire[Other(h)] \o out
  BY <1>1 DEF Exchange
<1> QED BY <1>5, <1>6, <1>7

\* tcp_release
LEMMA TcpReleaseStreams ==
    ASSUME IInv, StreamInv, TypeOK', NEW h \in Host, TcpRelease(h)
    PROVE  StreamInv' /\ Evolves(h)
<1>1. /\ slot' = [slot EXCEPT ![h] = "released"] /\ slot[h] = "reaped"
      /\ conn' = conn /\ txq' = txq /\ wire' = wire /\ wrote' = wrote /\ got' = got
  BY DEF TcpRelease
<1>2. slot \in [Host -> Slot] /\ Other(h) \in Host /\ Other(Other(h)) = h
  BY TwoHosts DEF IInv, TypeOK
<1>3. \A g \in Host : slot'[g] = "free" => slot[g] = "free"
  BY <1>1, <1>2
<1>4. Good(h, conn[h], wire'[Other(h)]) /\ Good(Other(h), conn[Other(h)], wire'[h])
  BY <1>1, <1>2, QueuesGood
<1> QED BY <1>1, <1>3, <1>4, NetworkStreams

\* dispatch_tcp_segment to a connection: handle_segment, then poll_output
LEMMA DispatchToConnectionStreams ==
    ASSUME OneOpener, IInv, StreamInv, TypeOK', NEW h \in Host, NEW i \in DOMAIN wire[h],
           DispatchToConnection(h, i)
    PROVE  StreamInv' /\ Evolves(h)
<1> DEFINE a == HandleSegment(conn[h], wire[h][i])
<1>1. /\ TypeOK /\ ConnOK(conn[h]) /\ Sound(h, conn[h]) /\ wrote[h] \in Nat
      /\ conn[h] \in Connection /\ Sound(Other(h), conn[Other(h)])
      /\ wire[h][i] \in Segment /\ SegOK(Other(h), conn[Other(h)], wire[h][i])
  <2>1. wire[h][i] \in Segment /\ SegOK(Other(h), conn[Other(h)], wire[h][i])
    BY ArrivingGood
  <2>2. Other(h) \in Host
    BY TwoHosts
  <2>3. ConnOK(conn[h]) /\ Sound(h, conn[h]) /\ Sound(Other(h), conn[Other(h)])
    BY <2>2 DEF IInv, ConnInv, StreamInv
  <2> QED BY <2>1, <2>3 DEF IInv, TypeOK
<1>2. Moves(h, conn[h], a)
  BY <1>1, HandleSegmentMoves
<1>3. UNCHANGED <<slot, txq, wrote, got>>
  BY DEF DispatchToConnection
<1>4. PICK due \in SUBSET Armed(a.c, conn[h]) :
        LET r == PollOutput(a.c, due)
        IN  /\ Elapse(h, due, Overtakes(i))
            /\ conn' = [conn EXCEPT ![h] = r.c]
            /\ Exchange(h, i, a.out \o r.out)
  BY DEF DispatchToConnection
<1> DEFINE r == PollOutput(a.c, due)
<1>5. conn' = [conn EXCEPT ![h] = r.c] /\ Exchange(h, i, a.out \o r.out)
  BY <1>4
<1> HIDE DEF a
<1>6. ConnOK(a.c) /\ Sound(h, a.c)
  BY <1>2 DEF Moves, Steps
<1>7. Sends(h, a.c, r)
  BY <1>1, <1>6, PollOutputSends
<1> HIDE DEF r
<1> DEFINE out == a.out \o r.out
<1>8. Moves(h, conn[h], Result(r.c, out))
  BY <1>1, <1>2, <1>7, MovesThenSends
<1>9. Result(r.c, out).c = r.c /\ Result(r.c, out).out = out
  BY DEF Result
<1> HIDE DEF out
<1>10. /\ ConnOK(r.c) /\ Sound(h, r.c) /\ Advances(conn[h], r.c) /\ Took(conn[h], r.c)
       /\ r.c.close_requested = conn[h].close_requested
       /\ out \in Seq(Segment) /\ Good(h, r.c, out)
  BY <1>8, <1>9, MovesGives
<1>11. r.c \in Connection
  BY <1>10 DEF ConnOK
<1>12. Good(h, r.c, wire'[Other(h)]) /\ Good(Other(h), conn[Other(h)], wire'[h])
  BY <1>5, <1>10, <1>11, ExchangeGood DEF out
<1>13. Good(h, r.c, txq'[h]) /\ txq'[Other(h)] = txq[Other(h)]
  <2>1. Good(h, conn[h], txq[h]) /\ txq[h] \in Seq(Segment)
    BY QueuesGood
  <2> QED BY <1>1, <1>3, <1>10, <1>11, <2>1, GoodLater
<1>14. wire' \in [Host -> Seq(Segment)] /\ txq' \in [Host -> Seq(Segment)]
  BY DEF TypeOK
<1> QED BY <1>3, <1>5, <1>10, <1>12, <1>13, <1>14, HandlerStreams

\* dispatch_tcp_segment to a listener
LEMMA DispatchToListenerStreams ==
    ASSUME OneOpener, IInv, StreamInv, TypeOK', NEW h \in Host, NEW i \in DOMAIN wire[h],
           DispatchToListener(h, i)
    PROVE  StreamInv' /\ Evolves(h)
<1> DEFINE r == HandleSegment(conn[h], wire[h][i])
<1>1. /\ TypeOK /\ ConnOK(conn[h]) /\ Sound(h, conn[h]) /\ slot \in [Host -> Slot]
      /\ conn[h] \in Connection /\ Sound(Other(h), conn[Other(h)])
      /\ wire[h][i] \in Segment /\ SegOK(Other(h), conn[Other(h)], wire[h][i])
  <2>1. wire[h][i] \in Segment /\ SegOK(Other(h), conn[Other(h)], wire[h][i])
    BY ArrivingGood
  <2>2. Other(h) \in Host
    BY TwoHosts
  <2>3. ConnOK(conn[h]) /\ Sound(h, conn[h]) /\ Sound(Other(h), conn[Other(h)])
    BY <2>2 DEF IInv, ConnInv, StreamInv
  <2> QED BY <2>1, <2>3 DEF IInv, TypeOK
<1>2. Moves(h, conn[h], r)
  BY <1>1, HandleSegmentMoves
<1>3. /\ conn' = [conn EXCEPT ![h] = r.c] /\ Exchange(h, i, r.out)
      /\ slot' = [slot EXCEPT ![h] = "live"]
      /\ txq' = txq /\ wrote' = wrote /\ got' = got
  BY DEF DispatchToListener
<1> HIDE DEF r
<1>4. /\ ConnOK(r.c) /\ Sound(h, r.c) /\ Advances(conn[h], r.c) /\ Took(conn[h], r.c)
      /\ r.c.close_requested = conn[h].close_requested
      /\ r.out \in Seq(Segment) /\ Good(h, r.c, r.out)
  BY <1>2, MovesGives
<1>5. r.c \in Connection
  BY <1>4 DEF ConnOK
<1>6. Good(h, r.c, wire'[Other(h)]) /\ Good(Other(h), conn[Other(h)], wire'[h])
  BY <1>3, <1>4, <1>5, ExchangeGood
<1>7. Good(h, r.c, txq'[h]) /\ txq'[Other(h)] = txq[Other(h)]
  <2>1. Good(h, conn[h], txq[h]) /\ txq[h] \in Seq(Segment)
    BY QueuesGood
  <2> QED BY <1>1, <1>3, <1>4, <1>5, <2>1, GoodLater
<1>8. slot'[Other(h)] = slot[Other(h)] /\ slot'[h] # "free"
  BY <1>1, <1>3, TwoHosts
<1>9. wire' \in [Host -> Seq(Segment)] /\ txq' \in [Host -> Seq(Segment)]
  BY DEF TypeOK
<1> QED BY <1>3, <1>4, <1>6, <1>7, <1>8, <1>9, HandlerStreams

\* dispatch_tcp_segment to nobody: at most a reset is sent
LEMMA DispatchToNobodyStreams ==
    ASSUME IInv, StreamInv, TypeOK', NEW h \in Host, NEW i \in DOMAIN wire[h],
           DispatchToNobody(h, i)
    PROVE  StreamInv' /\ Evolves(h)
<1> DEFINE m == wire[h][i]
           out == BuildReset(m)
<1>1. /\ Exchange(h, i, out) /\ conn' = conn /\ slot' = slot /\ txq' = txq
      /\ wrote' = wrote /\ got' = got
  BY DEF DispatchToNobody
<1>2. m \in Segment /\ conn[h] \in Connection
  BY ArrivingGood DEF IInv, TypeOK
<1> HIDE DEF m
<1>3. out \in Seq(Segment)
  BY <1>2, BuildResetOK
<1>4. Good(h, conn[h], out)
  <2> DEFINE s == IF m.isAck THEN m.ack ELSE 0
             a == FinSeq(m) + (IF m.fin THEN 1 ELSE 0)
             b == ~m.isAck
             x == [seq |-> s, ack |-> a, syn |-> FALSE, isAck |-> b, fin |-> FALSE,
                   rst |-> TRUE, wnd |-> 0, mss |-> 0, sackOk |-> FALSE, sack |-> {},
                   data |-> <<>>]
  <2>1. out = IF m.rst THEN <<>> ELSE <<x>>
    BY DEF BuildReset
  <2> HIDE DEF out, s, a, b
  <2>2. x.rst
    OBVIOUS
  <2> HIDE DEF x
  <2>3. SegOK(h, conn[h], x)
    BY <2>2 DEF SegOK
  <2>4. \A j \in 1 .. Len(<<x>>) : <<x>>[j] = x
    OBVIOUS
  <2>5. Good(h, conn[h], <<x>>)
    BY <2>3, <2>4 DEF Good
  <2> QED BY <2>1, <2>5, GoodNone
<1> HIDE DEF out
<1>5. Good(h, conn[h], wire'[Other(h)]) /\ Good(Other(h), conn[Other(h)], wire'[h])
  BY <1>1, <1>2, <1>3, <1>4, AdvancesSame, ExchangeGood
<1> QED BY <1>1, <1>5, NetworkStreams

\* step_timers: what waited in tcp_tx and what poll_output sends go out
LEMMA StepTimersStreams ==
    ASSUME IInv, StreamInv, TypeOK', NEW h \in Host, StepTimers(h)
    PROVE  StreamInv' /\ Evolves(h)
<1> DEFINE o == Other(h)
<1>1. /\ ConnOK(conn[h]) /\ Sound(h, conn[h]) /\ wrote[h] \in Nat /\ conn[h] \in Connection
      /\ slot \in [Host -> Slot] /\ txq \in [Host -> Seq(Segment)]
      /\ wire \in [Host -> Seq(Segment)]
  BY DEF IInv, TypeOK, ConnInv, StreamInv
<1>2. PICK due \in SUBSET ArmedAt(h) :
        LET r == IF slot[h] = "live" THEN PollOutput(conn[h], due) ELSE Quietly(conn[h])
        IN  /\ Elapse(h, due, 0)
            /\ conn' = [conn EXCEPT ![h] = r.c]
            /\ slot' = [slot EXCEPT ![h] = IF @ = "live" /\ Reapable(r.c) THEN "reaped" ELSE @]
            /\ txq' = [txq EXCEPT ![h] = <<>>]
            /\ wire' = [wire EXCEPT ![Other(h)] = @ \o txq[h] \o r.out]
            /\ UNCHANGED <<wrote, got>>
  BY DEF StepTimers
<1> DEFINE p == PollOutput(conn[h], due)
           r == IF slot[h] = "live" THEN p ELSE Quietly(conn[h])
           t == IF slot[h] = "live" /\ Reapable(r.c) THEN "reaped" ELSE slot[h]
<1>3. /\ conn' = [conn EXCEPT ![h] = r.c]
      /\ slot' = [slot EXCEPT ![h] = t] /\ txq' = [txq EXCEPT ![h] = <<>>]
      /\ wire' = [wire EXCEPT ![o] = (wire[o] \o txq[h]) \o r.out]
      /\ wrote' = wrote /\ got' = got
  BY <1>2
<1>4. Moves(h, conn[h], p) /\ Moves(h, conn[h], Quietly(conn[h]))
  BY <1>1, PollOutputSends, SendsNothing, SendsMoves
<1> HIDE DEF p
<1>5. Moves(h, conn[h], r)
  BY <1>4
<1>6. t = "free" => slot[h] = "free"
  OBVIOUS
<1> HIDE DEF r, t
<1>7. /\ ConnOK(r.c) /\ Sound(h, r.c) /\ Advances(conn[h], r.c) /\ Took(conn[h], r.c)
      /\ r.c.close_requested = conn[h].close_requested
      /\ r.out \in Seq(Segment) /\ Good(h, r.c, r.out)
  BY <1>5, MovesGives
<1>8. r.c \in Connection
  BY <1>7 DEF ConnOK
<1>9. o \in Host /\ o # h /\ Other(o) = h
  BY TwoHosts
<1>10. /\ wire'[o] = (wire[o] \o txq[h]) \o r.out /\ wire'[h] = wire[h]
       /\ txq'[h] = <<>> /\ txq'[o] = txq[o] /\ slot'[o] = slot[o] /\ slot'[h] = t
  <2> HIDE DEF o
  <2> QED BY <1>1, <1>3, <1>9
<1>11. Good(h, r.c, wire'[o])
  <2>1. /\ Good(h, conn[h], txq[h]) /\ txq[h] \in Seq(Segment)
        /\ Good(h, conn[h], wire[o]) /\ wire[o] \in Seq(Segment)
    BY <1>9, QueuesGood
  <2>2. Good(h, r.c, txq[h]) /\ Good(h, r.c, wire[o])
    BY <1>1, <1>7, <1>8, <2>1, GoodLater
  <2>3. Good(h, r.c, wire[o] \o txq[h]) /\ wire[o] \o txq[h] \in Seq(Segment)
    BY <2>1, <2>2, GoodBoth
  <2> DEFINE q == wire[o] \o txq[h]
  <2>4. Good(h, r.c, q) /\ q \in Seq(Segment) /\ wire'[o] = q \o r.out
    BY <1>10, <2>3
  <2> HIDE DEF q
  <2>5. Good(h, r.c, q \o r.out)
    BY <1>7, <2>4, GoodBoth
  <2> QED BY <2>4, <2>5
<1>12. Good(Other(h), conn[Other(h)], wire'[h]) /\ Good(h, r.c, txq'[h])
  BY <1>10, QueuesGood, GoodNone
<1>13. wire' \in [Host -> Seq(Segment)] /\ txq' \in [Host -> Seq(Segment)]
  BY DEF TypeOK
<1> QED BY <1>3, <1>6, <1>7, <1>10, <1>11, <1>12, <1>13, HandlerStreams

\* The network loses a segment.
LEMMA LoseStreams ==
    ASSUME IInv, StreamInv, TypeOK', NEW h \in Host, NEW i \in DOMAIN wire[h], Lose(h, i)
    PROVE  StreamInv' /\ Evolves(h)
<1>1. /\ wire' = [wire EXCEPT ![h] = Without(wire[h], i)]
      /\ conn' = conn /\ slot' = slot /\ txq' = txq /\ wrote' = wrote /\ got' = got
  BY DEF Lose
<1>2. Other(h) \in Host /\ Other(h) # h /\ Other(Other(h)) = h
  BY TwoHosts
<1>3. /\ wire \in [Host -> Seq(Segment)] /\ wire[h] \in Seq(Segment)
      /\ Good(Other(h), conn[Other(h)], wire[h]) /\ Good(h, conn[h], wire[Other(h)])
  BY <1>2, QueuesGood DEF IInv, TypeOK
<1>4. wire'[h] = Without(wire[h], i) /\ wire'[Other(h)] = wire[Other(h)]
  BY <1>1, <1>2, <1>3
<1>5. Good(h, conn[h], wire'[Other(h)]) /\ Good(Other(h), conn[Other(h)], wire'[h])
  BY <1>3, <1>4, GoodWithout
<1> QED BY <1>1, <1>5, NetworkStreams

\* The network repeats a segment.
LEMMA DuplicateStreams ==
    ASSUME IInv, StreamInv, TypeOK', NEW h \in Host, NEW i \in DOMAIN wire[h], Duplicate(h, i)
    PROVE  StreamInv' /\ Evolves(h)
<1> DEFINE m == wire[h][i]
<1>1. /\ wire' = [wire EXCEPT ![h] = Append(wire[h], m)]
      /\ conn' = conn /\ slot' = slot /\ txq' = txq /\ wrote' = wrote /\ got' = got
  BY DEF Duplicate
<1>2. Other(h) \in Host /\ Other(h) # h /\ Other(Other(h)) = h
  BY TwoHosts
<1>3. /\ wire \in [Host -> Seq(Segment)] /\ wire[h] \in Seq(Segment)
      /\ Good(Other(h), conn[Other(h)], wire[h]) /\ Good(h, conn[h], wire[Other(h)])
  BY <1>2, QueuesGood DEF IInv, TypeOK
<1>4. m \in Segment /\ SegOK(Other(h), conn[Other(h)], m)
  BY ArrivingGood
<1> HIDE DEF m
<1>5. wire'[h] = Append(wire[h], m) /\ wire'[Other(h)] = wire[Other(h)]
  BY <1>1, <1>2, <1>3
<1>6. Append(wire[h], m) = wire[h] \o <<m>>
  BY <1>3, <1>4, AppendIsConcat
<1>7. Good(Other(h), conn[Other(h)], <<m>>) /\ <<m>> \in Seq(Segment)
  BY <1>4, GoodOne
<1>8. Good(Other(h), conn[Other(h)], wire[h] \o <<m>>)
  BY <1>3, <1>7, GoodBoth
<1> QED BY <1>1, <1>3, <1>5, <1>6, <1>8, NetworkStreams

\* Every step of the two hosts and the network.
LEMMA NextStreams ==
    ASSUME OneOpener, IInv, StreamInv, [Next]_vars
    PROVE  StreamInv' /\ \E h \in Host : Evolves(h)
<1>1. TypeOK'
  BY NextOK DEF IInv
<1>2. CASE Next
  <2>1. PICK h \in Host :
          \/ TcpConnect(h)
          \/ \E n \in 1 .. Len(AppData[h]) : TcpWrite(h, n)
          \/ \E n \in 1 .. Len(conn[h].rx) : TcpRead(h, n)
          \/ TcpClose(h)
          \/ TcpAbort(h)
          \/ TcpRelease(h)
          \/ StepTimers(h)
          \/ \E i \in DOMAIN wire[h] : DispatchToConnection(h, i)
          \/ \E i \in DOMAIN wire[h] : DispatchToListener(h, i)
          \/ \E i \in DOMAIN wire[h] : DispatchToNobody(h, i)
          \/ \E i \in DOMAIN wire[h] : Lose(h, i)
          \/ \E i \in DOMAIN wire[h] : Duplicate(h, i)
    BY <1>2 DEF Next
  <2>2. conn[h] \in Connection
    BY DEF IInv, TypeOK
  <2>3. /\ \A n \in 1 .. Len(AppData[h]) : n \in Nat
        /\ \A n \in 1 .. Len(conn[h].rx) : n \in Nat
    BY <2>2, HostData, ConnTypes
  <2> SUFFICES StreamInv' /\ Evolves(h)
    OBVIOUS
  <2>4. CASE \E n \in 1 .. Len(AppData[h]) : TcpWrite(h, n)
    BY <1>1, <2>3, <2>4, TcpWriteStreams
  <2>5. CASE \E n \in 1 .. Len(conn[h].rx) : TcpRead(h, n)
    BY <1>1, <2>3, <2>5, TcpReadStreams
  <2> QED
    BY <1>1, <2>1, <2>4, <2>5, TcpConnectStreams, TcpCloseStreams, TcpAbortStreams,
       TcpReleaseStreams, StepTimersStreams, DispatchToConnectionStreams,
       DispatchToListenerStreams, DispatchToNobodyStreams, LoseStreams, DuplicateStreams
<1>3. CASE UNCHANGED vars
  <2>1. /\ conn' = conn /\ slot' = slot /\ txq' = txq /\ wire' = wire /\ wrote' = wrote
        /\ got' = got
    BY <1>3 DEF vars
  <2>2. PICK h : h \in Host
    <3>1. Host # {}
      <4>1. Cardinality({}) = 0
        BY FS_EmptySet
      <4> QED BY <4>1, PairAssumption
    <3> QED BY <3>1
  <2>3. Good(h, conn[h], wire'[Other(h)]) /\ Good(Other(h), conn[Other(h)], wire'[h])
    BY <2>1, <2>2, TwoHosts, QueuesGood
  <2>4. StreamInv' /\ Evolves(h)
    BY <1>1, <2>1, <2>2, <2>3, NetworkStreams
  <2> QED BY <2>2, <2>4
<1> QED BY <1>2, <1>3

\* Nothing has been sent, and the listener waits.
LEMMA InitStreams == Init => StreamInv
<1> SUFFICES ASSUME Init, NEW h \in Host
             PROVE  /\ Sound(h, conn[h]) /\ Flight(h)
                    /\ slot[h] = "free" => wrote[h] = 0 /\ got[h] = <<>>
  BY DEF StreamInv
<1>1. conn = [g \in Host |-> Fresh(g)]
  BY DEF Init, Fresh
<1>2. Other(h) \in Host
  BY TwoHosts
<1>3. /\ conn[h] = Fresh(h) /\ conn[Other(h)] = Fresh(Other(h))
      /\ wrote[h] = 0 /\ got[h] = <<>> /\ wire[Other(h)] = <<>> /\ txq[h] = <<>>
  BY <1>1, <1>2 DEF Init
<1> DEFINE c == Fresh(h)
<1>4. /\ c.snd_una = Isn[h] /\ c.snd_nxt = Isn[h] /\ c.rcv_nxt = 0 /\ c.rx = <<>>
      /\ c.tx = <<>> /\ c.ooo = {} /\ c.rtq = {} /\ c.fin_sent = FALSE
      /\ c.fin_received = FALSE /\ c.close_requested = FALSE
      /\ c.state \in {"Closed", "Listen"}
  BY FreshShape
<1>5. Isn[h] \in Nat /\ Len(AppData[h]) \in Nat
  BY HostData
<1> HIDE DEF c
<1>6. Len(<<>>) = 0 /\ DataEnd(c) = Isn[h] /\ <<>> \o <<>> = <<>>
  BY <1>4, <1>5 DEF DataEnd, Bit
<1>7. Tracks(c)
  BY <1>4, <1>5 DEF Tracks
<1>8. SendOK(h, 0, c)
  <2>1. Carries(h, c.snd_nxt, c.tx, c.snd_nxt + Len(c.tx))
    BY <1>4, CarriesNothing
  <2>2. /\ DataEnd(c) + Len(c.tx) <= Isn[h] + 1 + 0 /\ Isn[h] <= c.snd_nxt
        /\ 0 <= Len(AppData[h])
    BY <1>4, <1>5, <1>6
  <2> QED BY <1>4, <1>7, <2>1, <2>2 DEF SendOK
<1>9. RecvOK(Other(h), <<>>, conn[Other(h)], c)
  BY <1>4, <1>6 DEF RecvOK, Blank
<1>10. Acked(h, conn[Other(h)], c)
  BY <1>4, <1>5 DEF Acked
<1>11. Sound(h, conn[h])
  BY <1>3, <1>8, <1>9, <1>10 DEF Sound, c
<1>12. Flight(h)
  BY <1>3 DEF Flight
<1> QED BY <1>3, <1>11, <1>12

\* IInv and StreamInv hold in every state that the two hosts can reach.
THEOREM StreamInductive == OneOpener => (Spec => [](IInv /\ StreamInv))
<1> SUFFICES ASSUME OneOpener PROVE Spec => [](IInv /\ StreamInv)
  OBVIOUS
<1>1. Init => IInv /\ StreamInv
  BY InitOK, InitStreams
<1>2. (IInv /\ StreamInv) /\ [Next]_vars => (IInv /\ StreamInv)'
  BY NextOK, NextStreams
<1> QED BY <1>1, <1>2, PTL DEF Spec

-----------------------------------------------------------------------------
(* What StreamInv says of the two streams *)

\* The first n elements of a sequence of bytes.
LEMMA Front ==
    ASSUME NEW s \in Seq(Byte), NEW n \in Nat, n <= Len(s)
    PROVE  LET p == SubSeq(s, 1, n)
           IN  p \in Seq(Byte) /\ Len(p) = n /\ \A i \in 1 .. n : p[i] = s[i]
<1> DEFINE k == Len(s)
<1>1. k \in Nat
  BY LenProperties
<1>2. \A i \in 1 .. n : i \in 1 .. k
  <2>1. n <= k
    OBVIOUS
  <2> HIDE DEF k
  <2> QED BY <1>1, <2>1
<1>3. \A i \in 1 .. n : s[i] \in Byte
  BY <1>2, ElementOfSeq
<1> DEFINE p == SubSeq(s, 1, n)
<1>4. /\ p \in Seq(Byte)
      /\ Len(p) = IF 1 <= n THEN n - 1 + 1 ELSE 0
      /\ \A i \in 1 .. n - 1 + 1 : p[i] = s[1 + i - 1]
  BY <1>3, SubSeqProperties
<1> HIDE DEF p
<1>5. Len(p) = n
  BY <1>4
<1>6. ASSUME NEW i \in 1 .. n PROVE p[i] = s[i]
  <2>1. i \in 1 .. n - 1 + 1 /\ 1 + i - 1 = i
    OBVIOUS
  <2>2. p[i] = s[1 + i - 1]
    BY <1>4, <2>1
  <2> QED BY <2>1, <2>2
<1> QED BY <1>4, <1>5, <1>6 DEF p

\* A slice that starts with the first byte of the stream and ends before end is what
\* the application wrote first.
LEMMA CarriesFromStart ==
    ASSUME NEW o \in Host, NEW r \in Seq(Byte), NEW w \in Nat, w <= Len(AppData[o]),
           NEW end \in Int, Carries(o, Isn[o] + 1, r, end), end <= Isn[o] + 1 + w
    PROVE  /\ Len(r) <= w /\ r = SubSeq(AppData[o], 1, Len(r))
           /\ Len(r) > 0 => Isn[o] + Len(r) < end
<1> DEFINE n == Len(r)
           A == AppData[o]
           k == Len(A)
<1>1. n \in Nat /\ Isn[o] \in Nat /\ A \in Seq(Byte) /\ k \in Nat /\ w <= k
  BY LenProperties, HostData
<1>2. ASSUME NEW i \in 1 .. n
      PROVE  /\ Isn[o] + i < end /\ r[i] = A[i]
  <2>1. /\ (Isn[o] + 1) + i - 1 < end /\ r[i] = A[(Isn[o] + 1) + i - 1 - Isn[o]]
    BY DEF Carries
  <2>2. (Isn[o] + 1) + i - 1 = Isn[o] + i /\ (Isn[o] + 1) + i - 1 - Isn[o] = i
    BY <1>1
  <2> HIDE DEF n, A
  <2> QED BY <2>1, <2>2
<1> HIDE DEF n, k
<1>3. n > 0 => Isn[o] + n < end
  BY <1>1, <1>2
<1>4. n <= w
  BY <1>1, <1>3
<1>5. n <= k
  BY <1>1, <1>4
<1> DEFINE p == SubSeq(A, 1, n)
<1>6. p \in Seq(Byte) /\ Len(p) = n /\ \A i \in 1 .. n : p[i] = A[i]
  BY <1>1, <1>5, Front DEF k
<1>7. r = p
  <2> HIDE DEF p, A
  <2>1. Len(r) = Len(p) /\ \A i \in 1 .. Len(r) : r[i] = p[i]
    BY <1>2, <1>6 DEF n
  <2> QED BY <1>6, <2>1, SeqEqual
<1> QED BY <1>3, <1>4, <1>7 DEF n

\* All that has been received was written, and in this order; with the FIN, it is all.
LEMMA ReceivedWritten ==
    ASSUME IInv, StreamInv, NEW h \in Host
    PROVE  LET o == Other(h)
           IN  /\ Received(h) \in Seq(Byte) /\ Len(Received(h)) <= wrote[o]
               /\ Received(h) = SubSeq(AppData[o], 1, Len(Received(h)))
               /\ conn[h].fin_received =>
                    Received(h) = Written(o) /\ conn[o].fin_sent /\ conn[o].close_requested
<1> DEFINE o == Other(h)
           c == conn[h]
           d == conn[o]
           w == wrote[o]
           r == Received(h)
           n == Len(r)
<1>1. o \in Host /\ Other(o) = h
  BY TwoHosts
<1>2. /\ c \in Connection /\ d \in Connection /\ w \in Nat /\ got[h] \in Seq(Byte)
  BY <1>1 DEF IInv, TypeOK
<1>3. r = got[h] \o c.rx
  BY DEF Received
<1>4. r \in Seq(Byte) /\ n \in Nat
  <2>1. got[h] \o c.rx \in Seq(Byte)
    BY <1>2, ConnTypes, ConcatProperties
  <2> HIDE DEF r, c
  <2>2. r \in Seq(Byte)
    BY <1>3, <2>1
  <2> QED BY <2>2, LenProperties
<1>5. RecvOK(o, got[h], d, c) /\ SendOK(o, w, d)
  BY <1>1 DEF StreamInv, Sound
<1>6. Isn[o] \in Nat /\ AppData[o] \in Seq(Byte) /\ Len(AppData[o]) \in Nat
  BY <1>1, HostData
<1>7. w <= Len(AppData[o]) /\ DataEnd(d) + Len(d.tx) <= Isn[o] + 1 + w
  BY <1>5 DEF SendOK
<1>8. DataEnd(d) \in Int /\ Len(d.tx) \in Nat /\ c.rcv_nxt \in Nat /\ d.snd_nxt \in Nat
      /\ c.fin_received \in BOOLEAN
  BY <1>2, ConnTypes
<1>9. DataEnd(d) <= Isn[o] + 1 + w
  BY <1>2, <1>6, <1>7, <1>8
<1>10. CASE Blank(r, c)
  <2>1. r = <<>> /\ ~c.fin_received
    BY <1>10 DEF Blank
  <2>2. n = 0
    BY <2>1
  <2>3. SubSeq(AppData[o], 1, 0) = <<>>
    <3>1. SubSeq(AppData[o], 1, 0) \in Seq(Byte) /\ Len(SubSeq(AppData[o], 1, 0)) = 0
      BY <1>6, Front
    <3> QED BY <3>1, EmptySeq
  <2>4. 0 <= w
    BY <1>2
  <2> HIDE DEF r, c, d, o, w
  <2> QED BY <1>4, <2>1, <2>2, <2>3, <2>4 DEF n, r, c, d, o, w
<1>11. CASE Synced(o, r, d, c)
  <2>1. Carries(o, Isn[o] + 1, r, DataEnd(d)) /\ Isn[o] < DataEnd(d)
    BY <1>11 DEF Synced
  <2>2. n <= w /\ r = SubSeq(AppData[o], 1, n)
    BY <1>1, <1>2, <1>4, <1>7, <1>8, <1>9, <2>1, CarriesFromStart
  <2>3. ASSUME c.fin_received
        PROVE  r = Written(o) /\ d.fin_sent /\ d.close_requested
    <3>1. /\ c.rcv_nxt = Isn[o] + 1 + n + Bit(c.fin_received)
          /\ d.fin_sent /\ c.rcv_nxt = d.snd_nxt
      BY <1>11, <2>3 DEF Synced
    <3>2. Bit(c.fin_received) = 1 /\ DataEnd(d) = d.snd_nxt - 1
      BY <2>3, <3>1 DEF Bit, DataEnd
    <3>3. /\ DataEnd(d) + Len(d.tx) = Isn[o] + 1 + w /\ d.tx = <<>> /\ d.close_requested
      BY <1>5, <3>1 DEF SendOK
    <3>4. Len(d.tx) = 0
      BY <3>3
    <3>5. n = w
      <4> HIDE DEF n, w, d, c, o
      <4> QED BY <1>2, <1>4, <1>6, <1>8, <3>1, <3>2, <3>3, <3>4
    <3> QED BY <2>2, <3>1, <3>3, <3>5 DEF Written
  <2> QED BY <1>4, <2>2, <2>3
<1> QED BY <1>3, <1>5, <1>10, <1>11 DEF RecvOK

\* What a host takes for acknowledged it has sent; when its FIN is acknowledged too,
\* the peer has received the whole stream and its end.
LEMMA ConfirmedReceived ==
    ASSUME IInv, StreamInv, NEW h \in Host
    PROVE  /\ conn[h].snd_una <= conn[h].snd_nxt
           /\ conn[h].fin_sent => conn[h].close_requested
           /\ Confirmed(h) => conn[Other(h)].fin_received
<1> DEFINE o == Other(h)
           c == conn[h]
           d == conn[o]
           w == wrote[h]
           r == got[o] \o d.rx
           n == Len(r)
<1>1. o \in Host /\ Other(o) = h
  BY TwoHosts
<1>2. /\ c \in Connection /\ d \in Connection /\ got[o] \in Seq(Byte) /\ w \in Nat
  BY <1>1 DEF IInv, TypeOK
<1>3. RecvOK(h, got[o], c, d) /\ SendOK(h, w, c) /\ Acked(h, d, c)
  BY <1>1 DEF StreamInv, Sound
<1>4. Isn[h] \in Nat
  BY HostData
<1>5. c.snd_una \in Nat /\ c.snd_nxt \in Nat /\ d.rcv_nxt \in Nat /\ DataEnd(c) \in Int
      /\ d.fin_received \in BOOLEAN
  BY <1>2, ConnTypes
<1>6. d.rcv_nxt <= c.snd_nxt
  <2> HIDE DEF c, d, o
  <2> QED BY <1>2, <1>3, ReceivedWasSent
<1>7. Isn[h] <= c.snd_nxt /\ (c.fin_sent => c.close_requested)
  BY <1>3 DEF SendOK
<1>8. c.snd_una > Isn[h] => c.snd_una <= d.rcv_nxt
  BY <1>3 DEF Acked
<1>9. c.snd_una <= c.snd_nxt
  BY <1>4, <1>5, <1>6, <1>7, <1>8
<1>10. ASSUME Confirmed(h) PROVE d.fin_received
  <2>1. c.fin_sent /\ c.snd_una = c.snd_nxt
    BY <1>10 DEF Confirmed
  <2>2. DataEnd(c) = c.snd_nxt - 1
    BY <2>1 DEF DataEnd, Bit
  <2>3. DataEnd(c) + Len(c.tx) = Isn[h] + 1 + w /\ c.tx = <<>>
    BY <1>3, <2>1 DEF SendOK
  <2>4. Isn[h] < DataEnd(c)
    <3>1. Len(c.tx) = 0
      BY <2>3
    <3> HIDE DEF c, w
    <3> QED BY <1>2, <1>4, <1>5, <2>3, <3>1
  <2>5. d.rcv_nxt = c.snd_nxt /\ d.rcv_nxt > 0
    BY <1>4, <1>5, <1>6, <1>8, <2>1, <2>2, <2>4
  <2>6. Synced(h, r, c, d)
    <3>1. ~Blank(r, d)
      BY <2>5, <1>5 DEF Blank
    <3> QED BY <1>3, <3>1 DEF RecvOK
  <2>7. r \in Seq(Byte) /\ n \in Nat
    BY <1>2, ConnTypes, ConcatProperties, LenProperties
  <2>8. d.rcv_nxt = Isn[h] + 1 + n + Bit(d.fin_received)
        /\ Carries(h, Isn[h] + 1, r, DataEnd(c))
    BY <2>6 DEF Synced
  <2>9. n > 0 => Isn[h] + n < DataEnd(c)
    <3>1. w <= Len(AppData[h]) /\ DataEnd(c) <= Isn[h] + 1 + w
      BY <1>2, <1>3, <1>4, <1>5, <2>3 DEF SendOK
    <3> HIDE DEF c, w, r
    <3> QED BY <1>2, <1>5, <2>7, <2>8, <3>1, CarriesFromStart
  <2>10. Bit(d.fin_received) # 0
    <3> HIDE DEF n, c, d
    <3>1. Bit(d.fin_received) \in {0, 1}
      BY DEF Bit
    <3> QED BY <1>4, <1>5, <2>2, <2>4, <2>5, <2>7, <2>8, <2>9, <3>1
  <2> QED BY <1>5, <2>10 DEF Bit
<1> QED BY <1>7, <1>9, <1>10

-----------------------------------------------------------------------------
(* The theorems *)

\* accept_data, buffer_ooo and drain_ooo deliver a prefix of what the other
\* application wrote, byte for byte, whatever the network loses, repeats, reorders or
\* holds back and however the timers fall, for any data, window and segment size.
THEOREM StreamAlwaysIntact == OneOpener => (Spec => []StreamIntegrity)
<1>1. IInv /\ StreamInv => StreamIntegrity
  BY ReceivedWritten DEF StreamIntegrity
<1> QED BY <1>1, StreamInductive, PTL

\* The retransmission queue, snd_nxt and what is on the wire fit together, and nothing
\* is retired that the peer did not receive (track_for_retransmit, emit_fin, the ACK
\* arms of handle_segment_at, retransmit_oldest).
THEOREM SendSideAlwaysExact == OneOpener => (Spec => []SendSideExact)
<1>1. IInv /\ StreamInv => OutstandingTracked
  <2> SUFFICES ASSUME IInv, StreamInv, NEW h \in Host, Open(h),
                      NEW k \in conn[h].snd_una .. (conn[h].snd_nxt - 1)
               PROVE  Cardinality({e \in conn[h].rtq : e.seq <= k /\ k < e.end}) = 1
    BY DEF OutstandingTracked
  <2> DEFINE c == conn[h]
             E == {e \in c.rtq : e.seq <= k /\ k < e.end}
  <2>1. c \in Connection /\ c.state # "Closed" /\ Tracks(c)
    BY DEF IInv, TypeOK, Open, StreamInv, Sound, SendOK
  <2>2. \A e \in c.rtq : e.seq \in Nat /\ e.end \in Nat
    BY <2>1, ConnTypes DEF RetransmitSegment
  <2>3. c.snd_una \in Nat /\ c.snd_nxt \in Nat /\ k \in Int
    BY <2>1, ConnTypes
  <2>4. PICK e \in c.rtq : e.seq <= k /\ k < e.end
    BY <2>1 DEF Tracks
  <2>5. ASSUME NEW f \in c.rtq, f.seq <= k, k < f.end PROVE f = e
    <3>1. e = f \/ e.end <= f.seq \/ f.end <= e.seq
      BY <2>1 DEF Tracks
    <3>2. e.seq \in Nat /\ e.end \in Nat /\ f.seq \in Nat /\ f.end \in Nat
      BY <2>2
    <3> HIDE DEF c
    <3> QED BY <2>3, <2>4, <2>5, <3>1, <3>2
  <2>6. E = {e}
    BY <2>4, <2>5
  <2> QED BY <2>6, FS_Singleton
<1>2. IInv /\ StreamInv => SentIsAccounted
  <2> SUFFICES ASSUME IInv, StreamInv, NEW h \in Host, NEW i \in DOMAIN wire[h]
               PROVE  LET m == wire[h][i]
                      IN  m.rst \/ FinSeq(m) + (IF m.fin THEN 1 ELSE 0)
                                     <= conn[Other(h)].snd_nxt
    BY DEF SentIsAccounted
  <2>1. SegOK(Other(h), conn[Other(h)], wire[h][i])
    BY ArrivingGood
  <2> QED BY <2>1 DEF SegOK, Stamped, Bit
<1>3. IInv /\ StreamInv => AckedIsReceived
  BY DEF StreamInv, Sound, Acked, AckedIsReceived
<1>4. IInv /\ StreamInv => SendSideExact
  BY <1>1, <1>2, <1>3 DEF SendSideExact
<1> QED BY <1>4, StreamInductive, PTL

-----------------------------------------------------------------------------
(* The refinement: each direction implements ReliableStream *)

\* Nothing but what is listed changes in the direction from a to b.
Same(a, b) == /\ Written(a)' = Written(a) /\ Received(b)' = Received(b)

Flags(a, b) ==
    <<conn[a].close_requested, conn[b].fin_received, Confirmed(a)>>

\* t is s with something put behind it.
Longer(s, t) == Len(s) <= Len(t) /\ SubSeq(s, 1, Len(s)) = SubSeq(t, 1, Len(s)) /\ s # t

\* A step of the direction from a to b, in the terms of the connection.
StreamStep(a, b) ==
    \/ /\ ~conn[a].close_requested /\ Longer(Written(a), Written(a)')
       /\ Received(b)' = Received(b) /\ Flags(a, b)' = Flags(a, b)
    \/ /\ ~conn[a].close_requested /\ conn'[a].close_requested
       /\ Same(a, b) /\ conn'[b].fin_received = conn[b].fin_received
       /\ Confirmed(a)' = Confirmed(a)
    \/ /\ ~conn[b].fin_received /\ Longer(Received(b), Received(b)')
       /\ Len(Received(b)') <= Len(Written(a))
       /\ SubSeq(Received(b)', 1, Len(Received(b)')) = SubSeq(Written(a), 1, Len(Received(b)'))
       /\ Written(a)' = Written(a) /\ Flags(a, b)' = Flags(a, b)
    \/ /\ conn[a].close_requested /\ Received(b) = Written(a)
       /\ ~conn[b].fin_received /\ conn'[b].fin_received
       /\ Same(a, b) /\ conn'[a].close_requested = conn[a].close_requested
       /\ Confirmed(a)' = Confirmed(a)
    \/ /\ conn[b].fin_received /\ ~Confirmed(a) /\ Confirmed(a)'
       /\ Same(a, b) /\ conn'[a].close_requested = conn[a].close_requested
       /\ conn'[b].fin_received = conn[b].fin_received
    \/ Same(a, b) /\ Flags(a, b)' = Flags(a, b)

\* A sequence of bytes and the same with more behind it.
LEMMA LongerConcat ==
    ASSUME NEW s \in Seq(Byte), NEW f \in Seq(Byte), s \o f # s
    PROVE  Longer(s, s \o f)
<1> DEFINE t == s \o f
           n == Len(s)
           k == Len(f)
<1>1. n \in Nat /\ k \in Nat
  BY LenProperties
<1>2. /\ t \in Seq(Byte) /\ Len(t) = n + k
      /\ \A i \in 1 .. n + k : t[i] = IF i <= n THEN s[i] ELSE f[i - n]
  BY ConcatProperties
<1> HIDE DEF k
<1>3. n <= Len(t)
  <2> HIDE DEF n, t
  <2> QED BY <1>1, <1>2
<1> DEFINE p == SubSeq(s, 1, n)
           q == SubSeq(t, 1, n)
<1> HIDE DEF t
<1>4. /\ p \in Seq(Byte) /\ Len(p) = n /\ \A i \in 1 .. n : p[i] = s[i]
  <2>1. n \in Nat /\ n <= Len(s)
    BY <1>1
  <2> QED BY <2>1, Front
<1>5. /\ q \in Seq(Byte) /\ Len(q) = n /\ \A i \in 1 .. n : q[i] = t[i]
  <2> HIDE DEF n
  <2> QED BY <1>1, <1>2, <1>3, Front
<1>6. \A i \in 1 .. n : t[i] = s[i]
  <2> HIDE DEF n
  <2> QED BY <1>1, <1>2
<1> HIDE DEF p, q, n
<1>7. p = q
  <2>1. Len(p) = Len(q) /\ \A i \in 1 .. Len(p) : p[i] = q[i]
    BY <1>4, <1>5, <1>6
  <2> QED BY <1>4, <1>5, <2>1, SeqEqual
<1> QED BY <1>3, <1>7 DEF Longer, n, p, q, t

\* Two fronts of one sequence.
LEMMA FrontOfFront ==
    ASSUME NEW s \in Seq(Byte), NEW j \in Nat, NEW k \in Nat, j <= k, k <= Len(s)
    PROVE  LET p == SubSeq(s, 1, j)
               q == SubSeq(s, 1, k)
           IN  Len(p) = j /\ Len(q) = k /\ SubSeq(p, 1, j) = SubSeq(q, 1, j)
<1> DEFINE p == SubSeq(s, 1, j)
           q == SubSeq(s, 1, k)
           n == Len(s)
<1>1. n \in Nat /\ k <= n
  BY LenProperties
<1>2. j <= n
  <2> HIDE DEF n
  <2> QED BY <1>1
<1>3. /\ p \in Seq(Byte) /\ Len(p) = j /\ \A i \in 1 .. j : p[i] = s[i]
      /\ q \in Seq(Byte) /\ Len(q) = k /\ \A i \in 1 .. k : q[i] = s[i]
  BY <1>2, Front
<1> HIDE DEF p, q, n
<1> DEFINE u == SubSeq(p, 1, j)
           v == SubSeq(q, 1, j)
<1>4. /\ u \in Seq(Byte) /\ Len(u) = j /\ \A i \in 1 .. j : u[i] = p[i]
      /\ v \in Seq(Byte) /\ Len(v) = j /\ \A i \in 1 .. j : v[i] = q[i]
  <2>1. j <= Len(p) /\ j <= Len(q)
    BY <1>3
  <2> QED BY <1>3, <2>1, Front
<1>5. \A i \in 1 .. j : i \in 1 .. k
  OBVIOUS
<1> HIDE DEF u, v
<1>6. u = v
  <2>1. Len(u) = Len(v) /\ \A i \in 1 .. Len(u) : u[i] = v[i]
    BY <1>3, <1>4, <1>5
  <2> QED BY <1>4, <2>1, SeqEqual
<1> QED BY <1>3, <1>6 DEF p, q, u, v

\* What ReceivedWritten and ConfirmedReceived say of a state.
Known ==
    \A h \in Host :
      LET o == Other(h)
      IN  /\ conn[h].snd_una <= conn[h].snd_nxt
          /\ conn[h].fin_sent => conn[h].close_requested
          /\ Confirmed(h) => conn[o].fin_received
          /\ Received(h) \in Seq(Byte) /\ Len(Received(h)) <= wrote[o]
          /\ Received(h) = SubSeq(AppData[o], 1, Len(Received(h)))
          /\ conn[h].fin_received => Received(h) = Written(o) /\ conn[o].close_requested

\* They hold wherever the invariant does.
LEMMA KnownOK == IInv /\ StreamInv => Known
  BY ReceivedWritten, ConfirmedReceived DEF Known

\* A step of the sending host a.
LEMMA SenderStep ==
    ASSUME IInv, StreamInv, IInv', StreamInv', Known', NEW a \in Host, NEW b \in Host,
           b = Other(a),
           Evolves(a)
    PROVE  StreamStep(a, b)
<1>1. b # a /\ a = Other(b)
  BY TwoHosts
<1>2. conn'[b] = conn[b] /\ got'[b] = got[b]
  BY <1>1 DEF Evolves
<1>3. Received(b)' = Received(b) /\ conn'[b].fin_received = conn[b].fin_received
  BY <1>2 DEF Received
<1>4. /\ conn[a] \in Connection /\ conn'[a] \in Connection
      /\ wrote[a] \in Nat /\ wrote'[a] \in Nat
  BY DEF IInv, TypeOK
<1>5. /\ conn[a].close_requested \in BOOLEAN /\ conn'[a].close_requested \in BOOLEAN
      /\ conn[a].snd_una \in Nat /\ conn'[a].snd_una \in Nat
      /\ conn[a].snd_nxt \in Nat /\ conn'[a].snd_nxt \in Nat
  BY <1>4, ConnTypes
<1>6. /\ conn[a].fin_sent => conn[a].close_requested
      /\ Confirmed(a) => conn[b].fin_received
  BY ConfirmedReceived
<1>7. /\ conn'[a].snd_una <= conn'[a].snd_nxt
      /\ conn'[a].fin_sent => conn'[a].close_requested
      /\ Confirmed(a)' => conn'[b].fin_received
  BY DEF Known
<1>8. conn[b].fin_received => conn[a].close_requested
  BY <1>1, ReceivedWritten
<1>9. Confirmed(a) => Confirmed(a)'
  <2> SUFFICES ASSUME Confirmed(a) PROVE Confirmed(a)'
    OBVIOUS
  <2>1. conn[a].fin_sent /\ conn[a].snd_una = conn[a].snd_nxt
    BY DEF Confirmed
  <2>2. /\ conn'[a].fin_sent /\ conn'[a].snd_nxt = conn[a].snd_nxt
        /\ conn[a].snd_una <= conn'[a].snd_una
    BY <2>1 DEF Evolves, Advances
  <2>3. conn'[a].snd_una = conn'[a].snd_nxt
    BY <1>5, <1>7, <2>1, <2>2
  <2> QED BY <2>2, <2>3 DEF Confirmed
<1>10. Confirmed(a) \in BOOLEAN /\ Confirmed(a)' \in BOOLEAN
  <2>1. conn[a].fin_sent \in BOOLEAN /\ conn'[a].fin_sent \in BOOLEAN
    BY <1>4, ConnTypes
  <2> QED BY <2>1 DEF Confirmed
<1>11. CASE wrote'[a] # wrote[a]
  <2>1. /\ wrote[a] <= wrote'[a] /\ ~conn[a].close_requested /\ ~conn'[a].close_requested
    BY <1>11 DEF Evolves
  <2>2. ~Confirmed(a) /\ ~Confirmed(a)'
    BY <1>6, <1>7, <2>1 DEF Confirmed
  <2>3. Longer(Written(a), Written(a)')
    <3>1. AppData[a] \in Seq(Byte)
      BY HostData
    <3>2. wrote'[a] <= Len(AppData[a])
      BY DEF StreamInv, Sound, SendOK
    <3> DEFINE p == SubSeq(AppData[a], 1, wrote[a])
               q == SubSeq(AppData[a], 1, wrote'[a])
    <3>3. Len(p) = wrote[a] /\ Len(q) = wrote'[a]
          /\ SubSeq(p, 1, wrote[a]) = SubSeq(q, 1, wrote[a])
      BY <1>4, <2>1, <3>1, <3>2, FrontOfFront
    <3>4. Written(a) = p /\ Written(a)' = q
      BY DEF Written
    <3> HIDE DEF p, q
    <3>5. p # q
      BY <1>11, <3>3
    <3>6. Longer(p, q)
      BY <2>1, <3>3, <3>5 DEF Longer
    <3> QED BY <3>4, <3>6
  <2>4. Flags(a, b)' = Flags(a, b)
    <3>1. Confirmed(a)' = Confirmed(a) /\ conn'[a].close_requested = conn[a].close_requested
      BY <1>5, <1>10, <2>1, <2>2
    <3> QED BY <1>3, <3>1 DEF Flags
  <2> QED BY <1>3, <2>1, <2>3, <2>4 DEF StreamStep
<1>12. CASE wrote'[a] = wrote[a]
  <2>1. Same(a, b)
    BY <1>3, <1>12 DEF Same, Written
  <2>2. conn[a].close_requested => conn'[a].close_requested
    BY DEF Evolves
  <2>3. CASE ~conn[a].close_requested /\ conn'[a].close_requested
    <3>1. ~Confirmed(a) /\ ~Confirmed(a)'
      BY <1>2, <1>6, <1>7, <1>8, <2>3
    <3>2. Confirmed(a)' = Confirmed(a)
      BY <1>10, <3>1
    <3> QED BY <1>3, <2>1, <2>3, <3>2 DEF StreamStep
  <2>4. CASE conn'[a].close_requested = conn[a].close_requested
    <3>1. CASE ~Confirmed(a) /\ Confirmed(a)'
      <4>1. conn[b].fin_received
        BY <1>2, <1>7, <3>1
      <4> QED BY <1>3, <2>1, <2>4, <3>1, <4>1 DEF StreamStep
    <3>2. CASE Confirmed(a) \/ ~Confirmed(a)'
      <4>1. Confirmed(a)' = Confirmed(a)
        BY <1>9, <1>10, <3>2
      <4>2. Flags(a, b)' = Flags(a, b)
        BY <1>3, <2>4, <4>1 DEF Flags
      <4> QED BY <2>1, <4>2 DEF StreamStep
    <3> QED BY <3>1, <3>2
  <2> QED BY <1>5, <2>2, <2>3, <2>4
<1> QED BY <1>11, <1>12

\* A step of the receiving host b.
LEMMA ReceiverStep ==
    ASSUME IInv, StreamInv, IInv', StreamInv', Known', NEW a \in Host, NEW b \in Host,
           b = Other(a),
           Evolves(b)
    PROVE  StreamStep(a, b)
<1>1. b # a /\ a = Other(b)
  BY TwoHosts
<1>2. conn'[a] = conn[a] /\ wrote'[a] = wrote[a]
  BY <1>1 DEF Evolves
<1>3. /\ Written(a)' = Written(a) /\ conn'[a].close_requested = conn[a].close_requested
      /\ Confirmed(a)' = Confirmed(a)
  BY <1>2 DEF Written, Confirmed
<1>4. conn[b].fin_received \in BOOLEAN /\ conn'[b].fin_received \in BOOLEAN
  BY ConnTypes DEF IInv, TypeOK
<1>5. conn[b].fin_received => conn'[b].fin_received
  BY DEF Evolves
<1>6. conn'[b].fin_received => Received(b)' = Received(b)
  BY DEF Evolves, Received
<1>7. Received(b) \in Seq(Byte)
  BY ReceivedWritten
<1>8. /\ Received(b)' \in Seq(Byte) /\ Len(Received(b)') <= wrote'[a]
      /\ Received(b)' = SubSeq(AppData[a], 1, Len(Received(b)'))
      /\ conn'[b].fin_received => Received(b)' = Written(a)' /\ conn'[a].close_requested
  BY <1>1 DEF Known
<1>9. CASE Received(b)' # Received(b)
  <2>1. ~conn[b].fin_received /\ ~conn'[b].fin_received
    BY <1>5, <1>6, <1>9
  <2>2. Longer(Received(b), Received(b)')
    <3>1. PICK f \in Seq(Byte) : Received(b)' = Received(b) \o f
      BY DEF Evolves, Received
    <3> QED BY <1>7, <1>9, <3>1, LongerConcat
  <2>3. /\ Len(Received(b)') <= Len(Written(a))
        /\ SubSeq(Received(b)', 1, Len(Received(b)')) = SubSeq(Written(a), 1, Len(Received(b)'))
    <3> DEFINE r == Received(b)'
               n == Len(r)
               A == AppData[a]
               w == wrote[a]
    <3>1. n \in Nat /\ w \in Nat /\ A \in Seq(Byte) /\ n <= w
      BY <1>2, <1>8, HostData, LenProperties DEF IInv, TypeOK
    <3>2. w <= Len(A)
      BY DEF StreamInv, Sound, SendOK
    <3>3. r = SubSeq(A, 1, n) /\ Written(a) = SubSeq(A, 1, w)
      BY <1>8 DEF Written
    <3> HIDE DEF r, n, A, w
    <3>4. /\ Len(SubSeq(A, 1, w)) = w
          /\ SubSeq(SubSeq(A, 1, n), 1, n) = SubSeq(SubSeq(A, 1, w), 1, n)
      BY <3>1, <3>2, FrontOfFront
    <3>5. n <= Len(Written(a)) /\ SubSeq(r, 1, n) = SubSeq(Written(a), 1, n)
      BY <3>1, <3>3, <3>4
    <3> QED BY <3>5 DEF r, n
  <2>4. Flags(a, b)' = Flags(a, b)
    <3>1. conn'[b].fin_received = conn[b].fin_received
      BY <1>4, <2>1
    <3> QED BY <1>3, <3>1 DEF Flags
  <2> QED BY <1>3, <2>1, <2>2, <2>3, <2>4 DEF StreamStep
<1>10. CASE Received(b)' = Received(b)
  <2>1. Same(a, b)
    BY <1>3, <1>10 DEF Same
  <2>2. CASE ~conn[b].fin_received /\ conn'[b].fin_received
    <3>1. Received(b) = Written(a) /\ conn[a].close_requested
      BY <1>3, <1>8, <1>10, <2>2
    <3> QED BY <1>3, <2>1, <2>2, <3>1 DEF StreamStep
  <2>3. CASE conn[b].fin_received \/ ~conn'[b].fin_received
    <3>1. conn'[b].fin_received = conn[b].fin_received
      BY <1>4, <1>5, <2>3
    <3>2. Flags(a, b)' = Flags(a, b)
      BY <1>3, <3>1 DEF Flags
    <3> QED BY <2>1, <3>2 DEF StreamStep
  <2> QED BY <2>2, <2>3
<1> QED BY <1>9, <1>10

\* Every step of the two hosts and the network is a step of either direction.
LEMMA EveryStep ==
    ASSUME OneOpener, IInv, StreamInv, [Next]_vars, Known', NEW a \in Host, NEW b \in Host,
           b = Other(a)
    PROVE  StreamStep(a, b)
<1>1. IInv' /\ StreamInv'
  BY NextOK, NextStreams
<1>2. PICK h \in Host : Evolves(h)
  BY NextStreams
<1>3. h = a \/ h = b
  BY TwoHosts
<1> QED BY <1>1, <1>2, <1>3, SenderStep, ReceiverStep

\* Nothing has been written, received, ended or confirmed at first.
LEMMA StreamsStart ==
    ASSUME Init, NEW h \in Host
    PROVE  /\ Written(h) = <<>> /\ Received(h) = <<>> /\ conn[h].close_requested = FALSE
           /\ conn[h].fin_received = FALSE /\ Confirmed(h) = FALSE
<1>1. conn[h] = Fresh(h) /\ wrote[h] = 0 /\ got[h] = <<>>
  BY DEF Init, Fresh
<1>2. /\ conn[h].rx = <<>> /\ conn[h].close_requested = FALSE
      /\ conn[h].fin_received = FALSE /\ conn[h].fin_sent = FALSE
  BY <1>1, FreshShape
<1>3. Written(h) = <<>>
  <2>1. SubSeq(AppData[h], 1, 0) = <<>>
    BY SubSeqEmpty
  <2> QED BY <1>1, <2>1 DEF Written
<1>4. Received(h) = <<>>
  BY <1>1, <1>2 DEF Received
<1> QED BY <1>2, <1>3, <1>4 DEF Confirmed

\* Each direction of the connection implements the reliable byte stream: bytes arrive
\* in order, once and undamaged, the end of the stream is announced after the last one,
\* and the sender takes the stream for delivered only when it has been.
THEOREM Refinement ==
    OneOpener /\ Host = {client, server} => (Spec => ImplementsReliableStream)
<1> SUFFICES ASSUME OneOpener, Host = {client, server}
             PROVE  Spec => ImplementsReliableStream
  OBVIOUS
<1>1. client \in Host /\ server \in Host /\ server = Other(client) /\ client = Other(server)
  BY TwoHosts
<1>2. Init => Up!Init /\ Down!Init
  <2> SUFFICES ASSUME Init PROVE Up!Init /\ Down!Init
    OBVIOUS
  <2>1. \A h \in Host :
          /\ Written(h) = <<>> /\ Received(h) = <<>> /\ conn[h].close_requested = FALSE
          /\ conn[h].fin_received = FALSE /\ Confirmed(h) = FALSE
    BY StreamsStart
  <2> QED BY <1>1, <2>1 DEF Up!Init, Down!Init
<1>3. (IInv /\ StreamInv) /\ [Next]_vars /\ Known' => [Up!Next]_(Up!vars)
  <2> SUFFICES ASSUME IInv, StreamInv, [Next]_vars, Known' PROVE [Up!Next]_(Up!vars)
    OBVIOUS
  <2>1. StreamStep(client, server)
    BY <1>1, EveryStep
  <2> QED BY <2>1 DEF StreamStep, Same, Flags, Longer, Up!Next, Up!vars, Up!Send, Up!End,
             Up!Deliver, Up!Complete, Up!Confirm, Up!Grows, Up!IsStrictPrefix, Up!IsPrefix
<1>4. (IInv /\ StreamInv) /\ [Next]_vars /\ Known' => [Down!Next]_(Down!vars)
  <2> SUFFICES ASSUME IInv, StreamInv, [Next]_vars, Known' PROVE [Down!Next]_(Down!vars)
    OBVIOUS
  <2>1. StreamStep(server, client)
    BY <1>1, EveryStep
  <2> QED BY <2>1 DEF StreamStep, Same, Flags, Longer, Down!Next, Down!vars, Down!Send,
             Down!End, Down!Deliver, Down!Complete, Down!Confirm, Down!Grows,
             Down!IsStrictPrefix, Down!IsPrefix
<1> QED BY <1>2, <1>3, <1>4, KnownOK, StreamInductive, PTL
        DEF Spec, ImplementsReliableStream, Up!Spec, Down!Spec
=============================================================================
