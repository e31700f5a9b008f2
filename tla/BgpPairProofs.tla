---------------------------- MODULE BgpPairProofs ----------------------------
(***************************************************************************)
(* Two BGP speakers for any number of connections, faults and commands, and *)
(* whichever of them dial: no connection is left behind at a speaker that  *)
(* neither uses nor will accept it, and a neighbour that is shut down      *)
(* leaves nothing.                                                         *)
(*                                                                         *)
(* A call of the router is a chain of functions from worlds to worlds.     *)
(* Every link keeps WorldOK of the speaker it works for and brings no      *)
(* connection to life at the other one (Elsewhere).                        *)
(***************************************************************************)
EXTENDS BgpPair, TLAPS, SequenceTheorems, WellFoundedInduction, NaturalsInduction

-----------------------------------------------------------------------------
(* Connections.                                                            *)

\* The two speakers are each other's peer.
LEMMA PeerFacts ==
    ASSUME NEW s \in Speaker
    PROVE  /\ Peer(s) \in Speaker /\ Peer(s) # s /\ Peer(Peer(s)) = s
           /\ \A t \in Speaker : t = s \/ t = Peer(s)
BY SpeakerAssumption DEF Speaker, Peer

\* A SYN is the first segment there is, and finds no connection that is alive.
SynFirst(k) ==
    \A s \in Speaker : \A j \in 1 .. Len(k.wire[s]) :
        k.wire[s][j] = "SYN" => j = 1 /\ k.end[s] \in {"none", "gone"}

ConnOK(k) == k \in ConnState /\ SynFirst(k)

\* The fields of a connection.
LEMMA ConnFields ==
    ASSUME NEW k \in ConnState
    PROVE  /\ k.opener \in Speaker /\ k.end \in [Speaker -> {"none", "syn", "up", "gone"}]
           /\ k.wire \in [Speaker -> Seq(Segment)] /\ k.received \in [Speaker -> Seq(Message)]
           /\ \A s \in Speaker : k.wire[s] \in Seq(Segment) /\ Len(k.wire[s]) \in Nat
BY LenProperties DEF ConnState

\* What the record operations of this module change.
LEMMA SendFacts ==
    ASSUME NEW s \in Speaker, NEW k \in ConnState, NEW seg \in Segment
    PROVE  LET r == Send(k, s, seg)
           IN  /\ r \in ConnState /\ r.end = k.end /\ r.received = k.received
               /\ r.wire[s] = k.wire[s] /\ r.wire[Peer(s)] = Append(k.wire[Peer(s)], seg)
<1> DEFINE t == Peer(s)
           W == [k.wire EXCEPT ![t] = Append(k.wire[t], seg)]
           r == Send(k, s, seg)
<1>1. t \in Speaker /\ t # s
  BY PeerFacts
<1>2. k.wire \in [Speaker -> Seq(Segment)] /\ k.wire[t] \in Seq(Segment)
  BY <1>1, ConnFields
<1>3. r = [k EXCEPT !.wire = W]
  BY DEF Send
<1>4. Append(k.wire[t], seg) \in Seq(Segment)
  BY <1>2, AppendProperties
<1>5. W \in [Speaker -> Seq(Segment)] /\ W[s] = k.wire[s] /\ W[t] = Append(k.wire[t], seg)
  BY <1>1, <1>2, <1>4
<1> HIDE DEF W, t
<1>6. r \in ConnState /\ r.end = k.end /\ r.received = k.received /\ r.wire = W
  BY <1>3, <1>5 DEF ConnState
<1> QED BY <1>5, <1>6 DEF t

\* A segment other than a SYN leaves.
LEMMA SendOK ==
    ASSUME NEW s \in Speaker, NEW k, ConnOK(k), NEW seg \in Segment, seg # "SYN"
    PROVE  ConnOK(Send(k, s, seg)) /\ Send(k, s, seg).end = k.end
<1> DEFINE t == Peer(s)
           r == Send(k, s, seg)
<1>1. t \in Speaker /\ (\A u \in Speaker : u = s \/ u = t)
  BY PeerFacts
<1>2. k \in ConnState /\ SynFirst(k)
  BY DEF ConnOK
<1>3. /\ r \in ConnState /\ r.end = k.end
      /\ r.wire[s] = k.wire[s] /\ r.wire[t] = Append(k.wire[t], seg)
  BY <1>2, SendFacts
<1>4. k.wire[t] \in Seq(Segment) /\ Len(k.wire[t]) \in Nat
  BY <1>1, <1>2, ConnFields
<1>5. /\ Len(Append(k.wire[t], seg)) = Len(k.wire[t]) + 1
      /\ \A j \in 1 .. Len(k.wire[t]) : Append(k.wire[t], seg)[j] = k.wire[t][j]
      /\ Append(k.wire[t], seg)[Len(k.wire[t]) + 1] = seg
  BY <1>4, AppendProperties
<1> HIDE DEF r, t
<1>6. ASSUME NEW j \in 1 .. Len(r.wire[t]), r.wire[t][j] = "SYN" PROVE j = 1 /\ r.end[t] \in {"none", "gone"}
  <2>1. j \in 1 .. Len(k.wire[t]) \/ j = Len(k.wire[t]) + 1
    BY <1>3, <1>4, <1>5
  <2>2. j \in 1 .. Len(k.wire[t])
    BY <1>3, <1>5, <1>6, <2>1
  <2>3. k.wire[t][j] = "SYN"
    BY <1>3, <1>5, <1>6, <2>2
  <2> QED BY <1>1, <1>2, <1>3, <2>2, <2>3 DEF SynFirst
<1>7. ASSUME NEW j \in 1 .. Len(r.wire[s]), r.wire[s][j] = "SYN" PROVE j = 1 /\ r.end[s] \in {"none", "gone"}
  BY <1>2, <1>3, <1>7 DEF SynFirst
<1>8. SynFirst(r)
  BY <1>1, <1>6, <1>7 DEF SynFirst
<1> QED BY <1>3, <1>8 DEF ConnOK, r

\* An end goes.
LEMMA GoneOK ==
    ASSUME NEW s \in Speaker, NEW k, ConnOK(k)
    PROVE  /\ ConnOK(Gone(k, s)) /\ Gone(k, s).end[s] = "gone" /\ Gone(k, s).end[Peer(s)] = k.end[Peer(s)]
           /\ Gone(k, s).wire = k.wire
<1> DEFINE E == [k.end EXCEPT ![s] = "gone"]
           M == [k.received EXCEPT ![s] = <<>>]
           r == Gone(k, s)
<1>1. k \in ConnState /\ SynFirst(k)
  BY DEF ConnOK
<1>2. k.end \in [Speaker -> {"none", "syn", "up", "gone"}] /\ k.received \in [Speaker -> Seq(Message)]
  BY <1>1, ConnFields
<1>3. Peer(s) \in Speaker /\ Peer(s) # s /\ \A u \in Speaker : u = s \/ u = Peer(s)
  BY PeerFacts
<1>4. r = [k EXCEPT !.end = E, !.received = M]
  BY DEF Gone
<1>5. /\ E \in [Speaker -> {"none", "syn", "up", "gone"}] /\ E[s] = "gone" /\ E[Peer(s)] = k.end[Peer(s)]
  BY <1>2, <1>3
<1>6. M \in [Speaker -> Seq(Message)]
  BY <1>2
<1> HIDE DEF E, M
<1>7. r \in ConnState /\ r.end = E /\ r.wire = k.wire
  BY <1>1, <1>4, <1>5, <1>6 DEF ConnState
<1> HIDE DEF r
<1>8. SynFirst(r)
  <2> SUFFICES ASSUME NEW u \in Speaker, NEW j \in 1 .. Len(r.wire[u]), r.wire[u][j] = "SYN"
               PROVE  j = 1 /\ r.end[u] \in {"none", "gone"}
    BY DEF SynFirst
  <2>1. j = 1 /\ k.end[u] \in {"none", "gone"}
    BY <1>1, <1>7 DEF SynFirst
  <2>2. r.end[u] = k.end[u] \/ r.end[u] = "gone"
    BY <1>3, <1>5, <1>7
  <2> QED BY <2>1, <2>2
<1> QED BY <1>5, <1>7, <1>8 DEF ConnOK, r

\* tcp_abort.
LEMMA AbortOK ==
    ASSUME NEW s \in Speaker, NEW k, ConnOK(k)
    PROVE  /\ ConnOK(Abort(k, s)) /\ Abort(k, s).end[s] = "gone"
           /\ Abort(k, s).end[Peer(s)] = k.end[Peer(s)]
<1>1. /\ ConnOK(Gone(k, s)) /\ Gone(k, s).end[s] = "gone" /\ Gone(k, s).end[Peer(s)] = k.end[Peer(s)]
  BY GoneOK
<1>2. "RST" \in Segment /\ "RST" # "SYN"
  BY DEF Segment
<1> DEFINE g == Gone(k, s)
<1> HIDE DEF g
<1>3. ConnOK(g) => ConnOK(Send(g, s, "RST")) /\ Send(g, s, "RST").end = g.end
  BY <1>2, SendOK
<1> QED BY <1>1, <1>3 DEF Abort, g

\* Settled changes what is under way only.
LEMMA SettledOK ==
    ASSUME NEW k, ConnOK(k)
    PROVE  ConnOK(Settled(k)) /\ Settled(k).end = k.end
<1> DEFINE W == [s \in Speaker |->
                   IF k.end[s] # "gone" THEN k.wire[s]
                   ELSE IF k.end[Peer(s)] = "gone" \/ ToSet(k.wire[s]) \subseteq {"RST"} THEN <<>> ELSE <<"ACK">>]
           r == Settled(k)
<1>1. k \in ConnState /\ SynFirst(k)
  BY DEF ConnOK
<1>2. r = [k EXCEPT !.wire = W]
  BY DEF Settled
<1>3. <<>> \in Seq(Segment) /\ <<"ACK">> \in Seq(Segment)
  BY DEF Segment
<1>4. \A s \in Speaker : W[s] = k.wire[s] \/ W[s] = <<>> \/ W[s] = <<"ACK">>
  OBVIOUS
<1>5. W \in [Speaker -> Seq(Segment)]
  BY <1>1, <1>3, ConnFields
<1> HIDE DEF W
<1>6. r \in ConnState /\ r.end = k.end /\ r.wire = W
  BY <1>1, <1>2, <1>5 DEF ConnState
<1> HIDE DEF r
<1>7. SynFirst(r)
  <2> SUFFICES ASSUME NEW u \in Speaker, NEW j \in 1 .. Len(W[u]), W[u][j] = "SYN"
               PROVE  j = 1 /\ k.end[u] \in {"none", "gone"}
    BY <1>6 DEF SynFirst
  <2>1. Len(<<>>) = 0 /\ Len(<<"ACK">>) = 1 /\ <<"ACK">>[1] = "ACK"
    OBVIOUS
  <2>2. W[u] # <<>>
    BY <2>1
  <2>3. W[u] # <<"ACK">>
    <3> SUFFICES ASSUME W[u] = <<"ACK">> PROVE FALSE
      OBVIOUS
    <3>1. j = 1
      BY <2>1
    <3> QED BY <2>1, <3>1
  <2>4. W[u] = k.wire[u]
    BY <1>4, <2>2, <2>3
  <2> QED BY <1>1, <2>4 DEF SynFirst
<1> QED BY <1>6, <1>7 DEF ConnOK, r

\* No connection.
LEMMA NoConnOK == ConnOK(NoConn) /\ \A s \in Speaker : NoConn.end[s] = "none"
<1>1. Low \in Speaker /\ <<>> \in Seq(Segment) /\ <<>> \in Seq(Message) /\ Len(<<>>) = 0
  BY DEF Speaker
<1>2. NoConn \in ConnState
  BY <1>1 DEF NoConn, ConnState
<1>3. \A s \in Speaker : NoConn.wire[s] = <<>> /\ NoConn.end[s] = "none"
  BY DEF NoConn
<1>4. SynFirst(NoConn)
  BY <1>1, <1>3 DEF SynFirst
<1> QED BY <1>2, <1>3, <1>4 DEF ConnOK

\* tcp_connect_from.
LEMMA OpenedOK ==
    ASSUME NEW s \in Speaker
    PROVE  ConnOK(Opened(s)) /\ Opened(s).end[Peer(s)] = "none" /\ Opened(s).end[s] = "syn"
<1> DEFINE k == [NoConn EXCEPT !.opener = s, !.end[s] = "syn"]
           r == Opened(s)
           t == Peer(s)
<1>1. t \in Speaker /\ t # s /\ \A u \in Speaker : u = s \/ u = t
  BY PeerFacts
<1>2. NoConn \in ConnState /\ NoConn.end \in [Speaker -> {"none", "syn", "up", "gone"}] /\ \A u \in Speaker : NoConn.end[u] = "none"
  BY NoConnOK, ConnFields DEF ConnOK
<1>3. \A u \in Speaker : NoConn.wire[u] = <<>>
  BY DEF NoConn
<1>4. k \in ConnState /\ k.end[s] = "syn" /\ k.end[t] = "none" /\ k.wire = NoConn.wire
  <2> DEFINE E == [NoConn.end EXCEPT ![s] = "syn"]
  <2>1. k = [NoConn EXCEPT !.opener = s, !.end = E]
    OBVIOUS
  <2>2. E \in [Speaker -> {"none", "syn", "up", "gone"}] /\ E[s] = "syn" /\ E[t] = "none"
    BY <1>1, <1>2
  <2> HIDE DEF E
  <2>3. k \in ConnState /\ k.end = E /\ k.wire = NoConn.wire
    BY <1>2, <2>1, <2>2 DEF ConnState
  <2> QED BY <2>2, <2>3
<1>5. "SYN" \in Segment
  BY DEF Segment
<1>6. r = Send(k, s, "SYN")
  BY DEF Opened
<1> HIDE DEF k
<1>7. r \in ConnState /\ r.end = k.end /\ r.wire[s] = k.wire[s] /\ r.wire[t] = Append(k.wire[t], "SYN")
  BY <1>4, <1>5, <1>6, SendFacts
<1> HIDE DEF r
<1>8. r.wire[s] = <<>> /\ r.wire[t] = <<"SYN">>
  <2>1. k.wire[s] = <<>> /\ k.wire[t] = <<>>
    BY <1>1, <1>3, <1>4
  <2>2. Append(<<>>, "SYN") = <<"SYN">>
    OBVIOUS
  <2> QED BY <1>7, <2>1, <2>2
<1>9. SynFirst(r)
  <2> SUFFICES ASSUME NEW u \in Speaker, NEW j \in 1 .. Len(r.wire[u]) PROVE j = 1 /\ r.end[u] \in {"none", "gone"}
    BY DEF SynFirst
  <2>1. Len(<<>>) = 0 /\ Len(<<"SYN">>) = 1
    OBVIOUS
  <2>2. u = t
    BY <1>1, <1>8, <2>1
  <2> QED BY <1>4, <1>7, <1>8, <2>1, <2>2
<1> QED BY <1>4, <1>7, <1>9 DEF ConnOK, r, t

\* dispatch_tcp_segment: an end comes to life only when a SYN finds a listener.
LEMMA ArriveOK ==
    ASSUME NEW s \in Speaker, NEW k, ConnOK(k), k.wire[s] # <<>>, NEW listening \in BOOLEAN
    PROVE  LET r == Arrive(k, s, listening)
           IN  /\ ConnOK(r) /\ r.end[Peer(s)] = k.end[Peer(s)]
               /\ Live(r, s) => Live(k, s) \/ (k.end[s] = "none" /\ r.end[s] = "syn")
<1> DEFINE seg == Head(k.wire[s])
           q == [k EXCEPT !.wire[s] = Tail(@)]
           t == Peer(s)
           r == Arrive(k, s, listening)
<1>1. t \in Speaker /\ t # s /\ \A u \in Speaker : u = s \/ u = t
  BY PeerFacts
<1>2. k \in ConnState /\ SynFirst(k)
  BY DEF ConnOK
<1>3. /\ k.end \in [Speaker -> {"none", "syn", "up", "gone"}] /\ k.wire \in [Speaker -> Seq(Segment)]
      /\ k.received \in [Speaker -> Seq(Message)] /\ k.wire[s] \in Seq(Segment) /\ Len(k.wire[s]) \in Nat
  BY <1>2, ConnFields
<1>4. /\ seg \in Segment /\ seg = k.wire[s][1] /\ Tail(k.wire[s]) \in Seq(Segment)
      /\ Len(Tail(k.wire[s])) = Len(k.wire[s]) - 1 /\ 1 \in 1 .. Len(k.wire[s])
      /\ \A j \in 1 .. Len(k.wire[s]) - 1 : Tail(k.wire[s])[j] = k.wire[s][j + 1]
  BY <1>3, HeadTailProperties
<1>5. /\ q \in ConnState /\ q.end = k.end /\ q.received = k.received
      /\ q.wire[s] = Tail(k.wire[s]) /\ q.wire[t] = k.wire[t]
  <2> DEFINE W == [k.wire EXCEPT ![s] = Tail(k.wire[s])]
  <2>1. q = [k EXCEPT !.wire = W]
    OBVIOUS
  <2>2. W \in [Speaker -> Seq(Segment)] /\ W[s] = Tail(k.wire[s]) /\ W[t] = k.wire[t]
    BY <1>1, <1>3, <1>4
  <2> HIDE DEF W
  <2>3. q \in ConnState /\ q.end = k.end /\ q.received = k.received /\ q.wire = W
    BY <1>2, <2>1, <2>2 DEF ConnState
  <2> QED BY <2>2, <2>3
<1>6. \A j \in 1 .. Len(q.wire[s]) : q.wire[s][j] # "SYN"
  <2> SUFFICES ASSUME NEW j \in 1 .. Len(q.wire[s]), q.wire[s][j] = "SYN" PROVE FALSE
    OBVIOUS
  <2>1. j + 1 \in 1 .. Len(k.wire[s]) /\ j \in 1 .. Len(k.wire[s]) - 1 /\ j + 1 # 1
    BY <1>3, <1>4, <1>5
  <2>2. k.wire[s][j + 1] = "SYN"
    BY <1>4, <1>5, <2>1
  <2> QED BY <1>2, <2>1, <2>2 DEF SynFirst
<1> HIDE DEF q
\* A connection that keeps q's segments and q's other end.
<1>7. ASSUME NEW h \in ConnState, h.wire = q.wire, h.end[t] = k.end[t] PROVE ConnOK(h)
  <2> SUFFICES ASSUME NEW u \in Speaker, NEW j \in 1 .. Len(h.wire[u]), h.wire[u][j] = "SYN"
               PROVE  j = 1 /\ h.end[u] \in {"none", "gone"}
    BY DEF ConnOK, SynFirst
  <2>1. u = t
    BY <1>1, <1>6, <1>7
  <2> QED BY <1>2, <1>5, <1>7, <2>1 DEF SynFirst
<1>8. ConnOK(q)
  BY <1>5, <1>7
<1>9. ASSUME NEW e \in {"syn", "up"}
      PROVE  LET h == [q EXCEPT !.end[s] = e] IN ConnOK(h) /\ h.end[t] = k.end[t] /\ h.end[s] = e
  <2> DEFINE E == [q.end EXCEPT ![s] = e]
             h == [q EXCEPT !.end[s] = e]
  <2>1. h = [q EXCEPT !.end = E]
    OBVIOUS
  <2>2. E \in [Speaker -> {"none", "syn", "up", "gone"}] /\ E[s] = e /\ E[t] = k.end[t]
    BY <1>1, <1>3, <1>5
  <2> HIDE DEF E
  <2>3. h \in ConnState /\ h.end = E /\ h.wire = q.wire
    BY <1>5, <2>1, <2>2 DEF ConnState
  <2> HIDE DEF h
  <2>4. ConnOK(h) /\ h.end[t] = k.end[t] /\ h.end[s] = e
    BY <1>7, <2>2, <2>3
  <2> QED BY <2>4 DEF h
<1>10. /\ {"SYN_ACK", "ACK", "RST"} \subseteq Segment /\ "SYN_ACK" # "SYN" /\ "ACK" # "SYN" /\ "RST" # "SYN"
  BY DEF Segment
<1>11. ConnOK(Reset(q, s, seg)) /\ Reset(q, s, seg).end = q.end
  BY <1>8, <1>10, SendOK DEF Reset
<1>12. CASE k.end[s] = "none" /\ seg = "SYN" /\ listening
  <2> DEFINE h == [q EXCEPT !.end[s] = "syn"]
  <2>1. ConnOK(h) /\ h.end[t] = k.end[t] /\ h.end[s] = "syn"
    BY <1>9
  <2>2. r = Send(h, s, "SYN_ACK")
    BY <1>12 DEF Arrive, q, Live
  <2> HIDE DEF h
  <2>3. ConnOK(r) /\ r.end = h.end
    BY <1>10, <2>1, <2>2, SendOK
  <2> QED BY <1>12, <2>1, <2>3
<1>13. CASE k.end[s] = "none" /\ ~(seg = "SYN" /\ listening)
  <2> DEFINE h == Reset(q, s, seg)
  <2>1. r = Gone(h, s)
    BY <1>13 DEF Arrive, q, Live
  <2>2. ConnOK(h) /\ h.end = k.end
    BY <1>5, <1>11
  <2> HIDE DEF h
  <2>3. ConnOK(r) /\ r.end[s] = "gone" /\ r.end[t] = h.end[t]
    BY <2>1, <2>2, GoneOK
  <2> QED BY <2>2, <2>3 DEF Live
<1>14. CASE k.end[s] = "gone"
  <2>1. r = Reset(q, s, seg)
    BY <1>14 DEF Arrive, q, Live
  <2> QED BY <1>5, <1>11, <1>14, <2>1 DEF Live
<1>15. CASE Live(k, s)
  <2>0. k.end[s] # "none" /\ k.end[s] # "gone"
    BY <1>15 DEF Live
  <2>1. CASE seg = "RST"
    <3>1. r = Gone(q, s)
      BY <1>15, <2>0, <2>1, Zenon DEF Arrive, q, EndsHandshake
    <3>2. ConnOK(r) /\ r.end[s] = "gone" /\ r.end[t] = q.end[t]
      BY <1>8, <3>1, GoneOK
    <3> QED BY <1>5, <1>15, <3>2
  <2>2. CASE seg = "SYN_ACK"
    <3> DEFINE h == [q EXCEPT !.end[s] = "up"]
    <3>1. ConnOK(h) /\ h.end[t] = k.end[t]
      BY <1>9
    <3>2. r = Send(h, s, "ACK")
      BY <1>15, <2>0, <2>2 DEF Arrive, q, EndsHandshake
    <3> HIDE DEF h
    <3>3. ConnOK(r) /\ r.end = h.end
      BY <1>10, <3>1, <3>2, SendOK
    <3> QED BY <1>15, <3>1, <3>3
  <2>3. CASE seg = "ACK"
    <3> DEFINE h == [q EXCEPT !.end[s] = "up"]
    <3>1. ConnOK(h) /\ h.end[t] = k.end[t]
      BY <1>9
    <3>2. r = h
      BY <1>15, <2>0, <2>3 DEF Arrive, q, EndsHandshake
    <3> QED BY <1>15, <3>1, <3>2
  <2>4. CASE seg \notin {"RST", "SYN_ACK", "ACK"}
    <3>1. seg # "SYN"
      BY <1>2, <1>4, <2>0 DEF SynFirst
    <3>2. seg \in Message
      BY <1>4, <2>4, <3>1 DEF Segment
    <3>3. r = [q EXCEPT !.received[s] = Append(q.received[s], seg)]
      BY <1>15, <2>0, <2>4 DEF Arrive, q, EndsHandshake
    <3> DEFINE M == [q.received EXCEPT ![s] = Append(q.received[s], seg)]
    <3>4. r = [q EXCEPT !.received = M]
      BY <3>3
    <3>5. Append(q.received[s], seg) \in Seq(Message)
      BY <1>3, <1>5, <3>2, AppendProperties
    <3>6. M \in [Speaker -> Seq(Message)]
      BY <1>3, <1>5, <3>5
    <3> HIDE DEF M, r
    <3>7. r \in ConnState /\ r.end = q.end /\ r.wire = q.wire
      BY <1>5, <3>4, <3>6 DEF ConnState
    <3>8. ConnOK(r)
      BY <1>5, <1>7, <3>7
    <3> QED BY <1>5, <1>15, <3>7, <3>8 DEF r
  <2> QED BY <2>1, <2>2, <2>3, <2>4
<1> QED BY <1>3, <1>12, <1>13, <1>14, <1>15 DEF Live

-----------------------------------------------------------------------------
(* Worlds.                                                                 *)

Conns(c) == c \in [Conn -> ConnState] /\ \A i \in Conn : ConnOK(c[i])

\* Whatever is alive at s is in use by p, or one of X.
Served(p, c, s, X) == \A i \in Conn : Live(c[i], s) => i \in {p.stream, p.collision} \cup X

\* The speaker's state goes with its connections, and one that is shut down has none.
Shape(p) ==
    /\ p.stream = None => p.collision = None /\ p.state \in {"Idle", "Active"}
    /\ p.state = "Idle" => p.stream = None
    /\ ~p.admin_up => p.state = "Idle" /\ p.route = "none" /\ ~p.stale

Worlds == [p : SpeakerState, c : [Conn -> ConnState]]

Base(w, s, X) == w \in Worlds /\ Conns(w.c) /\ Served(w.p, w.c, s, X)

WorldOK(w, s, X) == Base(w, s, X) /\ Shape(w.p)

\* No connection comes to life or dies at the other end.
Elsewhere(c, d, s) == \A i \in Conn : d[i].end[Peer(s)] = c[i].end[Peer(s)]

Kept(w, v, s) == v.p.accept_queue = w.p.accept_queue /\ Elsewhere(w.c, v.c, s)

\* One step after another.
LEMMA KeptTrans ==
    ASSUME NEW u, NEW v, NEW w, NEW s, Kept(u, v, s), Kept(v, w, s)
    PROVE  Kept(u, w, s)
BY DEF Kept, Elsewhere

\* A connection is a number other than None.
LEMMA ConnNotNone == None \notin Conn /\ \A i \in Conn : i # None
BY DEF Conn, None

\* The parts of a world.
LEMMA WorldParts ==
    ASSUME NEW w \in Worlds
    PROVE  /\ w = [p |-> w.p, c |-> w.c] /\ w.p \in SpeakerState /\ w.c \in [Conn -> ConnState]
           /\ \A p : [w EXCEPT !.p = p] = [p |-> p, c |-> w.c]
BY DEF Worlds

\* The fields of a speaker that the connections depend on.
LEMMA SpeakerFields ==
    ASSUME NEW p \in SpeakerState
    PROVE  /\ p.stream \in Conn \cup {None} /\ p.collision \in Conn \cup {None} /\ p.accept_queue \in Seq(Conn)
           /\ p.state \in State /\ p.route \in {"none", "old", "new"} /\ p.stale \in BOOLEAN /\ p.admin_up \in BOOLEAN
           /\ p.restarting \in BOOLEAN /\ p.originated \in BOOLEAN
BY DEF SpeakerState

\* Only the speaker itself changes, and keeps its connections.
LEMMA SelfOK ==
    ASSUME NEW w, NEW s, NEW X, Base(w, s, X), NEW q \in SpeakerState, Shape(q),
           q.stream = w.p.stream, q.collision = w.p.collision, q.accept_queue = w.p.accept_queue,
           NEW r, r = [p |-> q, c |-> w.c]
    PROVE  WorldOK(r, s, X) /\ Kept(w, r, s) /\ r.p = q /\ r.c = w.c
<1>1. r.p = q /\ r.c = w.c
  OBVIOUS
<1>2. r \in Worlds
  BY DEF Worlds, Base
<1>3. WorldOK(r, s, X)
  BY <1>1, <1>2 DEF WorldOK, Base, Served
<1>4. Kept(w, r, s)
  BY <1>1 DEF Kept, Elsewhere
<1> QED BY <1>1, <1>3, <1>4

\* A connection is aborted, or there was none.
LEMMA AbortInOK ==
    ASSUME NEW s \in Speaker, NEW c, Conns(c), NEW i \in Conn \cup {None}
    PROVE  LET d == AbortIn(c, s, i)
           IN  /\ Conns(d) /\ Elsewhere(c, d, s)
               /\ \A j \in Conn : Live(d[j], s) => Live(c[j], s) /\ j # i
<1> DEFINE d == AbortIn(c, s, i)
<1>1. CASE i = None
  <2>1. d = c
    BY <1>1 DEF AbortIn
  <2> QED BY <1>1, <2>1, ConnNotNone DEF Elsewhere
<1>2. CASE i # None
  <2> DEFINE k == Abort(c[i], s)
  <2>1. i \in Conn
    BY <1>2
  <2>2. ConnOK(c[i])
    BY <2>1 DEF Conns
  <2>3. ConnOK(k) /\ k.end[s] = "gone" /\ k.end[Peer(s)] = c[i].end[Peer(s)]
    BY <2>2, AbortOK
  <2>4. d = [c EXCEPT ![i] = k]
    BY <1>2 DEF AbortIn
  <2> HIDE DEF k, d
  <2>5. Conns(d) /\ d[i] = k /\ \A j \in Conn : j # i => d[j] = c[j]
    <3>1. c \in [Conn -> ConnState] /\ k \in ConnState
      BY <2>3 DEF Conns, ConnOK
    <3>2. d \in [Conn -> ConnState] /\ d[i] = k /\ \A j \in Conn : j # i => d[j] = c[j]
      BY <2>1, <2>4, <3>1
    <3> QED BY <2>3, <3>2 DEF Conns
  <2>6. Elsewhere(c, d, s)
    BY <2>3, <2>5 DEF Elsewhere
  <2>7. \A j \in Conn : Live(d[j], s) => Live(c[j], s) /\ j # i
    BY <2>3, <2>5 DEF Live
  <2> QED BY <2>5, <2>6, <2>7 DEF d
<1> QED BY <1>1, <1>2

\* Segments other than a SYN leave, several at once.
LEMMA ConcatOK ==
    ASSUME NEW s \in Speaker, NEW k, ConnOK(k), NEW ms \in Seq(Message)
    PROVE  LET r == [k EXCEPT !.wire[Peer(s)] = k.wire[Peer(s)] \o ms]
           IN  ConnOK(r) /\ r.end = k.end
<1> DEFINE t == Peer(s)
           new == k.wire[t] \o ms
           W == [k.wire EXCEPT ![t] = new]
           r == [k EXCEPT !.wire[t] = new]
<1>1. t \in Speaker /\ t # s /\ (\A u \in Speaker : u = s \/ u = t)
  BY PeerFacts
<1>2. k \in ConnState /\ SynFirst(k)
  BY DEF ConnOK
<1>3. k.wire \in [Speaker -> Seq(Segment)] /\ k.wire[t] \in Seq(Segment)
  BY <1>1, <1>2, ConnFields
<1>4. Message \subseteq Segment /\ "SYN" \notin Message
  BY DEF Message, Segment, Update
<1>5. ms \in Seq(Segment)
  BY <1>4, LenProperties, ElementOfSeq, IsASeq
<1>6. /\ new \in Seq(Segment) /\ Len(new) = Len(k.wire[t]) + Len(ms)
      /\ \A j \in 1 .. Len(k.wire[t]) + Len(ms) :
            new[j] = IF j <= Len(k.wire[t]) THEN k.wire[t][j] ELSE ms[j - Len(k.wire[t])]
  BY <1>3, <1>5, ConcatProperties
<1>7. Len(k.wire[t]) \in Nat /\ Len(ms) \in Nat /\ \A j \in 1 .. Len(ms) : ms[j] \in Message
  BY <1>3, LenProperties, ElementOfSeq
<1> HIDE DEF new
<1>8. r = [k EXCEPT !.wire = W]
  OBVIOUS
<1>9. W \in [Speaker -> Seq(Segment)] /\ W[s] = k.wire[s] /\ W[t] = new
  BY <1>1, <1>3, <1>6
<1> HIDE DEF W, t
<1>10. r \in ConnState /\ r.end = k.end /\ r.wire = W
  BY <1>2, <1>8, <1>9 DEF ConnState
<1> HIDE DEF r
<1>11. SynFirst(r)
  <2> SUFFICES ASSUME NEW u \in Speaker, NEW j \in 1 .. Len(W[u]), W[u][j] = "SYN"
               PROVE  j = 1 /\ k.end[u] \in {"none", "gone"}
    BY <1>10 DEF SynFirst
  <2>1. CASE u = s
    BY <1>2, <1>9, <2>1 DEF SynFirst
  <2>2. CASE u = t
    <3>1. j \in 1 .. Len(k.wire[t]) + Len(ms) /\ j \in Nat /\ new[j] = "SYN"
      BY <1>6, <1>7, <1>9, <2>2
    <3>2. CASE j <= Len(k.wire[t])
      <4>1. j \in 1 .. Len(k.wire[t]) /\ k.wire[t][j] = "SYN"
        BY <1>6, <1>7, <3>1, <3>2
      <4> QED BY <1>1, <1>2, <2>2, <4>1 DEF SynFirst
    <3>3. CASE ~(j <= Len(k.wire[t]))
      <4>1. j - Len(k.wire[t]) \in 1 .. Len(ms)
        BY <1>7, <3>1, <3>3
      <4>2. ms[j - Len(k.wire[t])] = "SYN"
        BY <1>6, <3>1, <3>3
      <4> QED BY <1>4, <1>7, <4>1, <4>2
    <3> QED BY <3>2, <3>3
  <2> QED BY <1>1, <2>1, <2>2
<1>12. ConnOK(r) /\ r.end = k.end
  BY <1>10, <1>11 DEF ConnOK
<1> QED BY <1>12 DEF r, t, new

\* What one connection of a world becomes.
LEMMA PutWorldOK ==
    ASSUME NEW w, NEW s \in Speaker, NEW X, Base(w, s, X), NEW i \in Conn, NEW k, ConnOK(k), k.end = w.c[i].end,
           NEW r, r = [w EXCEPT !.c[i] = k]
    PROVE  Base(r, s, X) /\ Kept(w, r, s) /\ r.p = w.p
<1> DEFINE d == [w.c EXCEPT ![i] = k]
<1>1. w \in Worlds /\ Conns(w.c) /\ Served(w.p, w.c, s, X)
  BY DEF Base
<1>2. r.p = w.p /\ r.c = d /\ r = [p |-> w.p, c |-> d]
  BY <1>1 DEF Worlds
<1>3. Conns(d) /\ d[i] = k /\ \A j \in Conn : j # i => d[j] = w.c[j]
  <2>1. w.c \in [Conn -> ConnState] /\ k \in ConnState
    BY <1>1 DEF Conns, ConnOK
  <2>2. d \in [Conn -> ConnState] /\ d[i] = k /\ \A j \in Conn : j # i => d[j] = w.c[j]
    BY <2>1
  <2> HIDE DEF d
  <2> QED BY <1>1, <2>2 DEF Conns
<1> HIDE DEF d
<1>4. \A j \in Conn : d[j].end = w.c[j].end
  BY <1>3
<1>5. r \in Worlds
  BY <1>1, <1>2, <1>3 DEF Worlds, Conns
<1>6. Served(r.p, r.c, s, X)
  BY <1>1, <1>2, <1>4 DEF Served, Live
<1>7. Elsewhere(w.c, r.c, s)
  BY <1>2, <1>4 DEF Elsewhere
<1> QED BY <1>2, <1>3, <1>5, <1>6, <1>7 DEF Base, Kept

\* send_pdu.
LEMMA SendPduOK ==
    ASSUME NEW w, NEW s \in Speaker, NEW X, Base(w, s, X), NEW m \in Message
    PROVE  LET r == SendPdu(w, s, m) IN Base(r, s, X) /\ Kept(w, r, s) /\ r.p = w.p
<1> DEFINE r == SendPdu(w, s, m)
           i == w.p.stream
           k == Send(w.c[i], s, m)
<1>1. w \in Worlds /\ Conns(w.c) /\ w.p \in SpeakerState
  BY DEF Base, Worlds
<1>2. CASE ~Writable(w, s)
  <2>1. r = w
    BY <1>2 DEF SendPdu
  <2> QED BY <2>1 DEF Kept, Elsewhere
<1>3. CASE Writable(w, s)
  <2>1. i \in Conn
    BY <1>1, <1>3, SpeakerFields DEF Writable
  <2>2. ConnOK(w.c[i])
    BY <1>1, <2>1 DEF Conns
  <2>3. m \in Segment /\ m # "SYN"
    BY DEF Message, Segment, Update
  <2>4. ConnOK(k) /\ k.end = w.c[i].end
    BY <2>2, <2>3, SendOK
  <2>5. r = [w EXCEPT !.c[i] = k]
    BY <1>3 DEF SendPdu
  <2> HIDE DEF k, r, i
  <2>6. Base(r, s, X) /\ Kept(w, r, s) /\ r.p = w.p
    BY <2>1, <2>4, <2>5, PutWorldOK
  <2> QED BY <2>6 DEF r
<1> QED BY <1>2, <1>3

\* Several PDUs.
LEMMA SendPdusOK ==
    ASSUME NEW w, NEW s \in Speaker, NEW X, Base(w, s, X), NEW ms \in Seq(Message)
    PROVE  LET r == SendPdus(w, s, ms) IN Base(r, s, X) /\ Kept(w, r, s) /\ r.p = w.p
<1> DEFINE r == SendPdus(w, s, ms)
           i == w.p.stream
           k == [w.c[i] EXCEPT !.wire[Peer(s)] = w.c[i].wire[Peer(s)] \o ms]
<1>1. w \in Worlds /\ Conns(w.c) /\ w.p \in SpeakerState /\ w.c \in [Conn -> ConnState]
  BY DEF Base, Worlds
<1>2. CASE ~Writable(w, s)
  <2>1. r = w
    BY <1>2 DEF SendPdus
  <2> QED BY <2>1 DEF Kept, Elsewhere
<1>3. CASE Writable(w, s)
  <2>1. i \in Conn
    BY <1>1, <1>3, SpeakerFields DEF Writable
  <2>2. ConnOK(w.c[i])
    BY <1>1, <2>1 DEF Conns
  <2>3. ConnOK(k) /\ k.end = w.c[i].end
    BY <2>2, ConcatOK
  <2>4. r = [w EXCEPT !.c[i] = k]
    BY <1>3, Zenon DEF SendPdus
  <2> HIDE DEF k, r, i
  <2>5. Base(r, s, X) /\ Kept(w, r, s) /\ r.p = w.p
    BY <2>1, <2>3, <2>4, PutWorldOK
  <2> QED BY <2>5 DEF r
<1> QED BY <1>2, <1>3

Reason == {"transport", "notified", "CEASE", "HOLD_EXPIRED", "FSM_ERROR"}

\* The NOTIFICATION before a teardown.
LEMMA NotifyOK ==
    ASSUME NEW w, NEW s \in Speaker, NEW X, Base(w, s, X), NEW why \in Reason
    PROVE  LET r == Notify(w, s, why) IN Base(r, s, X) /\ Kept(w, r, s) /\ r.p = w.p
<1>1. CASE why \in {"CEASE", "HOLD_EXPIRED", "FSM_ERROR"}
  <2>1. why \in Message
    BY <1>1 DEF Message
  <2>2. Notify(w, s, why) = SendPdu(w, s, why)
    BY <1>1 DEF Notify
  <2> QED BY <2>1, <2>2, SendPduOK
<1>2. CASE why \notin {"CEASE", "HOLD_EXPIRED", "FSM_ERROR"}
  <2>1. Notify(w, s, why) = w
    BY <1>2 DEF Notify
  <2> QED BY <2>1 DEF Kept, Elsewhere
<1> QED BY <1>1, <1>2

\* teardown: both connections go, and what is retained is the route of a neighbour
\* that is not shut down.
LEMMA TeardownOK ==
    ASSUME NEW w, NEW s \in Speaker, NEW X, Base(w, s, X), NEW why \in Reason,
           w.p.admin_up \/ ~Retains(w.p, why)
    PROVE  LET r == Teardown(w, s, why)
           IN  WorldOK(r, s, X) /\ Kept(w, r, s) /\ r.p.stream = None /\ r.p.admin_up = w.p.admin_up
<1> DEFINE p == w.p
           n == Notify(w, s, why)
           d == AbortIn(n.c, s, p.stream)
           e == AbortIn(d, s, p.collision)
           retain == Retains(p, why)
           route == IF ~retain THEN "none" ELSE IF p.stale \/ p.route = "none" THEN p.route ELSE "old"
           q == [Cleared(p) EXCEPT !.route = route, !.stale = retain]
           r == Teardown(w, s, why)
<1>1. r = [c |-> e, p |-> q]
  BY Zenon DEF Teardown
<1>2. p \in SpeakerState
  BY DEF Base, Worlds
<1>3. Base(n, s, X) /\ Kept(w, n, s) /\ n.p = p
  BY NotifyOK
<1>4. p.stream \in Conn \cup {None} /\ p.collision \in Conn \cup {None} /\ p.route \in {"none", "old", "new"}
  BY <1>2, SpeakerFields
<1>5. route \in {"none", "old", "new"} /\ retain \in BOOLEAN /\ (~retain => route = "none")
  BY <1>4 DEF Retains
<1> HIDE DEF n, route, retain
<1>6. /\ q \in SpeakerState /\ q.stream = None /\ q.collision = None /\ q.state = "Idle" /\ q.route = route
      /\ q.stale = retain /\ q.admin_up = p.admin_up /\ q.accept_queue = p.accept_queue
  <2> DEFINE h == Cleared(p)
  <2>0. "Idle" \in State /\ None \in Conn \cup {None}
    BY DEF State
  <2>1. /\ h \in SpeakerState /\ h.stream = None /\ h.collision = None /\ h.state = "Idle"
        /\ h.admin_up = p.admin_up /\ h.accept_queue = p.accept_queue
    <3> HIDE DEF p
    <3> QED BY <1>2, <2>0 DEF Cleared, SpeakerState
  <2>2. q = [h EXCEPT !.route = route, !.stale = retain]
    OBVIOUS
  <2> HIDE DEF h, p, q
  <2> QED BY <1>5, <2>1, <2>2 DEF SpeakerState
<1>7. Conns(n.c) /\ Served(p, n.c, s, X)
  BY <1>3 DEF Base
<1>8. Conns(d) /\ Elsewhere(n.c, d, s) /\ \A j \in Conn : Live(d[j], s) => Live(n.c[j], s) /\ j # p.stream
  BY <1>4, <1>7, AbortInOK
<1> HIDE DEF d
<1>9. Conns(e) /\ Elsewhere(d, e, s) /\ \A j \in Conn : Live(e[j], s) => Live(d[j], s) /\ j # p.collision
  BY <1>4, <1>8, AbortInOK
<1> HIDE DEF e
<1>10. \A j \in Conn : Live(e[j], s) => j \in X
  BY <1>7, <1>8, <1>9 DEF Served
<1> HIDE DEF q
<1>11. r.p = q /\ r.c = e /\ r \in Worlds
  BY <1>1, <1>6, <1>9 DEF Worlds, Conns
<1> HIDE DEF r
<1>12. Base(r, s, X)
  BY <1>9, <1>10, <1>11 DEF Base, Served
<1>13. Kept(w, r, s)
  BY <1>3, <1>6, <1>8, <1>9, <1>11 DEF Kept, Elsewhere
<1>14. Shape(r.p)
  <2>1. ~q.admin_up => ~retain
    BY <1>6 DEF retain
  <2> QED BY <1>5, <1>6, <1>11, <2>1 DEF Shape
<1> QED BY <1>6, <1>11, <1>12, <1>13, <1>14 DEF WorldOK, r

\* teardown from a world in shape.
LEMMA TeardownKeeps ==
    ASSUME NEW w, NEW s \in Speaker, NEW X, WorldOK(w, s, X), NEW why \in Reason
    PROVE  LET r == Teardown(w, s, why) IN WorldOK(r, s, X) /\ Kept(w, r, s) /\ r.p.stream = None
<1>1. Base(w, s, X) /\ Shape(w.p)
  BY DEF WorldOK
<1>2. w.p.admin_up \/ ~Retains(w.p, why)
  BY <1>1 DEF Shape, Retains
<1> QED BY <1>1, <1>2, TeardownOK

-----------------------------------------------------------------------------
(* accept_inbound and the collision.                                       *)

\* What a speaker becomes when it takes, gives up or changes its connection.
LEMMA AcceptOneOK ==
    ASSUME NEW w, NEW s \in Speaker, NEW X, NEW Y, NEW i \in Conn, WorldOK(w, s, X),
           \A x \in X : x \in Y \/ x = i
    PROVE  LET r == AcceptOne(w, s, i)
           IN  /\ WorldOK(r, s, Y) /\ Kept(w, r, s) /\ r.p.admin_up = w.p.admin_up
               /\ w.p.admin_up => r.p.stream # None
<1> DEFINE p == w.p
           r == AcceptOne(w, s, i)
<1>1. w \in Worlds /\ Conns(w.c) /\ Served(p, w.c, s, X) /\ Shape(p) /\ p \in SpeakerState
  BY DEF WorldOK, Base, Worlds
<1>2. i # None
  BY ConnNotNone
<1>3. CASE p.admin_up /\ p.stream = None /\ p.state \in {"Idle", "Active"}
  <2> DEFINE q == [p EXCEPT !.stream = i, !.stream_inbound = TRUE, !.state = "Active", !.retry = TRUE]
  <2>1. r = [w EXCEPT !.p.stream = i, !.p.stream_inbound = TRUE, !.p.state = "Active", !.p.retry = TRUE]
    BY <1>3 DEF AcceptOne
  <2>2. r.p = q /\ r.c = w.c /\ r = [p |-> q, c |-> w.c]
    BY <1>1, <2>1 DEF Worlds
  <2>3. /\ q \in SpeakerState /\ q.stream = i /\ q.collision = p.collision /\ q.accept_queue = p.accept_queue
        /\ q.state = "Active" /\ q.admin_up = p.admin_up
    <3> HIDE DEF p
    <3> QED BY <1>1 DEF SpeakerState, State
  <2> HIDE DEF q, r, p
  <2>4. Shape(q)
    BY <1>2, <1>3, <2>3 DEF Shape
  <2>5. Served(q, w.c, s, Y)
    BY <1>1, <1>3, <2>3, ConnNotNone DEF Served
  <2>6. r \in Worlds
    BY <1>1, <2>2, <2>3 DEF Worlds
  <2>7. WorldOK(r, s, Y)
    BY <1>1, <2>2, <2>4, <2>5, <2>6 DEF WorldOK, Base
  <2>8. Kept(w, r, s)
    BY <2>2, <2>3 DEF Kept, Elsewhere, p
  <2> QED BY <1>2, <2>2, <2>3, <2>7, <2>8 DEF r, p
<1>4. CASE p.admin_up /\ p.stream # None /\ p.collision = None /\ p.state # "Established"
  <2> DEFINE q == [p EXCEPT !.collision = i]
  <2>1. r = [w EXCEPT !.p.collision = i]
    BY <1>4 DEF AcceptOne
  <2>2. r.p = q /\ r.c = w.c /\ r = [p |-> q, c |-> w.c]
    BY <1>1, <2>1 DEF Worlds
  <2>3. /\ q \in SpeakerState /\ q.stream = p.stream /\ q.collision = i /\ q.accept_queue = p.accept_queue
        /\ q.state = p.state /\ q.admin_up = p.admin_up
    <3> HIDE DEF p
    <3> QED BY <1>1 DEF SpeakerState, State
  <2> HIDE DEF q, r, p
  <2>4. Shape(q)
    BY <1>1, <1>4, <2>3 DEF Shape
  <2>5. Served(q, w.c, s, Y)
    BY <1>1, <1>4, <2>3, ConnNotNone DEF Served
  <2>6. r \in Worlds
    BY <1>1, <2>2, <2>3 DEF Worlds
  <2>7. WorldOK(r, s, Y)
    BY <1>1, <2>2, <2>4, <2>5, <2>6 DEF WorldOK, Base
  <2>8. Kept(w, r, s)
    BY <2>2, <2>3 DEF Kept, Elsewhere, p
  <2> QED BY <1>4, <2>2, <2>3, <2>7, <2>8 DEF r, p
<1>5. CASE /\ ~(p.admin_up /\ p.stream = None /\ p.state \in {"Idle", "Active"})
           /\ ~(p.admin_up /\ p.stream # None /\ p.collision = None /\ p.state # "Established")
  <2> DEFINE k == Abort(w.c[i], s)
             d == [w.c EXCEPT ![i] = k]
  <2>1. r = [w EXCEPT !.c[i] = k]
    BY <1>5, Zenon DEF AcceptOne
  <2>2. r.p = p /\ r.c = d /\ r = [p |-> p, c |-> d]
    BY <1>1, <2>1 DEF Worlds
  <2>3. d = AbortIn(w.c, s, i)
    BY <1>2 DEF AbortIn
  <2> HIDE DEF d, k, r
  <2>4. Conns(d) /\ Elsewhere(w.c, d, s) /\ \A j \in Conn : Live(d[j], s) => Live(w.c[j], s) /\ j # i
    BY <1>1, <2>3, AbortInOK
  <2> HIDE DEF p
  <2>5. Served(p, d, s, Y)
    BY <1>1, <2>4 DEF Served
  <2>6. r \in Worlds
    BY <1>1, <2>2, <2>4 DEF Worlds, Conns
  <2>7. WorldOK(r, s, Y)
    BY <1>1, <2>2, <2>4, <2>5, <2>6 DEF WorldOK, Base
  <2>8. Kept(w, r, s)
    BY <2>2, <2>4 DEF Kept, p
  <2>9. p.admin_up => p.stream # None
    BY <1>1, <1>5 DEF Shape
  <2> QED BY <2>2, <2>7, <2>8, <2>9 DEF r, p
<1> QED BY <1>3, <1>4, <1>5

\* The inbound candidate of a collision goes and the connection in use stays.
LEMMA CandidateDropped ==
    ASSUME NEW w, NEW s \in Speaker, NEW X, WorldOK(w, s, X), w.p.collision # None, w.p.admin_up
    PROVE  LET v == [c |-> AbortIn(w.c, s, w.p.collision), p |-> [w.p EXCEPT !.collision = None]]
           IN  WorldOK(v, s, X) /\ Kept(w, v, s) /\ v.p.admin_up /\ v.p.stream # None
<1> DEFINE p == w.p
           i == p.collision
           q == [p EXCEPT !.collision = None]
           d == AbortIn(w.c, s, i)
           v == [c |-> d, p |-> q]
<1>1. w \in Worlds /\ Conns(w.c) /\ Served(p, w.c, s, X) /\ Shape(p) /\ p \in SpeakerState
  BY DEF WorldOK, Base, Worlds
<1>2. p.stream \in Conn /\ i \in Conn /\ p.stream # None
  BY <1>1, SpeakerFields DEF Shape
<1>3. /\ q \in SpeakerState /\ q.stream = p.stream /\ q.collision = None /\ q.accept_queue = p.accept_queue
      /\ q.state = p.state /\ q.admin_up = p.admin_up
  <2> HIDE DEF p
  <2> QED BY <1>1, <1>2 DEF SpeakerState, State
<1>4. Conns(d) /\ Elsewhere(w.c, d, s) /\ \A j \in Conn : Live(d[j], s) => Live(w.c[j], s) /\ j # i
  BY <1>1, <1>2, AbortInOK
<1> HIDE DEF q, d
<1>5. v.p = q /\ v.c = d /\ v \in Worlds
  BY <1>3, <1>4 DEF Worlds, Conns
<1> HIDE DEF v
<1>6. Served(q, d, s, X)
  BY <1>1, <1>3, <1>4 DEF Served
<1>7. Shape(q)
  BY <1>1, <1>2, <1>3 DEF Shape
<1>8. WorldOK(v, s, X)
  BY <1>4, <1>5, <1>6, <1>7 DEF WorldOK, Base
<1>9. Kept(w, v, s)
  BY <1>3, <1>4, <1>5 DEF Kept
<1> QED BY <1>2, <1>3, <1>5, <1>8, <1>9 DEF v, q, d

\* resolve_collision: one of the two connections goes.
LEMMA ResolveCollisionOK ==
    ASSUME NEW w, NEW s \in Speaker, NEW X, WorldOK(w, s, X), w.p.collision # None, w.p.admin_up
    PROVE  LET r == ResolveCollision(w, s)
           IN  WorldOK(r, s, X) /\ Kept(w, r, s) /\ r.p.admin_up /\ r.p.stream # None
<1> DEFINE p == w.p
           i == p.collision
           r == ResolveCollision(w, s)
<1>1. w \in Worlds /\ Conns(w.c) /\ Served(p, w.c, s, X) /\ Shape(p) /\ p \in SpeakerState
  BY DEF WorldOK, Base, Worlds
<1>2. p.stream \in Conn /\ i \in Conn /\ p.stream # None
  BY <1>1, SpeakerFields DEF Shape
<1>3. CASE KeepInbound(p, s)
  <2> DEFINE q == [p EXCEPT !.collision = None, !.stream = i, !.stream_inbound = TRUE,
                            !.state = "Active", !.retry = TRUE]
             d == AbortIn(w.c, s, p.stream)
  <2>1. r = [c |-> d, p |-> q]
    BY <1>3, Zenon DEF ResolveCollision
  <2>2. /\ q \in SpeakerState /\ q.stream = i /\ q.collision = None /\ q.accept_queue = p.accept_queue
        /\ q.state = "Active" /\ q.admin_up = p.admin_up
    <3> HIDE DEF p
    <3> QED BY <1>1, <1>2 DEF SpeakerState, State
  <2>3. Conns(d) /\ Elsewhere(w.c, d, s) /\ \A j \in Conn : Live(d[j], s) => Live(w.c[j], s) /\ j # p.stream
    BY <1>1, <1>2, AbortInOK
  <2> HIDE DEF q, d
  <2>4. r.p = q /\ r.c = d /\ r \in Worlds
    BY <2>1, <2>2, <2>3 DEF Worlds, Conns
  <2> HIDE DEF r
  <2>5. Served(q, d, s, X)
    BY <1>1, <2>2, <2>3 DEF Served
  <2>6. Shape(q)
    BY <1>2, <2>2 DEF Shape
  <2>7. WorldOK(r, s, X)
    BY <2>3, <2>4, <2>5, <2>6 DEF WorldOK, Base
  <2>8. Kept(w, r, s)
    BY <2>2, <2>3, <2>4 DEF Kept
  <2> QED BY <2>2, <2>4, <2>7, <2>8 DEF r
<1>4. CASE ~KeepInbound(p, s)
  <2> DEFINE v == [c |-> AbortIn(w.c, s, i), p |-> [p EXCEPT !.collision = None]]
  <2>1. r = v
    BY <1>4, Zenon DEF ResolveCollision
  <2>2. WorldOK(v, s, X) /\ Kept(w, v, s) /\ v.p.admin_up /\ v.p.stream # None
    BY CandidateDropped
  <2> HIDE DEF r, v
  <2>3. WorldOK(r, s, X) /\ Kept(w, r, s) /\ r.p.admin_up /\ r.p.stream # None
    BY <2>1, <2>2
  <2> QED BY <2>3 DEF r
<1> QED BY <1>3, <1>4

\* service_collision; a speaker without a connection has no collision either.
LEMMA ServiceCollisionOK ==
    ASSUME NEW w, NEW s \in Speaker, NEW X, WorldOK(w, s, X), w.p.admin_up
    PROVE  LET r == ServiceCollision(w, s)
           IN  WorldOK(r, s, X) /\ Kept(w, r, s) /\ r.p.admin_up /\ (r.p.stream = None => r = w)
<1> DEFINE p == w.p
           i == p.collision
           opens == Head(w.c[i].received[s]) \in {"OPEN", "OPEN_RESTARTING"}
           r == ServiceCollision(w, s)
<1>1. w \in Worlds /\ Conns(w.c) /\ Served(p, w.c, s, X) /\ Shape(p) /\ p \in SpeakerState /\ Base(w, s, X)
  BY DEF WorldOK, Base, Worlds
<1>2. Kept(w, w, s)
  BY DEF Kept, Elsewhere
<1>3. CASE i = None \/ (i # None /\ Live(w.c[i], s) /\ w.c[i].received[s] = <<>>)
  <2>1. r = w
    BY <1>3 DEF ServiceCollision
  <2> QED BY <1>2, <2>1
<1>4. CASE i # None /\ ~Live(w.c[i], s)
  <2> DEFINE q == [p EXCEPT !.collision = None]
  <2>1. r = [w EXCEPT !.p.collision = None]
    BY <1>4 DEF ServiceCollision
  <2>2. r.p = q /\ r.c = w.c /\ r = [p |-> q, c |-> w.c]
    BY <1>1, <2>1 DEF Worlds
  <2>3. /\ q \in SpeakerState /\ q.stream = p.stream /\ q.collision = None /\ q.accept_queue = p.accept_queue
        /\ q.state = p.state /\ q.admin_up = p.admin_up
    <3> HIDE DEF p
    <3> QED BY <1>1 DEF SpeakerState
  <2> HIDE DEF q, r
  <2>4. p.stream # None
    BY <1>1, <1>4 DEF Shape
  <2>5. Shape(q)
    BY <1>1, <2>3, <2>4 DEF Shape
  <2>6. Served(q, w.c, s, X)
    BY <1>1, <1>4, <2>3 DEF Served
  <2>7. r \in Worlds
    BY <1>1, <2>2, <2>3 DEF Worlds
  <2>8. WorldOK(r, s, X)
    BY <1>1, <2>2, <2>5, <2>6, <2>7 DEF WorldOK, Base
  <2>9. Kept(w, r, s)
    BY <2>2, <2>3 DEF Kept, Elsewhere
  <2> QED BY <2>2, <2>3, <2>4, <2>8, <2>9 DEF r
<1>5. CASE i # None /\ Live(w.c[i], s) /\ w.c[i].received[s] # <<>> /\ opens
  <2>1. r = ResolveCollision(w, s)
    BY <1>5 DEF ServiceCollision
  <2> QED BY <1>5, <2>1, ResolveCollisionOK
<1>6. CASE i # None /\ Live(w.c[i], s) /\ w.c[i].received[s] # <<>> /\ ~opens
  <2> DEFINE v == [c |-> AbortIn(w.c, s, i), p |-> [p EXCEPT !.collision = None]]
  <2>1. r = v
    BY <1>6 DEF ServiceCollision
  <2>2. WorldOK(v, s, X) /\ Kept(w, v, s) /\ v.p.admin_up /\ v.p.stream # None
    BY <1>6, CandidateDropped
  <2> HIDE DEF r, v
  <2>3. WorldOK(r, s, X) /\ Kept(w, r, s) /\ r.p.admin_up /\ r.p.stream # None
    BY <2>1, <2>2
  <2> QED BY <2>3 DEF r
<1> QED BY <1>3, <1>4, <1>5, <1>6

-----------------------------------------------------------------------------
(* The peer's state machine.                                               *)

\* Every nonempty set of naturals has a least element.
LEMMA LeastNat ==
    ASSUME NEW T \in SUBSET Nat, T # {}
    PROVE  \E x \in T : \A y \in T : x <= y
<1> DEFINE R == OpToRel(<, Nat)
<1>1. IsWellFoundedOn(R, Nat)
  BY NatLessThanWellFounded
<1>2. \E x \in T : \A y \in T : ~(<<y, x>> \in R)
  <2> HIDE DEF R
  <2> QED BY <1>1, WFMin
<1>3. \A x, y \in Nat : ~(<<y, x>> \in R) => x <= y
  BY DEF R, OpToRel
<1> QED BY <1>2, <1>3

\* dial, when there is a connection to dial with.
LEMMA DialOpens ==
    ASSUME NEW w, NEW s \in Speaker, NEW X, WorldOK(w, s, X), w.p.admin_up, w.p.stream = None, FreeConns(w.c) # {}
    PROVE  LET r == Dial(w, s) IN WorldOK(r, s, X) /\ Kept(w, r, s)
<1> DEFINE p == w.p
           i == CHOOSE j \in FreeConns(w.c) : \A k \in FreeConns(w.c) : j <= k
           q == [p EXCEPT !.stream = i, !.stream_inbound = FALSE, !.state = "Connect", !.retry = TRUE]
           o == Opened(s)
           d == [w.c EXCEPT ![i] = o]
           r == Dial(w, s)
<1>1. w \in Worlds /\ Conns(w.c) /\ Served(p, w.c, s, X) /\ Shape(p) /\ p \in SpeakerState
  BY DEF WorldOK, Base, Worlds
<1>2. i \in Conn /\ w.c[i] = NoConn
  <2> DEFINE F == FreeConns(w.c)
  <2>1. F \in SUBSET Nat /\ F \subseteq Conn /\ \A j \in F : w.c[j] = NoConn
    BY SpeakerAssumption DEF FreeConns, Conn
  <2>2. \E j \in F : \A k \in F : j <= k
    <3> HIDE DEF F
    <3>1. F # {}
      BY DEF F
    <3> QED BY <2>1, <3>1, LeastNat
  <2>3. i \in F
    <3>1. i = CHOOSE j \in F : \A k \in F : j <= k
      OBVIOUS
    <3> HIDE DEF F, i
    <3> QED BY <2>2, <3>1
  <2> HIDE DEF F, i
  <2> QED BY <2>1, <2>3
<1>3. r = [c |-> d, p |-> q]
  BY Zenon DEF Dial
<1> HIDE DEF i
<1>4. /\ q \in SpeakerState /\ q.stream = i /\ q.collision = p.collision /\ q.accept_queue = p.accept_queue
      /\ q.state = "Connect" /\ q.admin_up = p.admin_up
  <2> HIDE DEF p
  <2> QED BY <1>1, <1>2 DEF SpeakerState, State
<1>5. ConnOK(o) /\ o.end[Peer(s)] = "none"
  BY OpenedOK
<1>6. NoConn.end[Peer(s)] = "none"
  BY NoConnOK, PeerFacts
<1> HIDE DEF o
<1>7. d \in [Conn -> ConnState] /\ d[i] = o /\ \A j \in Conn : j # i => d[j] = w.c[j]
  BY <1>1, <1>2, <1>5 DEF Conns, ConnOK
<1> HIDE DEF d, q
<1>8. Conns(d) /\ Elsewhere(w.c, d, s)
  BY <1>1, <1>2, <1>5, <1>6, <1>7 DEF Conns, Elsewhere
<1>9. r.p = q /\ r.c = d /\ r \in Worlds
  BY <1>3, <1>4, <1>7 DEF Worlds
<1> HIDE DEF r
<1>10. Served(q, d, s, X)
  BY <1>1, <1>4, <1>7, ConnNotNone DEF Served
<1>11. Shape(q)
  BY <1>2, <1>4, ConnNotNone DEF Shape
<1>12. WorldOK(r, s, X)
  BY <1>8, <1>9, <1>10, <1>11 DEF WorldOK, Base
<1>13. Kept(w, r, s)
  BY <1>4, <1>8, <1>9 DEF Kept
<1> QED BY <1>12, <1>13 DEF r

\* A speaker without a connection goes to Active and arms its retry timer.
Waits(w) == [w EXCEPT !.p.state = "Active", !.p.retry = TRUE]

LEMMA WaitsActive ==
    ASSUME NEW w, NEW s \in Speaker, NEW X, WorldOK(w, s, X), w.p.admin_up, w.p.stream = None
    PROVE  WorldOK(Waits(w), s, X) /\ Kept(w, Waits(w), s)
<1> DEFINE p == w.p
           q == [p EXCEPT !.state = "Active", !.retry = TRUE]
           r == Waits(w)
<1>1. w \in Worlds /\ Shape(p) /\ p \in SpeakerState /\ Base(w, s, X)
  BY DEF WorldOK, Base, Worlds
<1>2. r = [p |-> q, c |-> w.c]
  <2>1. r = [w EXCEPT !.p.state = "Active", !.p.retry = TRUE]
    BY DEF Waits
  <2> HIDE DEF r
  <2> QED BY <1>1, <2>1 DEF Worlds
<1>3. /\ q \in SpeakerState /\ q.stream = p.stream /\ q.collision = p.collision /\ q.accept_queue = p.accept_queue
      /\ q.state = "Active" /\ q.admin_up = p.admin_up
  <2> HIDE DEF p
  <2> QED BY <1>1 DEF SpeakerState, State
<1> HIDE DEF q, r
<1>4. Shape(q)
  BY <1>1, <1>3 DEF Shape
<1>5. WorldOK(r, s, X) /\ Kept(w, r, s)
  BY <1>1, <1>2, <1>3, <1>4, SelfOK
<1> QED BY <1>5 DEF r

\* dial.
LEMMA DialOK ==
    ASSUME NEW w, NEW s \in Speaker, NEW X, WorldOK(w, s, X), w.p.admin_up, w.p.stream = None
    PROVE  LET r == Dial(w, s) IN WorldOK(r, s, X) /\ Kept(w, r, s)
<1>1. CASE FreeConns(w.c) # {}
  BY <1>1, DialOpens
<1>2. CASE FreeConns(w.c) = {}
  <2>1. Dial(w, s) = Waits(w)
    BY <1>2 DEF Dial, Waits
  <2> QED BY <2>1, WaitsActive
<1> QED BY <1>1, <1>2

\* start_peer.
LEMMA StartPeerOK ==
    ASSUME NEW w, NEW s \in Speaker, NEW X, NEW due, WorldOK(w, s, X), w.p.admin_up, w.p.state = "Idle"
    PROVE  LET r == StartPeer(w, s, due) IN WorldOK(r, s, X) /\ Kept(w, r, s)
<1> DEFINE p == w.p
           r == StartPeer(w, s, due)
<1>1. w \in Worlds /\ Shape(p) /\ p \in SpeakerState /\ Base(w, s, X)
  BY DEF WorldOK, Base, Worlds
<1>2. p.stream = None
  BY <1>1 DEF Shape
<1>3. CASE p.retry /\ "retry" \notin due
  <2>1. r = w
    BY <1>3 DEF StartPeer
  <2> QED BY <2>1 DEF Kept, Elsewhere
<1>4. CASE (~p.retry \/ "retry" \in due) /\ p.mode = "Active"
  <2>1. r = Dial(w, s)
    BY <1>4 DEF StartPeer
  <2> QED BY <1>2, <2>1, DialOK
<1>5. CASE ~(p.retry /\ "retry" \notin due) /\ ~((~p.retry \/ "retry" \in due) /\ p.mode = "Active")
  <2>1. r = Waits(w)
    BY <1>5 DEF StartPeer, Waits
  <2> QED BY <1>2, <2>1, WaitsActive
<1> QED BY <1>3, <1>4, <1>5

\* send_open.
LEMMA SendOpenOK ==
    ASSUME NEW w, NEW s \in Speaker, NEW X, WorldOK(w, s, X), w.p.admin_up, w.p.stream # None
    PROVE  LET r == SendOpen(w, s) IN WorldOK(r, s, X) /\ Kept(w, r, s)
<1> DEFINE open == IF w.p.restarting THEN "OPEN_RESTARTING" ELSE "OPEN"
           v == SendPdu(w, s, open)
           p == v.p
           q == [p EXCEPT !.state = "OpenSent", !.retry = FALSE]
           r == SendOpen(w, s)
<1>1. Base(w, s, X)
  BY DEF WorldOK
<1>2. open \in Message
  BY DEF Message
<1>3. r = [v EXCEPT !.p.state = "OpenSent", !.p.retry = FALSE]
  BY DEF SendOpen
<1> HIDE DEF open
<1>4. Base(v, s, X) /\ Kept(w, v, s) /\ v.p = w.p
  BY <1>1, <1>2, SendPduOK
<1> HIDE DEF v
<1>5. v \in Worlds /\ p \in SpeakerState
  BY <1>4 DEF Base, Worlds
<1>6. r = [p |-> q, c |-> v.c]
  BY <1>3, <1>5 DEF Worlds
<1>7. /\ q \in SpeakerState /\ q.stream = p.stream /\ q.collision = p.collision /\ q.accept_queue = p.accept_queue
      /\ q.state = "OpenSent" /\ q.admin_up = p.admin_up
  <2> HIDE DEF p
  <2> QED BY <1>5 DEF SpeakerState, State, Session
<1> HIDE DEF q, r
<1>8. Shape(q)
  BY <1>4, <1>7 DEF Shape
<1>9. WorldOK(r, s, X) /\ Kept(v, r, s)
  BY <1>4, <1>6, <1>7, <1>8, SelfOK
<1>10. Kept(w, r, s)
  BY <1>4, <1>9, KeptTrans
<1> QED BY <1>9, <1>10 DEF r

\* progress_transport.
LEMMA ProgressTransportOK ==
    ASSUME NEW w, NEW s \in Speaker, NEW X, NEW due, WorldOK(w, s, X), w.p.admin_up
    PROVE  LET r == ProgressTransport(w, s, due) IN WorldOK(r, s, X) /\ Kept(w, r, s)
<1> DEFINE i == w.p.stream
           r == ProgressTransport(w, s, due)
<1>1. CASE i = None /\ w.p.mode = "Active" /\ (~w.p.retry \/ "retry" \in due)
  <2>1. r = Dial(w, s)
    BY <1>1 DEF ProgressTransport
  <2> QED BY <1>1, <2>1, DialOK
<1>2. CASE i # None /\ w.c[i].end[s] = "up"
  <2>1. r = SendOpen(w, s)
    BY <1>2 DEF ProgressTransport
  <2> QED BY <1>2, <2>1, SendOpenOK
<1>3. CASE i # None /\ w.c[i].end[s] # "up" /\ w.p.retry /\ "retry" \in due
  <2>1. r = Teardown(w, s, "transport")
    BY <1>3 DEF ProgressTransport
  <2>2. "transport" \in Reason
    BY DEF Reason
  <2> QED BY <2>1, <2>2, TeardownKeeps
<1>4. CASE /\ ~(i = None /\ w.p.mode = "Active" /\ (~w.p.retry \/ "retry" \in due))
           /\ ~(i # None /\ w.c[i].end[s] = "up")
           /\ ~(i # None /\ w.c[i].end[s] # "up" /\ w.p.retry /\ "retry" \in due)
  <2>1. r = w
    BY <1>4 DEF ProgressTransport
  <2> QED BY <2>1 DEF Kept, Elsewhere
<1> QED BY <1>1, <1>2, <1>3, <1>4

\* A speaker that differs only in what it knows of routes, refreshes and restarts.
SameSession(p, q) ==
    /\ q \in SpeakerState /\ q.stream = p.stream /\ q.collision = p.collision
    /\ q.accept_queue = p.accept_queue /\ q.state = p.state /\ q.admin_up = p.admin_up

\* purge_graceful_restart_stale_family: a route goes or stays.
LEMMA FlushedOK ==
    ASSUME NEW p \in SpeakerState
    PROVE  LET q == Flushed(p)
           IN  SameSession(p, q) /\ (p.route = "none" => q.route = "none") /\ q.stale = FALSE
<1> DEFINE rt == Purged(p.route)
           q == Flushed(p)
<1>1. p.route \in {"none", "old", "new"}
  BY SpeakerFields
<1>2. rt \in {"none", "old", "new"} /\ (p.route = "none" => rt = "none")
  BY <1>1 DEF Purged
<1>3. q = [p EXCEPT !.route = rt, !.stale = FALSE]
  BY DEF Flushed
<1> HIDE DEF rt, q
<1>4. /\ q \in SpeakerState /\ q.stream = p.stream /\ q.collision = p.collision
      /\ q.accept_queue = p.accept_queue /\ q.state = p.state /\ q.admin_up = p.admin_up
      /\ q.route = rt /\ q.stale = FALSE
  BY <1>2, <1>3 DEF SpeakerState
<1> QED BY <1>2, <1>4 DEF SameSession, q

\* import_update.
LEMMA ImportOK ==
    ASSUME NEW p \in SpeakerState, NEW m
    PROVE  SameSession(p, Import(p, m))
<1> DEFINE q == Import(p, m)
<1>0. SameSession(p, p)
  BY DEF SameSession
<1>1. CASE m = "ANNOUNCE"
  <2>1. q = [p EXCEPT !.route = "new", !.refresh_stale = FALSE]
    BY <1>1 DEF Import
  <2> HIDE DEF q
  <2>2. SameSession(p, q)
    BY <2>1 DEF SameSession, SpeakerState
  <2> QED BY <2>2 DEF q
<1>2. CASE m = "WITHDRAW"
  <2>1. q = [p EXCEPT !.route = "none"]
    BY <1>2 DEF Import
  <2> HIDE DEF q
  <2>2. SameSession(p, q)
    BY <2>1 DEF SameSession, SpeakerState
  <2> QED BY <2>2 DEF q
<1>3. CASE m = "EOR"
  <2>1. q = EndOfRib(p)
    BY <1>3 DEF Import
  <2> QED BY <1>0, <2>1, FlushedOK DEF EndOfRib
<1>4. CASE m = "BORR"
  <2> DEFINE b == p.route # "none"
  <2>1. q = [p EXCEPT !.refresh_inbound = TRUE, !.refresh_stale = b]
    BY <1>4 DEF Import
  <2>2. b \in BOOLEAN
    OBVIOUS
  <2> HIDE DEF q, b
  <2>3. SameSession(p, q)
    BY <2>1, <2>2 DEF SameSession, SpeakerState
  <2> QED BY <2>3 DEF q
<1>5. CASE m = "EORR"
  <2>1. CASE ~p.refresh_inbound
    <3>1. q = p
      BY <1>5, <2>1 DEF Import
    <3> QED BY <1>0, <3>1
  <2>2. CASE p.refresh_inbound
    <3> DEFINE rt == IF p.refresh_stale THEN "none" ELSE p.route
    <3>1. q = [p EXCEPT !.refresh_inbound = FALSE, !.refresh_stale = FALSE, !.route = rt]
      BY <1>5, <2>2 DEF Import
    <3>2. rt \in {"none", "old", "new"}
      BY SpeakerFields
    <3> HIDE DEF q, rt
    <3>3. SameSession(p, q)
      BY <3>1, <3>2 DEF SameSession, SpeakerState
    <3> QED BY <3>3 DEF q
  <2> QED BY <2>1, <2>2
<1>6. CASE m \notin {"ANNOUNCE", "WITHDRAW", "EOR", "BORR", "EORR"}
  <2>1. q = p
    BY <1>6 DEF Import
  <2> QED BY <1>0, <2>1
<1> QED BY <1>1, <1>2, <1>3, <1>4, <1>5, <1>6

\* reconcile_graceful_restart_open.
LEMMA ReconciledOK ==
    ASSUME NEW p \in SpeakerState, NEW open
    PROVE  SameSession(p, Reconciled(p, open))
<1> DEFINE q == Reconciled(p, open)
           rt == IF p.route = "none" THEN p.route ELSE "old"
<1>1. CASE ~p.stale
  BY <1>1 DEF Reconciled, SameSession
<1>2. CASE p.stale /\ open = "OPEN"
  BY <1>2, FlushedOK DEF Reconciled
<1>3. CASE p.stale /\ open # "OPEN"
  <2>1. q = [p EXCEPT !.route = rt]
    BY <1>3 DEF Reconciled
  <2>2. rt \in {"none", "old", "new"}
    OBVIOUS
  <2> HIDE DEF q, rt
  <2>3. SameSession(p, q)
    BY <2>1, <2>2 DEF SameSession, SpeakerState
  <2> QED BY <2>3 DEF q
<1> QED BY <1>1, <1>2, <1>3

\* handle_pdu, in a session.
LEMMA HandlePduOK ==
    ASSUME NEW w, NEW s \in Speaker, NEW X, WorldOK(w, s, X), w.p.stream # None, w.p.state # "Idle", NEW m
    PROVE  LET r == HandlePdu(w, s, m)
           IN  WorldOK(r, s, X) /\ Kept(w, r, s) /\ (r.p.stream # None => r.p.state # "Idle")
<1> DEFINE p == w.p
           r == HandlePdu(w, s, m)
<1>1. w \in Worlds /\ Shape(p) /\ p \in SpeakerState /\ Base(w, s, X)
  BY DEF WorldOK, Base, Worlds
<1>2. p.admin_up
  BY <1>1 DEF Shape
<1>3. \A e \in {"OpenSent", "OpenConfirm", "Established"} : e \in State /\ e # "Idle"
  BY DEF State, Session
<1>4. CASE p.state = "OpenSent" /\ m \in {"OPEN", "OPEN_RESTARTING"}
  <2> DEFINE v == SendPdu(w, s, "KEEPALIVE")
             h == Reconciled(p, m)
             q == [h EXCEPT !.state = "OpenConfirm"]
  <2>1. r = [v EXCEPT !.p = q]
    BY <1>4 DEF HandlePdu
  <2>2. "KEEPALIVE" \in Message
    BY DEF Message
  <2>3. Base(v, s, X) /\ Kept(w, v, s) /\ v.p = p
    BY <1>1, <2>2, SendPduOK
  <2>4. SameSession(p, h)
    BY <1>1, ReconciledOK
  <2> HIDE DEF v, h
  <2>5. /\ q \in SpeakerState /\ q.stream = p.stream /\ q.collision = p.collision /\ q.accept_queue = p.accept_queue
        /\ q.state = "OpenConfirm" /\ q.admin_up = p.admin_up
    <3> HIDE DEF p
    <3> QED BY <1>3, <2>4 DEF SameSession, SpeakerState
  <2> HIDE DEF q
  <2>6. r = [p |-> q, c |-> v.c]
    BY <2>1, <2>3 DEF Base, Worlds
  <2> HIDE DEF r
  <2>7. Shape(q)
    BY <1>2, <2>5 DEF Shape
  <2>8. WorldOK(r, s, X) /\ Kept(v, r, s) /\ r.p = q
    BY <2>3, <2>5, <2>6, <2>7, SelfOK
  <2>9. Kept(w, r, s)
    BY <2>3, <2>8, KeptTrans
  <2> QED BY <2>5, <2>8, <2>9 DEF r
<1>5. CASE p.state = "OpenConfirm" /\ m = "KEEPALIVE"
  <2> DEFINE q == [p EXCEPT !.state = "Established"]
  <2>1. r = [w EXCEPT !.p.state = "Established"]
    BY <1>5 DEF HandlePdu
  <2>2. r = [p |-> q, c |-> w.c]
    BY <1>1, <2>1 DEF Worlds
  <2>3. /\ q \in SpeakerState /\ q.stream = p.stream /\ q.collision = p.collision /\ q.accept_queue = p.accept_queue
        /\ q.state = "Established" /\ q.admin_up = p.admin_up
    <3> HIDE DEF p
    <3> QED BY <1>1, <1>3 DEF SpeakerState
  <2> HIDE DEF q, r
  <2>4. Shape(q)
    BY <1>2, <2>3 DEF Shape
  <2>5. WorldOK(r, s, X) /\ Kept(w, r, s) /\ r.p = q
    BY <1>1, <2>2, <2>3, <2>4, SelfOK
  <2> QED BY <2>3, <2>5 DEF r
<1>6. CASE p.state = "Established" /\ m = "KEEPALIVE"
  <2>1. r = w
    BY <1>6 DEF HandlePdu, Update
  <2> QED BY <2>1 DEF Kept, Elsewhere
<1>7. CASE p.state = "Established" /\ m \in Update
  <2> DEFINE q == Import(p, m)
  <2>0. m # "KEEPALIVE"
    BY <1>7 DEF Update
  <2>1. r = [w EXCEPT !.p = q]
    BY <1>7, <2>0 DEF HandlePdu, Update
  <2>2. SameSession(p, q)
    BY <1>1, ImportOK
  <2> HIDE DEF q
  <2>3. r = [p |-> q, c |-> w.c]
    BY <1>1, <2>1 DEF Worlds
  <2> HIDE DEF r
  <2>4. Shape(q)
    BY <1>1, <1>2, <1>7, <2>2 DEF Shape, SameSession
  <2>5. WorldOK(r, s, X) /\ Kept(w, r, s) /\ r.p = q
    BY <1>1, <2>2, <2>3, <2>4, SelfOK DEF SameSession
  <2> QED BY <2>2, <2>5 DEF r, SameSession
<1>8. CASE p.state = "Established" /\ m = "REFRESH"
  <2> DEFINE q == [p EXCEPT !.refresh_pending = TRUE]
  <2>0. m \notin Update
    BY <1>8 DEF Update
  <2>1. r = [w EXCEPT !.p.refresh_pending = TRUE]
    BY <1>8, <2>0 DEF HandlePdu
  <2>2. r = [p |-> q, c |-> w.c]
    BY <1>1, <2>1 DEF Worlds
  <2>3. SameSession(p, q)
    <3> HIDE DEF p
    <3> QED BY <1>1 DEF SameSession, SpeakerState
  <2> HIDE DEF q, r
  <2>4. Shape(q)
    BY <1>1, <1>2, <1>8, <2>3 DEF Shape, SameSession
  <2>5. WorldOK(r, s, X) /\ Kept(w, r, s) /\ r.p = q
    BY <1>1, <2>2, <2>3, <2>4, SelfOK DEF SameSession
  <2> QED BY <2>3, <2>5 DEF r, SameSession
<1>9. CASE /\ ~(p.state = "OpenSent" /\ m \in {"OPEN", "OPEN_RESTARTING"})
           /\ ~(p.state = "OpenConfirm" /\ m = "KEEPALIVE") /\ ~(p.state = "Established" /\ m = "KEEPALIVE")
           /\ ~(p.state = "Established" /\ m \in Update) /\ ~(p.state = "Established" /\ m = "REFRESH")
  <2>1. \E why \in {"notified", "FSM_ERROR"} : r = Teardown(w, s, why)
    BY <1>9, Zenon DEF HandlePdu
  <2>2. PICK why \in Reason : r = Teardown(w, s, why)
    BY <2>1 DEF Reason
  <2> HIDE DEF r
  <2>3. WorldOK(r, s, X) /\ Kept(w, r, s) /\ r.p.stream = None
    BY <2>2, TeardownKeeps
  <2> QED BY <2>3 DEF r
<1> QED BY <1>4, <1>5, <1>6, <1>7, <1>8, <1>9

-----------------------------------------------------------------------------
(* The two loops: accept_inbound over the accept queue, and run_session     *)
(* over what was delivered.                                                *)

\* One turn of either loop; the second one works for connection i.
Turn(loop, i, v, s, m) ==
    IF loop = "accept" THEN AcceptOne(v, s, m)
    ELSE IF v.p.stream = i THEN HandlePdu(v, s, m) ELSE v

\* g lists the worlds after each of the first n turns.
Run(loop, i, g, w, s, ms, n) ==
    g = [j \in 0 .. n |-> IF j = 0 THEN w ELSE Turn(loop, i, g[j - 1], s, ms[j])]

\* There is such a list, whatever the loop works on.
LEMMA RunExists ==
    ASSUME NEW loop, NEW i, NEW w, NEW s, NEW ms, NEW n \in Nat
    PROVE  \E g : Run(loop, i, g, w, s, ms, n)
<1> DEFINE T == {m \in Nat : ~ \E g : Run(loop, i, g, w, s, ms, m)}
<1> SUFFICES ASSUME n \in T PROVE FALSE
  OBVIOUS
<1>1. PICK m \in T : \A k \in T : m <= k
  <2>1. T \in SUBSET Nat /\ T # {}
    OBVIOUS
  <2> HIDE DEF T
  <2> QED BY <2>1, LeastNat
<1>2. m \in Nat /\ ~ \E g : Run(loop, i, g, w, s, ms, m)
  BY <1>1
<1>3. CASE m = 0
  <2> DEFINE g == [j \in 0 .. 0 |-> w]
  <2>1. g = [j \in 0 .. 0 |-> IF j = 0 THEN w ELSE Turn(loop, i, g[j - 1], s, ms[j])]
    OBVIOUS
  <2>2. Run(loop, i, g, w, s, ms, 0)
    BY <2>1 DEF Run
  <2> QED BY <1>2, <1>3, <2>2
<1>4. CASE m # 0
  <2>1. m - 1 \in Nat /\ ~(m <= m - 1)
    BY <1>2, <1>4
  <2>2. PICK h : Run(loop, i, h, w, s, ms, m - 1)
    BY <1>1, <2>1
  <2> DEFINE g == [j \in 0 .. m |-> IF j = m THEN Turn(loop, i, h[m - 1], s, ms[m]) ELSE h[j]]
  <2>3. \A j \in 0 .. m - 1 : h[j] = IF j = 0 THEN w ELSE Turn(loop, i, h[j - 1], s, ms[j])
    BY <2>2 DEF Run
  <2>4. ASSUME NEW j \in 0 .. m
        PROVE  g[j] = IF j = 0 THEN w ELSE Turn(loop, i, g[j - 1], s, ms[j])
    <3>1. CASE j = m
      <4>1. g[j] = Turn(loop, i, h[m - 1], s, ms[m]) /\ g[m - 1] = h[m - 1] /\ j # 0
        BY <1>2, <1>4, <2>1, <3>1
      <4> HIDE DEF g
      <4> QED BY <3>1, <4>1
    <3>2. CASE j # m /\ j = 0
      <4>1. 0 \in 0 .. m - 1
        BY <2>1
      <4> QED BY <2>3, <3>2, <4>1
    <3>3. CASE j # m /\ j # 0
      <4>1. j \in 0 .. m - 1 /\ j - 1 \in 0 .. m /\ j - 1 # m
        BY <1>2, <3>3
      <4>2. g[j] = h[j] /\ g[j - 1] = h[j - 1]
        BY <3>3, <4>1
      <4> HIDE DEF g
      <4> QED BY <2>3, <3>3, <4>1, <4>2
    <3> QED BY <3>1, <3>2, <3>3
  <2>5. g = [j \in 0 .. m |-> g[j]]
    OBVIOUS
  <2> HIDE DEF g
  <2>6. Run(loop, i, g, w, s, ms, m)
    BY <2>4, <2>5 DEF Run
  <2> QED BY <1>2, <2>6
<1> QED BY <1>3, <1>4

\* a lists the worlds of accept_inbound.
AcceptList(a, w, s) ==
    LET queue == w.p.accept_queue
        n == Len(queue)
    IN  /\ AcceptInbound(w, s) = a[n] /\ a[0] = [w EXCEPT !.p.accept_queue = <<>>]
        /\ \A j \in 1 .. n : a[j] = AcceptOne(a[j - 1], s, queue[j])

\* a lists the worlds of the loop of run_session.
ReadList(a, w, s) ==
    LET i == w.p.stream
        got == w.c[i].received[s]
        n == Len(got)
    IN  /\ Read(w, s) = a[n] /\ a[0] = [w EXCEPT !.c[i].received[s] = <<>>]
        /\ \A j \in 1 .. n : a[j] = IF a[j - 1].p.stream = i THEN HandlePdu(a[j - 1], s, got[j]) ELSE a[j - 1]

\* accept_inbound goes through its list.
LEMMA AcceptRun ==
    ASSUME NEW w, NEW s, Len(w.p.accept_queue) \in Nat
    PROVE  \E a : AcceptList(a, w, s)
<1> DEFINE queue == w.p.accept_queue
           n == Len(queue)
           v == [w EXCEPT !.p.accept_queue = <<>>]
           a == CHOOSE f : f = [j \in 0 .. n |-> IF j = 0 THEN v ELSE AcceptOne(f[j - 1], s, queue[j])]
<1>1. AcceptInbound(w, s) = a[n]
  BY Zenon DEF AcceptInbound
<1> HIDE DEF v, n, queue
<1>2. \E f : f = [j \in 0 .. n |-> IF j = 0 THEN v ELSE AcceptOne(f[j - 1], s, queue[j])]
  <2>1. n \in Nat
    BY DEF n, queue
  <2>2. PICK g : Run("accept", 0, g, v, s, queue, n)
    BY <2>1, RunExists
  <2>3. g = [j \in 0 .. n |-> IF j = 0 THEN v ELSE AcceptOne(g[j - 1], s, queue[j])]
    BY <2>2 DEF Run, Turn
  <2> QED BY <2>3
<1>3. a = [j \in 0 .. n |-> IF j = 0 THEN v ELSE AcceptOne(a[j - 1], s, queue[j])]
  BY <1>2
<1> HIDE DEF a
<1>4. n \in Nat /\ 0 \in 0 .. n /\ \A j \in 1 .. n : j \in 0 .. n /\ j # 0
  BY DEF n, queue
<1>5. \A j \in 0 .. n : a[j] = IF j = 0 THEN v ELSE AcceptOne(a[j - 1], s, queue[j])
  BY <1>3
<1>6. a[0] = v /\ \A j \in 1 .. n : a[j] = AcceptOne(a[j - 1], s, queue[j])
  BY <1>4, <1>5
<1>7. AcceptList(a, w, s)
  BY <1>1, <1>6, Zenon DEF AcceptList, v, n, queue
<1> QED BY <1>7

\* run_session goes through its list.
LEMMA ReadRun ==
    ASSUME NEW w, NEW s, Len(w.c[w.p.stream].received[s]) \in Nat
    PROVE  \E a : ReadList(a, w, s)
<1> DEFINE i == w.p.stream
           got == w.c[i].received[s]
           n == Len(got)
           v == [w EXCEPT !.c[i].received[s] = <<>>]
           a == CHOOSE f : f = [j \in 0 .. n |-> IF j = 0 THEN v ELSE
                                  IF f[j - 1].p.stream = i THEN HandlePdu(f[j - 1], s, got[j]) ELSE f[j - 1]]
<1>1. Read(w, s) = a[n]
  BY Zenon DEF Read
<1>0. n \in Nat
  OBVIOUS
<1> HIDE DEF v, n, got, i
<1>2. \E f : f = [j \in 0 .. n |-> IF j = 0 THEN v ELSE
                                  IF f[j - 1].p.stream = i THEN HandlePdu(f[j - 1], s, got[j]) ELSE f[j - 1]]
  <2>2. PICK g : Run("read", i, g, v, s, got, n)
    BY <1>0, RunExists
  <2>3. g = [j \in 0 .. n |-> IF j = 0 THEN v ELSE
                                  IF g[j - 1].p.stream = i THEN HandlePdu(g[j - 1], s, got[j]) ELSE g[j - 1]]
    BY <2>2 DEF Run, Turn
  <2> QED BY <2>3
<1>3. a = [j \in 0 .. n |-> IF j = 0 THEN v ELSE
                                  IF a[j - 1].p.stream = i THEN HandlePdu(a[j - 1], s, got[j]) ELSE a[j - 1]]
  BY <1>2
<1> HIDE DEF a
<1>4. 0 \in 0 .. n /\ \A j \in 1 .. n : j \in 0 .. n /\ j # 0
  BY <1>0
<1>5. \A j \in 0 .. n : a[j] = IF j = 0 THEN v ELSE
                                  IF a[j - 1].p.stream = i THEN HandlePdu(a[j - 1], s, got[j]) ELSE a[j - 1]
  BY <1>3
<1>6. a[0] = v /\ \A j \in 1 .. n : a[j] = IF a[j - 1].p.stream = i THEN HandlePdu(a[j - 1], s, got[j]) ELSE a[j - 1]
  BY <1>4, <1>5
<1>7. ReadList(a, w, s)
  BY <1>1, <1>6, Zenon DEF ReadList, v, n, got, i
<1> QED BY <1>7

\* accept_inbound serves the whole queue: whatever is still alive after it is a
\* connection of the speaker, and one that is up and had a queue has a connection.
LEMMA AcceptInboundOK ==
    ASSUME NEW w, NEW s \in Speaker, WorldOK(w, s, ToSet(w.p.accept_queue))
    PROVE  LET r == AcceptInbound(w, s)
           IN  /\ WorldOK(r, s, {}) /\ Elsewhere(w.c, r.c, s) /\ r.p.accept_queue = <<>>
               /\ r.p.admin_up = w.p.admin_up
               /\ w.p.admin_up /\ w.p.accept_queue # <<>> => r.p.stream # None
               /\ w.p.accept_queue = <<>> => r.c = w.c /\ r.p.stream = w.p.stream
<1> DEFINE queue == w.p.accept_queue
           n == Len(queue)
           p == w.p
           q == [p EXCEPT !.accept_queue = <<>>]
           v == [w EXCEPT !.p.accept_queue = <<>>]
           Rest(m) == {queue[j] : j \in m + 1 .. n}
           r == AcceptInbound(w, s)
<1>1. w \in Worlds /\ Conns(w.c) /\ Served(p, w.c, s, ToSet(queue)) /\ Shape(p) /\ p \in SpeakerState
  BY DEF WorldOK, Base, Worlds
<1>2. queue \in Seq(Conn) /\ n \in Nat /\ DOMAIN queue = 1 .. n /\ \A j \in 1 .. n : queue[j] \in Conn
  BY <1>1, SpeakerFields, LenProperties, ElementOfSeq
<1>3. PICK a : /\ r = a[n] /\ a[0] = v
               /\ \A j \in 1 .. n : a[j] = AcceptOne(a[j - 1], s, queue[j])
  <2>1. Len(w.p.accept_queue) \in Nat
    BY <1>2
  <2>2. \E a : AcceptList(a, w, s)
    BY <2>1, AcceptRun
  <2> QED BY <2>2, Zenon DEF AcceptList
<1>4. v = [p |-> q, c |-> w.c]
  BY <1>1 DEF Worlds
<1>5. /\ q \in SpeakerState /\ q.stream = p.stream /\ q.collision = p.collision /\ q.accept_queue = <<>>
      /\ q.state = p.state /\ q.admin_up = p.admin_up /\ q.route = p.route /\ q.stale = p.stale
  <2>1. <<>> \in Seq(Conn)
    OBVIOUS
  <2> HIDE DEF p
  <2> QED BY <1>1, <2>1 DEF SpeakerState
<1> HIDE DEF q, v, r
<1>6. v.p = q /\ v.c = w.c /\ v \in Worlds
  BY <1>1, <1>4, <1>5 DEF Worlds
<1>7. ToSet(queue) = Rest(0)
  BY <1>2 DEF ToSet
<1>8. WorldOK(v, s, Rest(0))
  <2>1. Served(q, w.c, s, Rest(0))
    BY <1>1, <1>5, <1>7 DEF Served
  <2>2. Shape(q)
    BY <1>1, <1>5 DEF Shape
  <2> HIDE DEF Rest
  <2> QED BY <1>1, <1>6, <2>1, <2>2 DEF WorldOK, Base
<1>9. ASSUME NEW j \in 1 .. n PROVE \A x \in Rest(j - 1) : x \in Rest(j) \/ x = queue[j]
  BY <1>2, <1>9
<1>10. Rest(n) = {}
  BY <1>2
<1> HIDE DEF Rest, queue, n
<1>11. Kept(v, v, s)
  BY DEF Kept, Elsewhere
<1> DEFINE Good(j) == /\ WorldOK(a[j], s, Rest(j)) /\ Kept(v, a[j], s) /\ a[j].p.admin_up = p.admin_up
                      /\ p.admin_up /\ j # 0 => a[j].p.stream # None
<1>12. Good(0)
  BY <1>3, <1>5, <1>6, <1>8, <1>11
<1>13. ASSUME NEW j \in 1 .. n, Good(j - 1) PROVE Good(j)
  <2> DEFINE u == a[j - 1]
             i == queue[j]
             X == Rest(j - 1)
             Y == Rest(j)
  <2>1. WorldOK(u, s, X) /\ (\A x \in X : x \in Y \/ x = i) /\ i \in Conn /\ a[j] = AcceptOne(u, s, i)
    BY <1>2, <1>3, <1>9, <1>13
  <2>2. Kept(v, u, s) /\ u.p.admin_up = p.admin_up
    BY <1>13
  <2> HIDE DEF u, i, X, Y
  <2>3. WorldOK(a[j], s, Y) /\ Kept(u, a[j], s) /\ a[j].p.admin_up = u.p.admin_up /\ (u.p.admin_up => a[j].p.stream # None)
    BY <2>1, AcceptOneOK
  <2>4. Kept(v, a[j], s)
    BY <2>2, <2>3, KeptTrans
  <2> QED BY <2>2, <2>3, <2>4 DEF Y
<1>14. Good(n)
  <2> HIDE DEF Good
  <2> DEFINE T == {j \in 0 .. n : ~Good(j)}
  <2>1. T = {}
    <3> SUFFICES ASSUME T # {} PROVE FALSE
      OBVIOUS
    <3>1. PICK m \in T : \A k \in T : m <= k
      <4>1. T \in SUBSET Nat
        BY <1>2
      <4> HIDE DEF T
      <4> QED BY <4>1, LeastNat
    <3>2. m \in 0 .. n /\ ~Good(m)
      BY <3>1
    <3>3. m # 0
      BY <1>12, <3>2
    <3>4. m \in 1 .. n /\ m - 1 \in 0 .. n /\ ~(m <= m - 1)
      BY <1>2, <3>2, <3>3
    <3>5. Good(m - 1)
      BY <3>1, <3>4
    <3> QED BY <1>13, <3>2, <3>4, <3>5
  <2> QED BY <1>2, <2>1
<1>15. WorldOK(r, s, {}) /\ Kept(v, r, s) /\ r.p.admin_up = p.admin_up
  BY <1>3, <1>10, <1>14
<1>16. Elsewhere(w.c, r.c, s) /\ r.p.accept_queue = <<>>
  BY <1>5, <1>6, <1>15 DEF Kept
<1>17. p.admin_up /\ queue # <<>> => r.p.stream # None
  <2>1. queue # <<>> => n # 0
    BY <1>2, EmptySeq DEF n
  <2> QED BY <1>3, <1>14, <2>1
<1>18. queue = <<>> => r.c = w.c /\ r.p.stream = p.stream
  <2>1. queue = <<>> => n = 0
    BY DEF n
  <2> QED BY <1>3, <1>5, <1>6, <2>1
<1> QED BY <1>15, <1>16, <1>17, <1>18 DEF r, queue

\* run_session reads what was delivered.
LEMMA ReadOK ==
    ASSUME NEW w, NEW s \in Speaker, NEW X, WorldOK(w, s, X), w.p.stream # None
    PROVE  WorldOK(Read(w, s), s, X) /\ Kept(w, Read(w, s), s)
<1> DEFINE i == w.p.stream
           got == w.c[i].received[s]
           n == Len(got)
           k == [w.c[i] EXCEPT !.received[s] = <<>>]
           v == [w EXCEPT !.c[i].received[s] = <<>>]
           r == Read(w, s)
<1>1. w \in Worlds /\ Conns(w.c) /\ w.p \in SpeakerState /\ Base(w, s, X) /\ Shape(w.p)
  BY DEF WorldOK, Base, Worlds
<1>2. i \in Conn
  BY <1>1, SpeakerFields
<1>3. ConnOK(w.c[i]) /\ w.c[i] \in ConnState
  BY <1>1, <1>2 DEF Conns, ConnOK
<1>4. w.c[i].received \in [Speaker -> Seq(Message)] /\ got \in Seq(Message) /\ n \in Nat
  BY <1>3, ConnFields, LenProperties
<1>5. PICK a : /\ r = a[n] /\ a[0] = v
               /\ \A j \in 1 .. n : a[j] = IF a[j - 1].p.stream = i THEN HandlePdu(a[j - 1], s, got[j]) ELSE a[j - 1]
  <2>1. Len(w.c[w.p.stream].received[s]) \in Nat
    BY <1>4
  <2>2. \E a : ReadList(a, w, s)
    BY <2>1, ReadRun
  <2> QED BY <2>2, Zenon DEF ReadList
<1>6. ConnOK(k) /\ k.end = w.c[i].end
  <2> DEFINE b == w.c[i]
             M == [b.received EXCEPT ![s] = <<>>]
  <2>1. k = [b EXCEPT !.received = M]
    OBVIOUS
  <2>2. M \in [Speaker -> Seq(Message)]
    BY <1>4
  <2>3. b \in ConnState /\ SynFirst(b)
    BY <1>3 DEF ConnOK
  <2> HIDE DEF M, b, k
  <2>4. k \in ConnState /\ k.end = b.end /\ k.wire = b.wire
    BY <2>1, <2>2, <2>3 DEF ConnState
  <2>5. SynFirst(k)
    BY <2>3, <2>4 DEF SynFirst
  <2> QED BY <2>4, <2>5 DEF ConnOK, b
<1>7. v = [w EXCEPT !.c[i] = k]
  BY Zenon
<1> HIDE DEF v, k, i, n, got, r
<1>8. Base(v, s, X) /\ Kept(w, v, s) /\ v.p = w.p
  BY <1>1, <1>2, <1>6, <1>7, PutWorldOK
<1>9. WorldOK(v, s, X)
  BY <1>1, <1>8 DEF WorldOK
<1> DEFINE Good(j) == WorldOK(a[j], s, X) /\ Kept(w, a[j], s)
<1>10. Good(0)
  BY <1>5, <1>8, <1>9
<1>11. ASSUME NEW j \in 1 .. n, Good(j - 1) PROVE Good(j)
  <2> DEFINE u == a[j - 1]
             m == got[j]
  <2>1. a[j] = IF u.p.stream = i THEN HandlePdu(u, s, m) ELSE u
    BY <1>5
  <2>2. WorldOK(u, s, X) /\ Kept(w, u, s)
    BY <1>11
  <2> HIDE DEF u, m
  <2>3. CASE u.p.stream = i
    <3>1. u.p.stream # None
      BY <1>2, <2>3, ConnNotNone
    <3>2. u.p.state # "Idle"
      BY <2>2, <3>1 DEF WorldOK, Shape
    <3>3. WorldOK(HandlePdu(u, s, m), s, X) /\ Kept(u, HandlePdu(u, s, m), s)
      BY <2>2, <3>1, <3>2, HandlePduOK
    <3>4. WorldOK(a[j], s, X) /\ Kept(u, a[j], s)
      BY <2>1, <2>3, <3>3
    <3> QED BY <2>2, <3>4, KeptTrans
  <2>4. CASE u.p.stream # i
    BY <2>1, <2>2, <2>4
  <2> QED BY <2>3, <2>4
<1>12. Good(n)
  <2> HIDE DEF Good
  <2> DEFINE T == {j \in 0 .. n : ~Good(j)}
  <2>1. T = {}
    <3> SUFFICES ASSUME T # {} PROVE FALSE
      OBVIOUS
    <3>1. PICK m \in T : \A h \in T : m <= h
      <4>1. T \in SUBSET Nat
        BY <1>4
      <4> HIDE DEF T
      <4> QED BY <4>1, LeastNat
    <3>2. m \in 0 .. n /\ ~Good(m)
      BY <3>1
    <3>3. m # 0
      BY <1>10, <3>2
    <3>4. m \in 1 .. n /\ m - 1 \in 0 .. n /\ ~(m <= m - 1)
      BY <1>4, <3>2, <3>3
    <3>5. Good(m - 1)
      BY <3>1, <3>4
    <3> QED BY <1>11, <3>2, <3>4, <3>5
  <2>2. n \in 0 .. n
    BY <1>4
  <2> QED BY <2>1, <2>2
<1> QED BY <1>5, <1>12 DEF r

\* run_session.
LEMMA RunSessionOK ==
    ASSUME NEW w, NEW s \in Speaker, NEW X, NEW due, WorldOK(w, s, X), w.p.stream # None
    PROVE  LET r == RunSession(w, s, due) IN WorldOK(r, s, X) /\ Kept(w, r, s)
<1> DEFINE v == Read(w, s)
           r == RunSession(w, s, due)
<1>1. WorldOK(v, s, X) /\ Kept(w, v, s)
  BY ReadOK
<1>2. r = v \/ r = Teardown(v, s, "HOLD_EXPIRED")
  BY Zenon DEF RunSession
<1>3. "HOLD_EXPIRED" \in Reason
  BY DEF Reason
<1> HIDE DEF v, r
<1>4. CASE r = v
  BY <1>1, <1>4 DEF r
<1>5. CASE r = Teardown(v, s, "HOLD_EXPIRED")
  <2>1. WorldOK(r, s, X) /\ Kept(v, r, s)
    BY <1>1, <1>3, <1>5, TeardownKeeps
  <2>2. Kept(w, r, s)
    BY <1>1, <2>1, KeptTrans
  <2> QED BY <2>1, <2>2 DEF r
<1> QED BY <1>2, <1>4, <1>5

\* service_peer, once a collision was looked at.
LEMMA ServiceTransportOK ==
    ASSUME NEW w, NEW s \in Speaker, NEW X, NEW due, WorldOK(w, s, X), w.p.admin_up
    PROVE  LET r == ServiceTransport(w, s, due) IN WorldOK(r, s, X) /\ Kept(w, r, s)
<1> DEFINE p == w.p
           r == ServiceTransport(w, s, due)
<1>1. Shape(p) /\ p \in SpeakerState
  BY DEF WorldOK, Base, Worlds
<1>2. CASE p.stream # None /\ ~Live(w.c[p.stream], s)
  <2>1. r = Teardown(w, s, "transport")
    BY <1>1, <1>2 DEF ServiceTransport, Shape
  <2>2. "transport" \in Reason
    BY DEF Reason
  <2> QED BY <2>1, <2>2, TeardownKeeps
<1>3. CASE ~(p.stream # None /\ ~Live(w.c[p.stream], s)) /\ p.state = "Idle"
  <2>1. r = StartPeer(w, s, due)
    BY <1>3 DEF ServiceTransport
  <2>2. p.stream = None
    BY <1>1, <1>3 DEF Shape
  <2> QED BY <1>3, <2>1, <2>2, StartPeerOK
<1>4. CASE ~(p.stream # None /\ ~Live(w.c[p.stream], s)) /\ p.state \in {"Connect", "Active"}
  <2>1. r = ProgressTransport(w, s, due)
    BY <1>4 DEF ServiceTransport
  <2> QED BY <2>1, ProgressTransportOK
<1>5. CASE ~(p.stream # None /\ ~Live(w.c[p.stream], s)) /\ p.state \notin {"Idle", "Connect", "Active"}
  <2>1. r = RunSession(w, s, due)
    BY <1>5 DEF ServiceTransport
  <2>2. p.stream # None
    BY <1>1, <1>5 DEF Shape
  <2> QED BY <2>1, <2>2, RunSessionOK
<1> QED BY <1>2, <1>3, <1>4, <1>5

\* service_peer.
LEMMA ServicePeerOK ==
    ASSUME NEW w, NEW s \in Speaker, NEW X, NEW due, WorldOK(w, s, X)
    PROVE  LET r == ServicePeer(w, s, due) IN WorldOK(r, s, X) /\ Kept(w, r, s)
<1> DEFINE v == ServiceCollision(w, s)
           d == IF v.p.stream = w.p.stream THEN due ELSE {}
           r == ServicePeer(w, s, due)
<1>1. CASE ~w.p.admin_up
  <2>1. w.p.state = "Idle"
    BY <1>1 DEF WorldOK, Shape
  <2>2. r = w
    BY <1>1, <2>1 DEF ServicePeer
  <2> QED BY <2>2 DEF Kept, Elsewhere
<1>2. CASE w.p.admin_up
  <2>1. r = ServiceTransport(v, s, d)
    BY <1>2 DEF ServicePeer
  <2>2. WorldOK(v, s, X) /\ Kept(w, v, s) /\ v.p.admin_up /\ (v.p.stream = None => v = w)
    BY <1>2, ServiceCollisionOK
  <2> HIDE DEF v, d, r
  <2>3. WorldOK(r, s, X) /\ Kept(v, r, s)
    BY <2>1, <2>2, ServiceTransportOK
  <2>4. Kept(w, r, s)
    BY <2>2, <2>3, KeptTrans
  <2> QED BY <2>3, <2>4 DEF r
<1> QED BY <1>1, <1>2

-----------------------------------------------------------------------------
(* Advertisement and poll.                                                 *)

\* What is advertised are messages.
LEMMA AdvertisementsOK ==
    ASSUME NEW p
    PROVE  Advertisements(p) \in Seq(Message)
<1> DEFINE A == IF p.refresh_pending THEN <<"BORR">> ELSE <<>>
           B1 == IF p.adj_rib_out /\ ~p.originated THEN <<"WITHDRAW">> ELSE <<>>
           B2 == IF p.originated /\ (p.refresh_pending \/ ~p.adj_rib_out) THEN <<"ANNOUNCE">> ELSE <<>>
           C == IF p.refresh_pending THEN <<"EORR">> ELSE <<>>
           D == IF p.eor_pending THEN <<"EOR">> ELSE <<>>
<1>1. \A m \in {"BORR", "WITHDRAW", "ANNOUNCE", "EORR", "EOR"} : m \in Message
  BY DEF Message, Update
<1>2. \A m \in Message : <<m>> \in Seq(Message)
  OBVIOUS
<1>3. <<>> \in Seq(Message)
  OBVIOUS
<1>4. /\ A \in Seq(Message) /\ B1 \in Seq(Message) /\ B2 \in Seq(Message)
      /\ C \in Seq(Message) /\ D \in Seq(Message)
  BY <1>1, <1>2, <1>3
<1>5. Advertisements(p) = A \o (B1 \o B2) \o C \o D
  BY DEF Advertisements, Differences
<1> HIDE DEF A, B1, B2, C, D
<1>6. B1 \o B2 \in Seq(Message)
  BY <1>4, ConcatProperties
<1>7. A \o (B1 \o B2) \in Seq(Message)
  BY <1>4, <1>6, ConcatProperties
<1>8. A \o (B1 \o B2) \o C \in Seq(Message)
  BY <1>4, <1>7, ConcatProperties
<1>9. A \o (B1 \o B2) \o C \o D \in Seq(Message)
  BY <1>4, <1>8, ConcatProperties
<1> QED BY <1>5, <1>9

\* advertise_to_peer.
LEMMA AdvertiseOK ==
    ASSUME NEW w, NEW s \in Speaker, NEW X, WorldOK(w, s, X)
    PROVE  LET r == Advertise(w, s) IN WorldOK(r, s, X) /\ Kept(w, r, s)
<1> DEFINE p == w.p
           ms == Advertisements(p)
           v == SendPdus(w, s, ms)
           r == Advertise(w, s)
           q == [p EXCEPT !.adj_rib_out = p.originated, !.refresh_pending = FALSE, !.eor_pending = FALSE]
<1>1. CASE p.state # "Established"
  <2>1. r = w
    BY <1>1 DEF Advertise
  <2> QED BY <2>1 DEF Kept, Elsewhere
<1>2. CASE p.state = "Established"
  <2>1. r = [v EXCEPT !.p.adj_rib_out = p.originated, !.p.refresh_pending = FALSE, !.p.eor_pending = FALSE]
    BY <1>2, Zenon DEF Advertise
  <2>2. Base(w, s, X) /\ Shape(p) /\ p \in SpeakerState /\ ms \in Seq(Message)
    BY AdvertisementsOK DEF WorldOK, Base, Worlds
  <2> HIDE DEF ms
  <2>3. Base(v, s, X) /\ Kept(w, v, s) /\ v.p = p
    BY <2>2, SendPdusOK
  <2> HIDE DEF v
  <2>4. r = [p |-> q, c |-> v.c]
    BY <2>1, <2>3 DEF Base, Worlds
  <2>5. SameSession(p, q) /\ q.route = p.route /\ q.stale = p.stale
    <3>1. p.originated \in BOOLEAN
      BY <2>2, SpeakerFields
    <3> HIDE DEF p
    <3> QED BY <2>2, <3>1 DEF SameSession, SpeakerState
  <2> HIDE DEF q, r
  <2>6. Shape(q)
    BY <2>2, <2>5 DEF Shape, SameSession
  <2>7. WorldOK(r, s, X) /\ Kept(v, r, s)
    BY <2>3, <2>4, <2>5, <2>6, SelfOK DEF SameSession
  <2>8. Kept(w, r, s)
    BY <2>3, <2>7, KeptTrans
  <2> QED BY <2>7, <2>8 DEF r
<1> QED BY <1>1, <1>2

\* A change that keeps the session and the routes, or purges a retained route.
LEMMA SameOK ==
    ASSUME NEW w, NEW s, NEW X, WorldOK(w, s, X), NEW q, SameSession(w.p, q),
           (w.p.route = "none" => q.route = "none") /\ (~w.p.stale => ~q.stale),
           NEW r, r = [p |-> q, c |-> w.c]
    PROVE  WorldOK(r, s, X) /\ Kept(w, r, s) /\ r.p = q /\ r.c = w.c
<1>1. Base(w, s, X) /\ Shape(w.p)
  BY DEF WorldOK
<1>2. Shape(q)
  BY <1>1 DEF Shape, SameSession
<1>3. q \in SpeakerState
  BY DEF SameSession
<1> QED BY <1>1, <1>2, <1>3, SelfOK DEF SameSession

\* expire_graceful_restarts.
LEMMA ExpireRestartsOK ==
    ASSUME NEW p \in SpeakerState, NEW due
    PROVE  LET q == ExpireRestarts(p, due)
           IN  SameSession(p, q) /\ (p.route = "none" => q.route = "none") /\ (~p.stale => ~q.stale)
<1>1. SameSession(p, p)
  BY DEF SameSession
<1> QED BY <1>1, FlushedOK DEF ExpireRestarts

\* maybe_finish_local_graceful_restart.
LEMMA FinishRestartOK ==
    ASSUME NEW p \in SpeakerState
    PROVE  LET q == FinishRestart(p)
           IN  SameSession(p, q) /\ q.route = p.route /\ q.stale = p.stale
<1> DEFINE q == FinishRestart(p)
<1>1. q = p \/ q = [p EXCEPT !.restarting = FALSE, !.eor_pending = FALSE]
  BY DEF FinishRestart
<1> HIDE DEF q
<1>2. CASE q = p
  BY <1>2 DEF SameSession, q
<1>3. CASE q = [p EXCEPT !.restarting = FALSE, !.eor_pending = FALSE]
  <2>1. SameSession(p, q) /\ q.route = p.route /\ q.stale = p.stale
    BY <1>3 DEF SameSession, SpeakerState
  <2> QED BY <2>1 DEF q
<1> QED BY <1>1, <1>2, <1>3

\* poll.
LEMMA PolledOK ==
    ASSUME NEW w, NEW s \in Speaker, NEW due, WorldOK(w, s, ToSet(w.p.accept_queue))
    PROVE  LET r == Polled(w, s, due)
           IN  WorldOK(r, s, {}) /\ Elsewhere(w.c, r.c, s) /\ r.p.accept_queue = <<>>
<1> DEFINE p == w.p
           h == IF "local" \in due THEN ExpireLocalRestart(p) ELSE p
           q == [h EXCEPT !.listening = TRUE]
           started == [w EXCEPT !.p = IF "local" \in due THEN ExpireLocalRestart(@) ELSE @, !.p.listening = TRUE]
           accepted == AcceptInbound(started, s)
           late == IF accepted.p.stream = p.stream THEN due ELSE {}
           served == ServicePeer(accepted, s, late)
           expired == [served EXCEPT !.p = ExpireRestarts(served.p, due)]
           told == Advertise(expired, s)
           r == Polled(w, s, due)
           X == ToSet(p.accept_queue)
<1>1. r = [told EXCEPT !.p = FinishRestart(told.p)]
  BY Zenon DEF Polled
<1>2. w \in Worlds /\ p \in SpeakerState /\ WorldOK(w, s, X)
  BY DEF WorldOK, Base, Worlds
<1>3. SameSession(p, q) /\ q.route = p.route /\ q.stale = p.stale
  <2> HIDE DEF p
  <2>1. SameSession(p, h) /\ h.route = p.route /\ h.stale = p.stale
    <3> DEFINE x == [p EXCEPT !.restarting = FALSE, !.recovery_pending = FALSE, !.eor_pending = FALSE]
    <3>1. h = x \/ h = p
      BY DEF ExpireLocalRestart
    <3>2. SameSession(p, x) /\ x.route = p.route /\ x.stale = p.stale
      BY <1>2 DEF SameSession, SpeakerState
    <3>3. SameSession(p, p)
      BY <1>2 DEF SameSession
    <3> HIDE DEF h, x
    <3> QED BY <3>1, <3>2, <3>3
  <2> HIDE DEF h
  <2> QED BY <2>1 DEF SameSession, SpeakerState
<1>4. started = [p |-> q, c |-> w.c]
  <2>1. started = [w EXCEPT !.p = h, !.p.listening = TRUE]
    BY Zenon
  <2> HIDE DEF h, started
  <2>2. w = [p |-> w.p, c |-> w.c]
    BY <1>2, WorldParts
  <2> QED BY <2>1, <2>2
<1> HIDE DEF q, started, X, h
<1>5. WorldOK(started, s, X) /\ Kept(w, started, s) /\ started.p = q /\ started.c = w.c
  BY <1>2, <1>3, <1>4, SameOK
<1>6. started.p.accept_queue = p.accept_queue /\ started.p.stream = p.stream
  BY <1>3, <1>5 DEF SameSession
<1>7. WorldOK(started, s, ToSet(started.p.accept_queue))
  BY <1>5, <1>6 DEF X
<1>8. /\ WorldOK(accepted, s, {}) /\ Elsewhere(started.c, accepted.c, s) /\ accepted.p.accept_queue = <<>>
      /\ accepted.p.admin_up = started.p.admin_up
      /\ started.p.admin_up /\ started.p.accept_queue # <<>> => accepted.p.stream # None
      /\ started.p.accept_queue = <<>> => accepted.c = started.c /\ accepted.p.stream = started.p.stream
  BY <1>7, AcceptInboundOK
<1> HIDE DEF accepted, late
<1> DEFINE N == {}
<1>9. WorldOK(accepted, s, N)
  BY <1>8
<1> HIDE DEF N
<1>10. WorldOK(served, s, N) /\ Kept(accepted, served, s)
  BY <1>9, ServicePeerOK
<1> HIDE DEF served
<1>11. WorldOK(expired, s, N) /\ Kept(served, expired, s)
  <2> DEFINE e == ExpireRestarts(served.p, due)
  <2>1. served \in Worlds /\ served.p \in SpeakerState
    BY <1>10 DEF WorldOK, Base, Worlds
  <2>2. SameSession(served.p, e) /\ (served.p.route = "none" => e.route = "none") /\ (~served.p.stale => ~e.stale)
    BY <2>1, ExpireRestartsOK
  <2> HIDE DEF e
  <2>3. expired = [p |-> e, c |-> served.c]
    BY <2>1 DEF Worlds, e
  <2> HIDE DEF expired
  <2> QED BY <1>10, <2>2, <2>3, SameOK
<1> HIDE DEF expired
<1>12. WorldOK(told, s, N) /\ Kept(expired, told, s)
  BY <1>11, AdvertiseOK
<1> HIDE DEF told
<1>13. WorldOK(r, s, N) /\ Kept(told, r, s)
  <2> DEFINE f == FinishRestart(told.p)
  <2>1. told \in Worlds /\ told.p \in SpeakerState
    BY <1>12 DEF WorldOK, Base, Worlds
  <2>2. SameSession(told.p, f) /\ f.route = told.p.route /\ f.stale = told.p.stale
    BY <2>1, FinishRestartOK
  <2>3. r = [told EXCEPT !.p = f]
    BY <1>1
  <2> HIDE DEF f, r
  <2>4. r = [p |-> f, c |-> told.c]
    BY <2>1, <2>3 DEF Worlds
  <2> QED BY <1>12, <2>2, <2>4, SameOK
<1> HIDE DEF r
<1>14. Kept(accepted, r, s)
  BY <1>10, <1>11, <1>12, <1>13, KeptTrans
<1>15. Elsewhere(w.c, r.c, s) /\ r.p.accept_queue = <<>>
  BY <1>5, <1>8, <1>14 DEF Kept, Elsewhere
<1> QED BY <1>13, <1>15 DEF r, N

-----------------------------------------------------------------------------
(* The pair.                                                               *)

\* The inductive invariant.
Inv ==
    /\ TypeOK
    /\ \A i \in Conn : ConnOK(conn[i])
    /\ \A s \in Speaker :
          Shape(speaker[s]) /\ Served(speaker[s], conn, s, ToSet(speaker[s].accept_queue))

Budget == [faults: Nat, commands: Nat]

\* What a fault or a command costs.
LEMMA SpendOK ==
    ASSUME left \in Budget, NEW what \in {"faults", "commands"}, Spend(what)
    PROVE  left' \in Budget
BY DEF Spend, Budget

\* A four-tuple that is out of use is forgotten, which brings nothing to life.
LEMMA BecomeOK ==
    ASSUME NEW sp \in [Speaker -> SpeakerState], NEW c, Conns(c), Become(sp, c), left' \in Budget,
           \A s \in Speaker : Shape(sp[s]) /\ Served(sp[s], c, s, ToSet(sp[s].accept_queue))
    PROVE  Inv'
<1>1. speaker' = sp /\ conn' = [i \in Conn |-> IF InUse(sp, c, i) THEN Settled(c[i]) ELSE NoConn]
  BY DEF Become
<1>2. ASSUME NEW i \in Conn
      PROVE  /\ ConnOK(conn'[i]) /\ conn'[i] \in ConnState
             /\ \A s \in Speaker : Live(conn'[i], s) => Live(c[i], s)
  <2> DEFINE k == conn'[i]
             b == c[i]
  <2>1. ConnOK(b)
    BY DEF Conns
  <2>2. k = Settled(b) \/ k = NoConn
    BY <1>1
  <2> HIDE DEF k, b
  <2>3. CASE k = Settled(b)
    <3>1. ConnOK(k) /\ k.end = b.end
      BY <2>1, <2>3, SettledOK
    <3> QED BY <3>1 DEF ConnOK, Live, k, b
  <2>4. CASE k = NoConn
    <3>1. ConnOK(k) /\ \A s \in Speaker : k.end[s] = "none"
      BY <2>4, NoConnOK
    <3> QED BY <3>1 DEF ConnOK, Live, k, b
  <2> QED BY <2>2, <2>3, <2>4
<1>3. conn' \in [Conn -> ConnState]
  <2>1. conn' = [i \in Conn |-> conn'[i]]
    BY <1>1
  <2> QED BY <1>2, <2>1
<1>4. TypeOK'
  BY <1>1, <1>3 DEF TypeOK, Budget
<1>5. ASSUME NEW s \in Speaker
      PROVE  Shape(speaker'[s]) /\ Served(speaker'[s], conn', s, ToSet(speaker'[s].accept_queue))
  <2>1. Shape(sp[s]) /\ Served(sp[s], c, s, ToSet(sp[s].accept_queue))
    OBVIOUS
  <2>2. Served(sp[s], conn', s, ToSet(sp[s].accept_queue))
    BY <1>2, <2>1 DEF Served
  <2> QED BY <1>1, <2>1, <2>2
<1> QED BY <1>2, <1>4, <1>5 DEF Inv

\* The world a speaker works in.
LEMMA WorldInv ==
    ASSUME Inv, NEW s \in Speaker
    PROVE  LET w == World(s)
           IN  /\ w = [p |-> speaker[s], c |-> conn] /\ w.p = speaker[s] /\ w.c = conn
               /\ WorldOK(w, s, ToSet(w.p.accept_queue)) /\ Base(w, s, ToSet(w.p.accept_queue)) /\ Shape(w.p)
               /\ w \in Worlds /\ w.p \in SpeakerState
<1> DEFINE w == World(s)
<1>1. w = [p |-> speaker[s], c |-> conn] /\ w.p = speaker[s] /\ w.c = conn
  BY DEF World
<1>2. speaker[s] \in SpeakerState /\ conn \in [Conn -> ConnState]
  BY DEF Inv, TypeOK
<1>3. w \in Worlds
  BY <1>1, <1>2 DEF Worlds
<1> HIDE DEF w
<1>4. Conns(w.c) /\ Served(w.p, w.c, s, ToSet(w.p.accept_queue)) /\ Shape(w.p)
  BY <1>1, <1>2 DEF Inv, Conns
<1> QED BY <1>1, <1>2, <1>3, <1>4 DEF WorldOK, Base, w

\* A speaker's step leaves what the other one serves.
LEMMA AdoptOK ==
    ASSUME Inv, NEW s \in Speaker, NEW w, WorldOK(w, s, ToSet(w.p.accept_queue)), Elsewhere(conn, w.c, s),
           Adopt(s, w), left' \in Budget
    PROVE  Inv'
<1> DEFINE sp == [speaker EXCEPT ![s] = w.p]
           c == w.c
<1>1. w.p \in SpeakerState /\ Conns(c) /\ Served(w.p, c, s, ToSet(w.p.accept_queue)) /\ Shape(w.p)
  BY DEF WorldOK, Base, Worlds
<1>2. speaker \in [Speaker -> SpeakerState]
  BY DEF Inv, TypeOK
<1>3. Become(sp, c)
  BY DEF Adopt
<1>4. sp \in [Speaker -> SpeakerState] /\ sp[s] = w.p /\ \A t \in Speaker : t # s => sp[t] = speaker[t]
  BY <1>1, <1>2
<1> HIDE DEF sp
<1>5. ASSUME NEW t \in Speaker PROVE Shape(sp[t]) /\ Served(sp[t], c, t, ToSet(sp[t].accept_queue))
  <2>1. CASE t = s
    BY <1>1, <1>4, <2>1
  <2>2. CASE t # s
    <3>1. sp[t] = speaker[t] /\ t = Peer(s)
      BY <1>4, <2>2, PeerFacts
    <3>2. Shape(speaker[t]) /\ Served(speaker[t], conn, t, ToSet(speaker[t].accept_queue))
      BY DEF Inv
    <3>3. \A i \in Conn : Live(c[i], t) => Live(conn[i], t)
      BY <3>1 DEF Elsewhere, Live
    <3> QED BY <3>1, <3>2, <3>3 DEF Served
  <2> QED BY <2>1, <2>2
<1> HIDE DEF c
<1> QED BY <1>1, <1>3, <1>4, <1>5, BecomeOK DEF c

\* A speaker that changes nothing of its session or its connections.
LEMMA AdoptSelf ==
    ASSUME Inv, NEW s \in Speaker, NEW q, SameSession(speaker[s], q),
           q.route = speaker[s].route, q.stale = speaker[s].stale,
           NEW w, w = [p |-> q, c |-> conn], Adopt(s, w), left' \in Budget
    PROVE  Inv'
<1> DEFINE v == World(s)
           X == ToSet(v.p.accept_queue)
<1>1. v.p = speaker[s] /\ v.c = conn /\ WorldOK(v, s, X)
  BY WorldInv
<1> HIDE DEF v, X
<1>2. WorldOK(w, s, X) /\ Kept(v, w, s) /\ w.p = q /\ w.c = v.c
  BY <1>1, SameOK
<1>3. X = ToSet(w.p.accept_queue)
  BY <1>1, <1>2 DEF SameSession, X
<1>4. Elsewhere(conn, w.c, s)
  BY <1>1, <1>2 DEF Kept
<1> QED BY <1>2, <1>3, <1>4, AdoptOK

\* poll, in time or late.
LEMMA PollKeeps ==
    ASSUME Inv, NEW s \in Speaker, NEW due, Adopt(s, Polled(World(s), s, due)), left' \in Budget
    PROVE  Inv'
<1> DEFINE w == World(s)
           r == Polled(w, s, due)
<1>1. w.p = speaker[s] /\ w.c = conn /\ WorldOK(w, s, ToSet(w.p.accept_queue))
  BY WorldInv
<1>2. Adopt(s, r)
  OBVIOUS
<1> HIDE DEF w, r
<1>3. WorldOK(r, s, {}) /\ Elsewhere(w.c, r.c, s) /\ r.p.accept_queue = <<>>
  BY <1>1, PolledOK DEF r
<1>4. ToSet(r.p.accept_queue) = {}
  BY <1>3 DEF ToSet
<1> DEFINE N == ToSet(r.p.accept_queue)
<1>5. WorldOK(r, s, N)
  BY <1>3, <1>4
<1> QED BY <1>1, <1>2, <1>3, <1>5, AdoptOK

\* A connection changes at one end, and no speaker does.
LEMMA ConnKeeps ==
    ASSUME Inv, NEW i \in Conn, NEW k, ConnOK(k), \A s \in Speaker : Live(k, s) => Live(conn[i], s),
           NEW c, c = [conn EXCEPT ![i] = k], Become(speaker, c), left' \in Budget
    PROVE  Inv'
<1>1. conn \in [Conn -> ConnState] /\ speaker \in [Speaker -> SpeakerState] /\ k \in ConnState
  BY DEF Inv, TypeOK, ConnOK
<1>2. c \in [Conn -> ConnState] /\ c[i] = k /\ \A j \in Conn : j # i => c[j] = conn[j]
  BY <1>1
<1>3. Conns(c)
  BY <1>2 DEF Inv, Conns
<1>4. \A j \in Conn, s \in Speaker : Live(c[j], s) => Live(conn[j], s)
  BY <1>2
<1>5. \A s \in Speaker : Shape(speaker[s]) /\ Served(speaker[s], c, s, ToSet(speaker[s].accept_queue))
  BY <1>4 DEF Inv, Served
<1> QED BY <1>1, <1>3, <1>5, BecomeOK

\* The next segment reaches s: a connection that comes to life is queued.
LEMMA DeliverKeeps ==
    ASSUME Inv, NEW i \in Conn, NEW s \in Speaker, Deliver(i, s)
    PROVE  Inv'
<1> DEFINE k == conn[i]
           r == Arrive(k, s, speaker[s].listening)
           queue == speaker[s].accept_queue
           queued == k.end[s] = "none" /\ r.end[s] = "syn"
           sp == IF queued THEN [speaker EXCEPT ![s].accept_queue = Append(@, i)] ELSE speaker
           c == [conn EXCEPT ![i] = r]
           t == Peer(s)
<1>1. k.wire[s] # <<>> /\ Become(sp, c) /\ left' = left
  BY DEF Deliver
<1>2. /\ conn \in [Conn -> ConnState] /\ speaker \in [Speaker -> SpeakerState] /\ left \in Budget
      /\ ConnOK(k) /\ speaker[s] \in SpeakerState
  BY DEF Inv, TypeOK, Budget
<1>3. speaker[s].listening \in BOOLEAN /\ queue \in Seq(Conn)
  BY <1>2 DEF SpeakerState
<1>4. t \in Speaker /\ t # s /\ \A u \in Speaker : u = s \/ u = t
  BY PeerFacts
<1>5. ConnOK(r) /\ r.end[t] = k.end[t] /\ (Live(r, s) => Live(k, s) \/ queued)
  <2> DEFINE on == speaker[s].listening
  <2> HIDE DEF on, k
  <2> QED BY <1>1, <1>2, <1>3, ArriveOK DEF on
<1> HIDE DEF r
<1>6. c \in [Conn -> ConnState] /\ c[i] = r /\ \A j \in Conn : j # i => c[j] = conn[j]
  BY <1>2, <1>5 DEF ConnOK
<1> HIDE DEF c
<1>7. Conns(c)
  BY <1>5, <1>6 DEF Inv, Conns
<1>8. \A j \in Conn : Live(c[j], t) => Live(conn[j], t)
  BY <1>5, <1>6 DEF Live
<1>9. \A u \in Speaker : Shape(speaker[u]) /\ Served(speaker[u], conn, u, ToSet(speaker[u].accept_queue))
  BY DEF Inv
<1> HIDE DEF k
<1>10. CASE ~queued
  <2>1. sp = speaker
    BY <1>10
  <2>2. \A j \in Conn : Live(c[j], s) => Live(conn[j], s)
    BY <1>5, <1>6, <1>10 DEF k
  <2>3. \A u \in Speaker : Shape(speaker[u]) /\ Served(speaker[u], c, u, ToSet(speaker[u].accept_queue))
    BY <1>4, <1>8, <1>9, <2>2 DEF Served
  <2> HIDE DEF sp, queued
  <2> QED BY <1>1, <1>2, <1>7, <2>1, <2>3, BecomeOK
<1>11. CASE queued
  <2> DEFINE p == speaker[s]
             new == Append(queue, i)
             q == [p EXCEPT !.accept_queue = new]
  <2>1. sp = [speaker EXCEPT ![s] = q]
    BY <1>11
  <2>2. new \in Seq(Conn) /\ ToSet(new) = ToSet(queue) \cup {i}
    <3>1. /\ new \in Seq(Conn) /\ Len(new) = Len(queue) + 1 /\ new[Len(queue) + 1] = i
          /\ \A j \in 1 .. Len(queue) : new[j] = queue[j]
      BY <1>3, AppendProperties
    <3>2. Len(queue) \in Nat /\ DOMAIN queue = 1 .. Len(queue) /\ DOMAIN new = 1 .. Len(queue) + 1
      BY <1>3, <3>1, LenProperties
    <3> HIDE DEF new
    <3>3. ASSUME NEW x PROVE x \in ToSet(new) <=> x \in ToSet(queue) \cup {i}
      <4>1. x \in ToSet(new) <=> \E j \in 1 .. Len(queue) + 1 : x = new[j]
        BY <3>2 DEF ToSet
      <4>2. x \in ToSet(queue) <=> \E j \in 1 .. Len(queue) : x = queue[j]
        BY <3>2 DEF ToSet
      <4>3. \A j \in 1 .. Len(queue) + 1 : j \in 1 .. Len(queue) \/ j = Len(queue) + 1
        BY <3>2
      <4>4. \A j \in 1 .. Len(queue) : j \in 1 .. Len(queue) + 1
        BY <3>2
      <4>5. Len(queue) + 1 \in 1 .. Len(queue) + 1
        BY <3>2
      <4> HIDE DEF queue
      <4> QED BY <3>1, <4>1, <4>2, <4>3, <4>4, <4>5
    <3> QED BY <3>1, <3>3
  <2> HIDE DEF new
  <2>3. /\ q \in SpeakerState /\ q.accept_queue = new /\ q.stream = p.stream /\ q.collision = p.collision
        /\ q.state = p.state /\ q.admin_up = p.admin_up /\ q.route = p.route /\ q.stale = p.stale
    <3> HIDE DEF p
    <3> QED BY <1>2, <2>2 DEF SpeakerState, p
  <2> HIDE DEF q
  <2>4. sp \in [Speaker -> SpeakerState] /\ sp[s] = q /\ sp[t] = speaker[t]
    BY <1>2, <1>4, <2>1, <2>3
  <2> HIDE DEF sp, queued
  <2>5. Shape(q)
    BY <1>9, <2>3 DEF Shape
  <2>6. Served(q, c, s, ToSet(q.accept_queue))
    <3>1. Served(p, conn, s, ToSet(queue))
      BY <1>9
    <3> QED BY <1>6, <2>2, <2>3, <3>1 DEF Served
  <2>7. Shape(sp[t]) /\ Served(sp[t], c, t, ToSet(sp[t].accept_queue))
    BY <1>4, <1>8, <1>9, <2>4 DEF Served
  <2>8. \A u \in Speaker : Shape(sp[u]) /\ Served(sp[u], c, u, ToSet(sp[u].accept_queue))
    BY <1>4, <2>4, <2>5, <2>6, <2>7
  <2> QED BY <1>1, <1>2, <1>7, <2>4, <2>8, BecomeOK
<1> QED BY <1>10, <1>11

\* The stack gives a connection up.
LEMMA TransportFailsKeeps ==
    ASSUME Inv, NEW i \in Conn, NEW s \in Speaker, TransportFails(i, s)
    PROVE  Inv'
<1> DEFINE b == conn[i]
           k == Gone(b, s)
           c == [conn EXCEPT ![i] = k]
<1>1. Become(speaker, c) /\ Spend("faults")
  BY DEF TransportFails
<1>2. left \in Budget /\ ConnOK(b)
  BY DEF Inv, TypeOK, Budget
<1>3. left' \in Budget
  BY <1>1, <1>2, SpendOK
<1>4. ConnOK(k) /\ k.end[s] = "gone" /\ k.end[Peer(s)] = b.end[Peer(s)]
  BY <1>2, GoneOK
<1> HIDE DEF k
<1>5. \A u \in Speaker : Live(k, u) => Live(b, u)
  BY <1>4, PeerFacts DEF Live
<1>6. c = [conn EXCEPT ![i] = k]
  OBVIOUS
<1> HIDE DEF c
<1> QED BY <1>1, <1>3, <1>4, <1>5, <1>6, ConnKeeps DEF b

\* A RST is lost.
LEMMA LoseResetKeeps ==
    ASSUME Inv, NEW i \in Conn, NEW s \in Speaker, LoseReset(i, s)
    PROVE  Inv'
<1> DEFINE b == conn[i]
           W == [b.wire EXCEPT ![s] = Tail(b.wire[s])]
           k == [b EXCEPT !.wire[s] = Tail(b.wire[s])]
           c == [conn EXCEPT ![i] = k]
<1>1. Become(speaker, c) /\ Spend("faults") /\ b.wire[s] # <<>>
  BY DEF LoseReset
<1>2. left \in Budget /\ ConnOK(b) /\ b \in ConnState /\ SynFirst(b)
  BY DEF Inv, TypeOK, Budget, ConnOK
<1>3. left' \in Budget
  BY <1>1, <1>2, SpendOK
<1>4. b.wire \in [Speaker -> Seq(Segment)] /\ b.wire[s] \in Seq(Segment) /\ Len(b.wire[s]) \in Nat
  BY <1>2, ConnFields
<1>5. /\ Tail(b.wire[s]) \in Seq(Segment) /\ Len(Tail(b.wire[s])) = Len(b.wire[s]) - 1
      /\ \A j \in 1 .. Len(b.wire[s]) - 1 : Tail(b.wire[s])[j] = b.wire[s][j + 1]
  BY <1>1, <1>4, HeadTailProperties
<1> HIDE DEF b
<1>6. k = [b EXCEPT !.wire = W]
  OBVIOUS
<1>7. W \in [Speaker -> Seq(Segment)] /\ W[s] = Tail(b.wire[s]) /\ \A u \in Speaker : u # s => W[u] = b.wire[u]
  BY <1>4, <1>5
<1> HIDE DEF W, k
<1>8. k \in ConnState /\ k.end = b.end /\ k.wire = W
  BY <1>2, <1>6, <1>7 DEF ConnState
<1>9. SynFirst(k)
  <2> SUFFICES ASSUME NEW u \in Speaker, NEW j \in 1 .. Len(W[u]), W[u][j] = "SYN"
               PROVE  j = 1 /\ b.end[u] \in {"none", "gone"}
    BY <1>8 DEF SynFirst
  <2>1. CASE u = s
    <3>1. j \in 1 .. Len(b.wire[s]) - 1 /\ j + 1 \in 1 .. Len(b.wire[s]) /\ j + 1 # 1
      BY <1>4, <1>5, <1>7, <2>1
    <3>2. b.wire[s][j + 1] = "SYN"
      BY <1>5, <1>7, <2>1, <3>1
    <3> QED BY <1>2, <3>1, <3>2 DEF SynFirst
  <2>2. CASE u # s
    BY <1>2, <1>7, <2>2 DEF SynFirst
  <2> QED BY <2>1, <2>2
<1>10. ConnOK(k) /\ \A u \in Speaker : Live(k, u) => Live(conn[i], u)
  BY <1>8, <1>9 DEF ConnOK, Live, b
<1>11. c = [conn EXCEPT ![i] = k]
  OBVIOUS
<1> HIDE DEF c
<1> QED BY <1>1, <1>3, <1>10, <1>11, ConnKeeps

\* begin_graceful_restart: the session goes as if the transport had been lost.
LEMMA BeginGracefulRestartKeeps ==
    ASSUME Inv, NEW s \in Speaker, BeginGracefulRestart(s)
    PROVE  Inv'
<1> DEFINE p == speaker[s]
           v == World(s)
           q == [p EXCEPT !.restarting = TRUE, !.recovery_pending = TRUE, !.eor_pending = FALSE]
           w == [World(s) EXCEPT !.p.restarting = TRUE, !.p.recovery_pending = TRUE, !.p.eor_pending = FALSE]
           X == ToSet(p.accept_queue)
<1>1. Spend("faults") /\ (Adopt(s, Teardown(w, s, "transport")) \/ Adopt(s, w))
  BY DEF BeginGracefulRestart
<1>2. left \in Budget
  BY DEF Inv, TypeOK, Budget
<1>3. left' \in Budget
  BY <1>1, <1>2, SpendOK
<1>4. v = [p |-> p, c |-> conn] /\ v.p = p /\ v.c = conn /\ WorldOK(v, s, X) /\ p \in SpeakerState
  BY WorldInv
<1>5. w = [p |-> q, c |-> conn]
  <2>1. w = [v EXCEPT !.p.restarting = TRUE, !.p.recovery_pending = TRUE, !.p.eor_pending = FALSE]
    OBVIOUS
  <2> HIDE DEF w, v, p, X
  <2> QED BY <1>4, <2>1
<1>6. SameSession(p, q) /\ q.route = p.route /\ q.stale = p.stale
  <2> HIDE DEF p
  <2> QED BY <1>4 DEF SameSession, SpeakerState
<1> HIDE DEF v, w, q, X
<1>7. WorldOK(w, s, X) /\ Kept(v, w, s) /\ w.p = q /\ w.c = conn
  BY <1>4, <1>5, <1>6, SameOK
<1>8. CASE Adopt(s, w)
  BY <1>3, <1>5, <1>6, <1>8, AdoptSelf
<1>9. CASE Adopt(s, Teardown(w, s, "transport"))
  <2> DEFINE r == Teardown(w, s, "transport")
  <2>1. "transport" \in Reason
    BY DEF Reason
  <2>2. WorldOK(r, s, X) /\ Kept(w, r, s)
    BY <1>7, <2>1, TeardownKeeps
  <2>3. Adopt(s, r)
    BY <1>9
  <2> HIDE DEF r
  <2>4. Elsewhere(conn, r.c, s) /\ r.p.accept_queue = p.accept_queue
    BY <1>6, <1>7, <2>2 DEF Kept, SameSession
  <2>5. WorldOK(r, s, ToSet(r.p.accept_queue))
    BY <2>2, <2>4 DEF X
  <2> QED BY <1>3, <2>3, <2>4, <2>5, AdoptOK
<1> QED BY <1>1, <1>8, <1>9

\* mark_graceful_restart_family_recovered.
LEMMA FamilyRecoveredKeeps ==
    ASSUME Inv, NEW s \in Speaker, FamilyRecovered(s)
    PROVE  Inv'
<1> DEFINE p == speaker[s]
           h == [p EXCEPT !.recovery_pending = FALSE, !.eor_pending = p.admin_up]
           q == FinishRestart(h)
           w == [World(s) EXCEPT !.p = q]
<1>1. Adopt(s, w) /\ left' = left
  BY DEF FamilyRecovered
<1>2. left \in Budget
  BY DEF Inv, TypeOK, Budget
<1>3. World(s) = [p |-> p, c |-> conn] /\ p \in SpeakerState
  BY WorldInv
<1>4. SameSession(p, h) /\ h.route = p.route /\ h.stale = p.stale
  <2>1. p.admin_up \in BOOLEAN
    BY <1>3, SpeakerFields
  <2> HIDE DEF p
  <2> QED BY <1>3, <2>1 DEF SameSession, SpeakerState
<1> HIDE DEF h
<1>5. SameSession(h, q) /\ q.route = h.route /\ q.stale = h.stale
  BY <1>4, FinishRestartOK DEF SameSession
<1> HIDE DEF q
<1>6. SameSession(p, q) /\ q.route = p.route /\ q.stale = p.stale
  BY <1>4, <1>5 DEF SameSession
<1>7. w = [p |-> q, c |-> conn]
  BY <1>3
<1> HIDE DEF w
<1> QED BY <1>1, <1>2, <1>6, <1>7, AdoptSelf

\* shutdown_peer: nothing is retained for a neighbour that is shut down.
LEMMA ShutdownPeerKeeps ==
    ASSUME Inv, NEW s \in Speaker, ShutdownPeer(s)
    PROVE  Inv'
<1> DEFINE p == speaker[s]
           v == World(s)
           q == [p EXCEPT !.admin_up = FALSE]
           u == [World(s) EXCEPT !.p.admin_up = FALSE]
           X == ToSet(p.accept_queue)
           w == Teardown(u, s, "CEASE")
           r == [w EXCEPT !.p.retry = FALSE]
<1>1. Spend("faults") /\ Adopt(s, r)
  BY DEF ShutdownPeer
<1>2. left \in Budget
  BY DEF Inv, TypeOK, Budget
<1>3. left' \in Budget
  BY <1>1, <1>2, SpendOK
<1>4. /\ v = [p |-> p, c |-> conn] /\ v.p = p /\ v.c = conn /\ Base(v, s, X) /\ p \in SpeakerState
      /\ conn \in [Conn -> ConnState]
  BY WorldInv DEF Inv, TypeOK
<1>5. u = [p |-> q, c |-> conn]
  <2>1. u = [v EXCEPT !.p.admin_up = FALSE]
    OBVIOUS
  <2> HIDE DEF u, v, p, X
  <2> QED BY <1>4, <2>1
<1>6. q \in SpeakerState /\ q.stream = p.stream /\ q.collision = p.collision /\ q.accept_queue = p.accept_queue
  <2> HIDE DEF p
  <2> QED BY <1>4 DEF SpeakerState
<1> HIDE DEF v, u, q, X
<1>7. u.p = q /\ u.c = conn /\ u \in Worlds
  BY <1>4, <1>5, <1>6 DEF Worlds
<1>8. Base(u, s, X)
  BY <1>4, <1>6, <1>7 DEF Base, Served
<1>9. "CEASE" \in Reason /\ ~Retains(u.p, "CEASE")
  BY DEF Reason, Retains
<1>10. WorldOK(w, s, X) /\ Kept(u, w, s)
  BY <1>8, <1>9, TeardownOK
<1> HIDE DEF w
<1> DEFINE f == [w.p EXCEPT !.retry = FALSE]
<1>11. w \in Worlds /\ w.p \in SpeakerState
  BY <1>10 DEF WorldOK, Base, Worlds
<1>12. r = [p |-> f, c |-> w.c]
  <2>1. w = [p |-> w.p, c |-> w.c]
    BY <1>11, WorldParts
  <2>2. r = [w EXCEPT !.p = f]
    OBVIOUS
  <2> HIDE DEF r, f
  <2> QED BY <2>1, <2>2
<1>13. SameSession(w.p, f) /\ f.route = w.p.route /\ f.stale = w.p.stale
  <2> DEFINE g == w.p
  <2> HIDE DEF g
  <2>1. f = [g EXCEPT !.retry = FALSE] /\ g \in SpeakerState
    BY <1>11 DEF g
  <2> HIDE DEF f
  <2>2. SameSession(g, f) /\ f.route = g.route /\ f.stale = g.stale
    BY <2>1 DEF SameSession, SpeakerState
  <2> QED BY <2>2 DEF g
<1> HIDE DEF f, r
<1>14. WorldOK(r, s, X) /\ Kept(w, r, s)
  BY <1>10, <1>12, <1>13, SameOK
<1>15. Elsewhere(conn, r.c, s) /\ r.p.accept_queue = p.accept_queue
  BY <1>6, <1>7, <1>10, <1>14 DEF Kept, Elsewhere
<1>16. WorldOK(r, s, ToSet(r.p.accept_queue))
  BY <1>14, <1>15 DEF X
<1> QED BY <1>1, <1>3, <1>15, <1>16, AdoptOK

\* enable_peer.
LEMMA EnablePeerKeeps ==
    ASSUME Inv, NEW s \in Speaker, EnablePeer(s)
    PROVE  Inv'
<1> DEFINE p == speaker[s]
           v == World(s)
           q == [p EXCEPT !.admin_up = TRUE, !.retry = FALSE]
           r == [World(s) EXCEPT !.p.admin_up = TRUE, !.p.retry = FALSE]
           X == ToSet(p.accept_queue)
<1>1. Adopt(s, r) /\ left' = left
  BY DEF EnablePeer
<1>2. left \in Budget
  BY DEF Inv, TypeOK, Budget
<1>3. v = [p |-> p, c |-> conn] /\ v.p = p /\ v.c = conn /\ Base(v, s, X) /\ Shape(p) /\ p \in SpeakerState
  BY WorldInv
<1>4. r = [p |-> q, c |-> conn]
  <2>1. r = [v EXCEPT !.p.admin_up = TRUE, !.p.retry = FALSE]
    OBVIOUS
  <2> HIDE DEF r, v, p, X
  <2> QED BY <1>3, <2>1
<1>5. /\ q \in SpeakerState /\ q.stream = p.stream /\ q.collision = p.collision /\ q.accept_queue = p.accept_queue
      /\ q.state = p.state /\ q.admin_up
  <2> HIDE DEF p
  <2> QED BY <1>3 DEF SpeakerState
<1> HIDE DEF v, q, r, X
<1>6. Shape(q)
  BY <1>3, <1>5 DEF Shape
<1>7. r = [p |-> q, c |-> v.c]
  BY <1>3, <1>4
<1>8. WorldOK(r, s, X) /\ Kept(v, r, s) /\ r.p = q
  BY <1>3, <1>5, <1>6, <1>7, SelfOK
<1>9. WorldOK(r, s, ToSet(r.p.accept_queue)) /\ Elsewhere(conn, r.c, s)
  BY <1>3, <1>5, <1>8 DEF X, Kept
<1> QED BY <1>1, <1>2, <1>9, AdoptOK

\* originate and withdraw.
LEMMA ToggleOriginKeeps ==
    ASSUME Inv, NEW s \in Speaker, ToggleOrigin(s)
    PROVE  Inv'
<1> DEFINE p == speaker[s]
           q == [p EXCEPT !.originated = ~p.originated]
           w == [World(s) EXCEPT !.p.originated = ~@]
<1>1. Adopt(s, w) /\ Spend("commands")
  BY DEF ToggleOrigin
<1>2. left \in Budget
  BY DEF Inv, TypeOK, Budget
<1>3. left' \in Budget
  BY <1>1, <1>2, SpendOK
<1>4. World(s) = [p |-> p, c |-> conn] /\ p \in SpeakerState
  BY WorldInv
<1>5. SameSession(p, q) /\ q.route = p.route /\ q.stale = p.stale
  <2> DEFINE o == ~p.originated
  <2>1. o \in BOOLEAN /\ q = [p EXCEPT !.originated = o]
    OBVIOUS
  <2> HIDE DEF o, p, q
  <2> QED BY <1>4, <2>1 DEF SameSession, SpeakerState
<1>6. w = [p |-> q, c |-> conn]
  BY <1>4
<1> HIDE DEF w, q
<1> QED BY <1>1, <1>3, <1>5, <1>6, AdoptSelf

\* request_route_refresh.
LEMMA RequestRouteRefreshKeeps ==
    ASSUME Inv, NEW s \in Speaker, RequestRouteRefresh(s)
    PROVE  Inv'
<1> DEFINE v == World(s)
           r == SendPdu(v, s, "REFRESH")
           X == ToSet(v.p.accept_queue)
<1>1. Adopt(s, r) /\ Spend("commands")
  BY DEF RequestRouteRefresh
<1>2. left \in Budget
  BY DEF Inv, TypeOK, Budget
<1>3. left' \in Budget
  BY <1>1, <1>2, SpendOK
<1>4. v.c = conn /\ Base(v, s, X) /\ Shape(v.p)
  BY WorldInv
<1>5. "REFRESH" \in Message
  BY DEF Message
<1> HIDE DEF v, X
<1>6. Base(r, s, X) /\ Kept(v, r, s) /\ r.p = v.p
  BY <1>4, <1>5, SendPduOK
<1> HIDE DEF r
<1>7. WorldOK(r, s, ToSet(r.p.accept_queue)) /\ Elsewhere(conn, r.c, s)
  BY <1>4, <1>6 DEF WorldOK, X, Kept
<1> QED BY <1>1, <1>3, <1>7, AdoptOK

\* The invariant holds at first.
LEMMA InitInv ==
    ASSUME Init
    PROVE  Inv
<1>1. PICK setup \in Setups :
        /\ speaker = [s \in Speaker |-> NewSpeaker(IF s \in setup.dialers THEN "Active" ELSE "Passive")]
        /\ conn = [i \in Conn |-> NoConn]
        /\ left = [faults |-> setup.faults, commands |-> setup.commands]
  BY DEF Init
<1>2. left \in [faults: Nat, commands: Nat]
  BY <1>1, SetupAssumption
<1>3. ASSUME NEW mode \in {"Active", "Passive"}
      PROVE  /\ NewSpeaker(mode) \in SpeakerState /\ Shape(NewSpeaker(mode))
  <2>1. "Idle" \in State /\ None \in Conn \cup {None} /\ <<>> \in Seq(Conn)
    BY DEF State
  <2>2. NewSpeaker(mode) \in SpeakerState
    BY <2>1 DEF NewSpeaker, SpeakerState
  <2>3. Shape(NewSpeaker(mode))
    BY DEF NewSpeaker, Shape
  <2> QED BY <2>2, <2>3
<1>4. speaker \in [Speaker -> SpeakerState] /\ \A s \in Speaker : Shape(speaker[s])
  BY <1>1, <1>3
<1>5. ConnOK(NoConn) /\ NoConn \in ConnState /\ \A s \in Speaker : ~Live(NoConn, s)
  BY NoConnOK DEF ConnOK, Live
<1>6. conn \in [Conn -> ConnState] /\ \A i \in Conn : ConnOK(conn[i]) /\ \A s \in Speaker : ~Live(conn[i], s)
  BY <1>1, <1>5
<1>7. \A s \in Speaker : Served(speaker[s], conn, s, ToSet(speaker[s].accept_queue))
  BY <1>6 DEF Served
<1> QED BY <1>2, <1>4, <1>6, <1>7 DEF Inv, TypeOK

\* Every step keeps the invariant.
LEMMA NextInv ==
    ASSUME Inv, [Next]_vars
    PROVE  Inv'
<1>1. CASE UNCHANGED vars
  BY <1>1 DEF vars, Inv, TypeOK
<1>2. ASSUME NEW s \in Speaker, NEW due \in SUBSET Timers, Poll(s, due) \/ LatePoll(s, due) PROVE Inv'
  <2>1. Adopt(s, Polled(World(s), s, due)) /\ (left' = left \/ Spend("faults"))
    BY <1>2 DEF Poll, LatePoll
  <2>2. left \in Budget
    BY DEF Inv, TypeOK, Budget
  <2>3. left' \in Budget
    BY <2>1, <2>2, SpendOK
  <2> QED BY <2>1, <2>3, PollKeeps
<1>3. ASSUME NEW i \in Conn, NEW s \in Speaker, Deliver(i, s) \/ TransportFails(i, s) \/ LoseReset(i, s) PROVE Inv'
  BY <1>3, DeliverKeeps, TransportFailsKeeps, LoseResetKeeps
<1>4. ASSUME NEW s \in Speaker,
             \/ BeginGracefulRestart(s) \/ FamilyRecovered(s) \/ ShutdownPeer(s)
             \/ EnablePeer(s) \/ ToggleOrigin(s) \/ RequestRouteRefresh(s)
      PROVE  Inv'
  BY <1>4, BeginGracefulRestartKeeps, FamilyRecoveredKeeps, ShutdownPeerKeeps, EnablePeerKeeps,
     ToggleOriginKeeps, RequestRouteRefreshKeeps
<1> QED BY <1>1, <1>2, <1>3, <1>4 DEF Next

\* Whatever is lost, refused, collides or is shut down, and with any number of
\* connections, faults and commands: a connection that is alive at a speaker is its
\* session, its collision candidate or still to be accepted, and a neighbour that is
\* shut down has no session, no connection and no route (teardown, accept_inbound,
\* resolve_collision, shutdown_peer).
THEOREM NothingEverLeftBehind == Spec => []NothingLeftBehind
<1>1. Init => Inv
  BY InitInv
<1>2. Inv /\ [Next]_vars => Inv'
  BY NextInv
<1>3. Inv => NothingLeftBehind
  <2> SUFFICES ASSUME Inv PROVE NothingLeftBehind
    OBVIOUS
  <2>1. LiveIsServed
    BY DEF Inv, Served, LiveIsServed
  <2>2. DownMeansEmpty
    BY DEF Inv, Shape, DownMeansEmpty
  <2> QED BY <2>1, <2>2 DEF Inv, NothingLeftBehind
<1> QED BY <1>1, <1>2, <1>3, PTL DEF Spec
====
