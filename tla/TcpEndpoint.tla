----------------------------- MODULE TcpEndpoint -----------------------------
(***************************************************************************)
(* One TCP endpoint: the struct TcpConnection of src/tcp.rs and its        *)
(* methods, as operators on a record.  Each handler of the code runs to    *)
(* completion on one connection, so it is an operator that returns the     *)
(* connection after the call together with the segments it emitted.        *)
(*                                                                         *)
(* Sequence numbers are unbounded naturals.  The code compares them with   *)
(* 32-bit serial arithmetic; module TcpSeq shows that the two agree while  *)
(* the numbers compared are less than 2^31 apart.                          *)
(*                                                                         *)
(* Time is abstracted: a timer that is armed may be due or not at any      *)
(* call of PollOutput, and the caller says which are (the set due).        *)
(* RFC 7323 timestamps are never enabled by the runtime and are left out.  *)
(***************************************************************************)
EXTENDS Congestion, Sequences, FiniteSets, FiniteSetsExt

CONSTANTS
    Byte,               \* the values a payload byte may have
    RcvCapacity,        \* receive buffer, 65535 in the code
    SndBufferCapacity,  \* SND_BUFFER_CAPACITY
    MaxOooBytes,        \* MAX_OOO_BYTES
    MaxRetransmits,     \* MAX_RETRANSMITS
    MaxSackBlocks,      \* blocks that fit the option, 4 in the code
    DefaultMss          \* the peer's MSS until its SYN says otherwise, 1460

ASSUME EndpointAssumption ==
    /\ RcvCapacity \in Nat \ {0}
    /\ SndBufferCapacity \in Nat \ {0}
    /\ MaxOooBytes \in Nat
    /\ MaxRetransmits \in Nat
    /\ MaxSackBlocks \in Nat
    /\ DefaultMss \in Nat \ {0}

TcpState == {"Closed", "Listen", "SynSent", "SynReceived", "Established",
             "FinWait1", "FinWait2", "CloseWait", "Closing", "LastAck", "TimeWait"}

\* A segment on the wire.  isAck is the ACK flag; mss = 0 and sack = {} stand
\* for an absent option.
Segment ==
    [seq : Nat, ack : Nat, syn : BOOLEAN, isAck : BOOLEAN, fin : BOOLEAN,
     rst : BOOLEAN, wnd : Nat, mss : Nat, sackOk : BOOLEAN,
     sack : SUBSET (Nat \X Nat), data : Seq(Byte)]

\* struct RetransmitSegment, less its clock readings
RetransmitSegment ==
    [seq : Nat, end : Nat, syn : BOOLEAN, isAck : BOOLEAN, fin : BOOLEAN,
     data : Seq(Byte), retransmits : Nat, sacked : BOOLEAN]

\* An element of ooo_segments
OooSegment == [seq : Nat, data : Seq(Byte)]

\* struct TcpConnection.  The retransmission and reassembly queues are sets:
\* the code keeps both ordered by sequence number.  persist says whether
\* persist_deadline_ms is set.
Connection ==
    [state : TcpState, snd_una : Nat, snd_nxt : Nat, snd_wnd : Nat,
     rcv_nxt : Nat, peer_mss : Nat \ {0}, local_mss : Nat \ {0},
     rx : Seq(Byte), tx : Seq(Byte), ooo : SUBSET OooSegment,
     rtq : SUBSET RetransmitSegment, cc : CongestionControl,
     fin_sent : BOOLEAN, fin_received : BOOLEAN, close_requested : BOOLEAN,
     aborted : BOOLEAN, persist : BOOLEAN, last_advertised_wnd : Nat,
     sack_permitted : BOOLEAN]

\* TcpConnection::new_server ("Listen") and new_client ("Closed"), as the socket
\* runtime creates them: local_mss and congestion.mss overwritten, cwnd kept.
NewConnection(state, isn, mss) ==
    [state |-> state, snd_una |-> isn, snd_nxt |-> isn, snd_wnd |-> RcvCapacity,
     rcv_nxt |-> 0, peer_mss |-> DefaultMss, local_mss |-> mss,
     rx |-> <<>>, tx |-> <<>>, ooo |-> {}, rtq |-> {},
     cc |-> [NewCongestion(DefaultMss) EXCEPT !.mss = mss],
     fin_sent |-> FALSE, fin_received |-> FALSE, close_requested |-> FALSE,
     aborted |-> FALSE, persist |-> FALSE, last_advertised_wnd |-> RcvCapacity,
     sack_permitted |-> FALSE]

\* What a handler returns: the connection after it and the segments it emitted.
Result(c, out) == [c |-> c, out |-> out]
Quietly(c) == Result(c, <<>>)

-----------------------------------------------------------------------------
(* Receive side: window, reassembly, acknowledgements *)

\* Mutant: parked bytes are charged to the window.
WndLessParked(c) ==
    Monus(RcvCapacity, Len(c.rx) + MapThenSumSet(LAMBDA s : Len(s.data), c.ooo))

CurrentRcvWnd(c) == Monus(RcvCapacity, Len(c.rx))

EndOf(s) == s.seq + Len(s.data)                  \* of an ooo segment
Covers(s, k) == s.seq <= k /\ k < EndOf(s)

OooBytes(segs) == MapThenSumSet(LAMBDA s : Len(s.data), segs)

BufferOoo(c, seq, data) ==
    LET new  == [seq |-> seq, data |-> data]
        kept == {s \in c.ooo : ~(seq <= s.seq /\ EndOf(s) <= EndOf(new))}
    IN  IF \E s \in c.ooo : s.seq <= seq /\ EndOf(new) <= EndOf(s)
        THEN c
        ELSE IF OooBytes(kept) + Len(data) > MaxOooBytes
             THEN [c EXCEPT !.ooo = kept]
             ELSE [c EXCEPT !.ooo = kept \cup {new}]

\* m is where the contiguous data ends: every position from rcv_nxt up to m is
\* covered by a parked segment, m is not.
ContiguousTo(c, m) ==
    /\ c.rcv_nxt <= m
    /\ ~ \E s \in c.ooo : Covers(s, m)
    /\ \A k \in c.rcv_nxt .. (m - 1) : \E s \in c.ooo : Covers(s, k)

\* Segments are consumed in order of sequence number, so the byte at position k
\* comes from the covering segment that starts first.
ParkedByte(segs, k) ==
    LET s == CHOOSE s \in segs : /\ Covers(s, k)
                                 /\ \A t \in segs : Covers(t, k) => s.seq <= t.seq
    IN  s.data[k - s.seq + 1]

DrainOoo(c) ==
    LET m == CHOOSE m \in {c.rcv_nxt} \cup {EndOf(s) : s \in c.ooo} : ContiguousTo(c, m)
    IN  [c EXCEPT
           !.rx = @ \o [i \in 1 .. (m - c.rcv_nxt) |-> ParkedByte(c.ooo, c.rcv_nxt + i - 1)],
           !.rcv_nxt = m,
           !.ooo = {s \in @ : EndOf(s) > m}]

\* Mutant: the payload is not trimmed to the right edge of the window.
AcceptBeyondWindow(c, seq, data) ==
    LET lo == MaxOf(seq, c.rcv_nxt)
        hi == seq + Len(data)
        fresh == SubSeq(data, lo - seq + 1, hi - seq)
    IN  IF lo >= hi THEN c
        ELSE IF lo = c.rcv_nxt
             THEN DrainOoo([c EXCEPT !.rx = @ \o fresh, !.rcv_nxt = hi])
             ELSE BufferOoo(c, lo, fresh)

\* Mutant: whatever is new is taken as the next bytes of the stream.
AcceptWithGap(c, seq, data) ==
    LET lo == MaxOf(seq, c.rcv_nxt)
        hi == MinOf(seq + Len(data), c.rcv_nxt + CurrentRcvWnd(c))
    IN  IF lo >= hi THEN c
        ELSE DrainOoo([c EXCEPT !.rx = @ \o SubSeq(data, lo - seq + 1, hi - seq),
                                !.rcv_nxt = hi])

\* Trims the payload to the receive window; what is left is empty exactly when
\* one of the code's early returns is taken.
AcceptData(c, seq, data) ==
    LET lo    == MaxOf(seq, c.rcv_nxt)
        hi    == MinOf(seq + Len(data), c.rcv_nxt + CurrentRcvWnd(c))
        fresh == SubSeq(data, lo - seq + 1, hi - seq)
    IN  IF lo >= hi
        THEN c
        ELSE IF lo = c.rcv_nxt
             THEN DrainOoo([c EXCEPT !.rx = @ \o fresh, !.rcv_nxt = hi])
             ELSE BufferOoo(c, lo, fresh)

\* Runs of parked segments in which each begins where the one before it ends,
\* the leftmost MaxSackBlocks of them.
SackBlocks(segs) ==
    LET NextTo(s, t) == /\ s.seq < t.seq
                        /\ \A u \in segs : ~(s.seq < u.seq /\ u.seq < t.seq)
        Joined(s, t) == NextTo(s, t) /\ EndOf(s) = t.seq
        Run(s, t) == /\ s.seq <= t.seq
                     /\ ~ \E u \in segs : Joined(u, s) \/ Joined(t, u)
                     /\ \A u \in segs : s.seq <= u.seq /\ u.seq < t.seq
                                        => \E v \in segs : Joined(u, v)
        blocks == {<<st[1].seq, EndOf(st[2])>> : st \in {x \in segs \X segs : Run(x[1], x[2])}}
    IN  {b \in blocks : Cardinality({d \in blocks : d[1] < b[1]}) < MaxSackBlocks}

SackOption(c) == IF c.sack_permitted THEN SackBlocks(c.ooo) ELSE {}

\* The fields every ACK-bearing segment of a connection shares.
AckSegment(c, seq) ==
    [seq |-> seq, ack |-> c.rcv_nxt, syn |-> FALSE, isAck |-> TRUE, fin |-> FALSE,
     rst |-> FALSE, wnd |-> CurrentRcvWnd(c), mss |-> 0, sackOk |-> FALSE,
     sack |-> {}, data |-> <<>>]

BuildAck(c) ==
    Result([c EXCEPT !.last_advertised_wnd = CurrentRcvWnd(c)],
           <<[AckSegment(c, c.snd_nxt) EXCEPT !.sack = SackOption(c)]>>)

RstAcceptable(c, m) ==
    CASE c.state = "SynSent" -> m.isAck /\ m.ack = c.snd_nxt
      [] c.state \in {"Listen", "Closed"} -> FALSE
      [] OTHER -> /\ m.seq >= c.rcv_nxt
                  /\ m.seq < c.rcv_nxt + MaxOf(CurrentRcvWnd(c), 1)

-----------------------------------------------------------------------------
(* Send side: the retransmission queue *)

RtqEntry(seq, len, syn, isAck, fin, data) ==
    [seq |-> seq, end |-> seq + len, syn |-> syn, isAck |-> isAck, fin |-> fin,
     data |-> data, retransmits |-> 0, sacked |-> FALSE]

TrackForRetransmit(c, e) ==
    [c EXCEPT !.rtq = @ \cup {e}, !.cc = RecordSent(@, e.end - e.seq)]

\* Mutants: an entry that ends where the acknowledgement does is kept; one that
\* starts there is dropped.
RetireLate(rtq, ack) == {e \in rtq : e.end >= ack}
RetireEarly(rtq, ack) == {e \in rtq : e.seq > ack}

RetireAcked(rtq, ack) == {e \in rtq : e.end > ack}

\* Mutant: the congestion controller is not told.
SlideUncharged(c, ack) == [c EXCEPT !.snd_una = ack, !.rtq = RetireAcked(@, ack)]

\* An acknowledgement of new data: slide, release, retire.
SlideTo(c, ack) ==
    [c EXCEPT !.snd_una = ack,
              !.cc = OnAck(@, Monus(ack, c.snd_una)),
              !.rtq = RetireAcked(@, ack)]

First(entries) == CHOOSE e \in entries : \A f \in entries : e.seq <= f.seq

Unsacked(c) == {e \in c.rtq : ~e.sacked}

RetransmitOldest(c) ==
    LET e == First(Unsacked(c))
        m == [AckSegment(c, e.seq) EXCEPT
                !.syn = e.syn, !.isAck = e.isAck, !.fin = e.fin, !.data = e.data,
                !.mss = IF e.syn THEN c.local_mss ELSE 0,
                !.sackOk = e.syn /\ c.sack_permitted,
                !.sack = IF e.syn THEN {} ELSE SackOption(c)]
    IN  IF Unsacked(c) = {} \/ e.retransmits >= MaxRetransmits
        THEN Quietly(c)
        ELSE Result([c EXCEPT !.rtq = (@ \ {e}) \cup {[e EXCEPT !.retransmits = @ + 1]}],
                    <<m>>)

-----------------------------------------------------------------------------
(* Application calls *)

Write(c, data) ==
    [c EXCEPT !.tx = @ \o SubSeq(data, 1, MinOf(Monus(SndBufferCapacity, Len(c.tx)), Len(data)))]

Read(c, n) == [c EXCEPT !.rx = SubSeq(@, n + 1, Len(@))]

\* Mutant: the SYN is not kept for retransmission.
SynUntracked(c) ==
    Result([c EXCEPT !.state = "SynSent", !.snd_nxt = @ + 1, !.cc = RecordSent(@, 1)],
           <<[AckSegment(c, c.snd_nxt) EXCEPT
                !.ack = 0, !.isAck = FALSE, !.syn = TRUE, !.mss = c.local_mss, !.sackOk = TRUE]>>)

InitiateSyn(c) ==
    LET syn == [AckSegment(c, c.snd_nxt) EXCEPT
                  !.ack = 0, !.isAck = FALSE, !.syn = TRUE,
                  !.mss = c.local_mss, !.sackOk = TRUE]
        c1  == [c EXCEPT !.state = "SynSent", !.snd_nxt = @ + 1]
    IN  Result(TrackForRetransmit(c1, RtqEntry(c.snd_nxt, 1, TRUE, FALSE, FALSE, <<>>)),
               <<syn>>)

MayEmitFin(c) == ~c.fin_sent /\ c.state \in {"Established", "CloseWait"}

\* Mutant: the FIN takes no sequence number.
EmitUnnumberedFin(c) ==
    IF MayEmitFin(c)
    THEN Result([c EXCEPT !.state = IF @ = "Established" THEN "FinWait1" ELSE "LastAck",
                          !.fin_sent = TRUE],
                <<[AckSegment(c, c.snd_nxt) EXCEPT !.fin = TRUE]>>)
    ELSE Quietly(c)

EmitFin(c) ==
    LET fin == [AckSegment(c, c.snd_nxt) EXCEPT !.fin = TRUE]
        c1  == [c EXCEPT !.state = IF @ = "Established" THEN "FinWait1" ELSE "LastAck",
                         !.snd_nxt = @ + 1, !.fin_sent = TRUE]
    IN  IF MayEmitFin(c)
        THEN Result(TrackForRetransmit(c1, RtqEntry(c.snd_nxt, 1, FALSE, TRUE, TRUE, <<>>)),
                    <<fin>>)
        ELSE Quietly(c)

InitiateClose(c) ==
    LET c1 == [c EXCEPT !.close_requested = TRUE]
    IN  IF c.state \notin {"Established", "CloseWait"} THEN Quietly(c)
        ELSE IF c.tx = <<>> THEN EmitFin(c1) ELSE Quietly(c1)

-----------------------------------------------------------------------------
(* handle_segment: one operator per arm of the state match *)

\* Mutants: a segment without the MSS option resets the MSS; a SACK block vouches
\* for what lies to its left.
MssAlways(c, m) == [c EXCEPT !.peer_mss = m.mss, !.cc = [@ EXCEPT !.mss = m.mss]]
SackToTheLeft(c, m) ==
    [c EXCEPT
       !.sack_permitted = @ \/ m.sackOk,
       !.rtq = {[e EXCEPT !.sacked = @ \/ \E b \in m.sack : e.end <= b[2]] : e \in @}]

ApplyOptions(c, m) ==
    [c EXCEPT
       !.peer_mss = IF m.mss # 0 THEN m.mss ELSE @,
       !.cc = IF m.mss # 0 THEN [@ EXCEPT !.mss = m.mss] ELSE @,
       !.sack_permitted = @ \/ m.sackOk,
       !.rtq = {[e EXCEPT !.sacked = @ \/ \E b \in m.sack : b[1] <= e.seq /\ e.end <= b[2]]
                  : e \in @}]

OnRst(c, m) ==
    IF RstAcceptable(c, m)
    THEN [c EXCEPT !.state = "Closed", !.rtq = {}, !.tx = <<>>, !.ooo = {}]
    ELSE c

OnListen(c, m) ==
    LET c1 == [c EXCEPT !.rcv_nxt = m.seq + 1, !.snd_wnd = m.wnd,
                        !.snd_nxt = @ + 1, !.state = "SynReceived"]
        synAck == [AckSegment(c1, c.snd_nxt) EXCEPT
                     !.syn = TRUE, !.mss = c.local_mss, !.sackOk = c.sack_permitted]
    IN  IF m.syn
        THEN Result(TrackForRetransmit(c1, RtqEntry(c.snd_nxt, 1, TRUE, TRUE, FALSE, <<>>)),
                    <<synAck>>)
        ELSE Quietly(c)

OnSynSent(c, m) ==
    LET open == [SlideTo(c, m.ack) EXCEPT
                   !.rcv_nxt = m.seq + 1, !.snd_wnd = m.wnd, !.state = "Established"]
        half == [c EXCEPT !.rcv_nxt = m.seq + 1, !.state = "SynReceived"]
    IN  IF m.syn /\ m.isAck
        THEN IF m.ack = c.snd_nxt
             THEN Result(open, <<AckSegment(open, open.snd_nxt)>>)
             ELSE Quietly(c)
        ELSE IF m.syn       \* simultaneous open
             THEN Result(half, <<[AckSegment(half, half.snd_nxt) EXCEPT !.syn = TRUE]>>)
             ELSE Quietly(c)

OnSynReceived(c, m) ==
    LET open == [SlideTo(c, m.ack) EXCEPT !.snd_wnd = m.wnd, !.state = "Established"]
    IN  IF ~(m.isAck /\ m.ack = c.snd_nxt) THEN Quietly(c)
        ELSE IF m.data = <<>> THEN Quietly(open)
        ELSE BuildAck(AcceptData(open, m.seq, m.data))

\* A pure duplicate ACK, which counts only while something is outstanding.
IsDupAck(c, m) ==
    m.ack = c.snd_una /\ m.data = <<>> /\ ~m.syn /\ ~m.fin /\ c.rtq # {}

\* Step 1 of the synchronized arm, for an acceptable acknowledgement.
ProcessAck(c, m) ==
    LET cw == [c EXCEPT !.snd_wnd = m.wnd]
        cd == [cw EXCEPT !.cc = OnDupAck(@)]
    IN  IF ~m.isAck THEN Quietly(c)
        ELSE IF m.ack > c.snd_una THEN Quietly(SlideTo(cw, m.ack))
        ELSE IF ~IsDupAck(c, m) THEN Quietly(cw)
        ELSE IF TriggersFastRetransmit(c.cc) THEN RetransmitOldest(cd)
        ELSE Quietly(cd)

FinSeq(m) == m.seq + (IF m.syn THEN 1 ELSE 0) + Len(m.data)

\* Mutant: a FIN is taken although data before it is missing.
ConsumesAnyFin(c, m) == m.fin /\ ~c.fin_received

ConsumesFin(c, m) == m.fin /\ FinSeq(m) = c.rcv_nxt /\ ~c.fin_received

ConsumeFin(c) ==
    [c EXCEPT !.rcv_nxt = @ + 1, !.fin_received = TRUE,
              !.state = CASE @ = "Established" -> "CloseWait"
                          [] @ = "FinWait1" -> "Closing"
                          [] @ = "FinWait2" -> "TimeWait"
                          [] OTHER -> @]

\* Step 5: the FIN has been acknowledged.
AfterFinAcked(c) ==
    IF c.fin_sent /\ c.snd_una >= c.snd_nxt
    THEN [c EXCEPT !.state = CASE @ = "FinWait1" -> "FinWait2"
                               [] @ = "Closing" -> "TimeWait"
                               [] OTHER -> @]
    ELSE c

\* Established, FinWait1 and FinWait2
OnSynchronized(c, m) ==
    LET a     == ProcessAck(c, m)
        d     == AcceptData(a.c, m.seq, m.data)
        isFin == ConsumesFin(d, m)
        f     == IF isFin THEN ConsumeFin(d) ELSE d
        r     == IF (m.data # <<>> \/ isFin) /\ a.out = <<>>
                 THEN BuildAck(f) ELSE Result(f, a.out)
    IN  IF m.isAck /\ m.ack > c.snd_nxt
        THEN BuildAck(c)
        ELSE Result(AfterFinAcked(r.c), r.out)

OnCloseWait(c, m) ==
    LET c1 == IF m.isAck /\ c.snd_una < m.ack /\ m.ack <= c.snd_nxt
              THEN SlideTo([c EXCEPT !.snd_wnd = m.wnd], m.ack) ELSE c
    IN  IF m.fin THEN BuildAck(c1) ELSE Quietly(c1)

\* Mutant: any acknowledgement is taken for that of the FIN.
OnAnyAck(c, m, next) ==
    IF m.isAck THEN Quietly([SlideTo(c, c.snd_nxt) EXCEPT !.state = next]) ELSE Quietly(c)

\* Closing and LastAck: only an acknowledgement of everything sent counts.
OnFinalAck(c, m, next) ==
    IF m.isAck /\ m.ack >= c.snd_nxt
    THEN Quietly([SlideTo(c, m.ack) EXCEPT !.state = next])
    ELSE Quietly(c)

\* Mutant: a retransmitted FIN is not acknowledged again.
SilentTimeWait(c, m) == Quietly(c)

OnTimeWait(c, m) ==
    IF m.fin THEN Result(c, <<AckSegment(c, c.snd_nxt)>>) ELSE Quietly(c)

HandleSegment(c0, m) ==
    LET c == ApplyOptions(c0, m)
    IN  IF m.rst THEN Quietly(OnRst(c, m))
        ELSE CASE c.state = "Listen" -> OnListen(c, m)
               [] c.state = "SynSent" -> OnSynSent(c, m)
               [] c.state = "SynReceived" -> OnSynReceived(c, m)
               [] c.state \in {"Established", "FinWait1", "FinWait2"} -> OnSynchronized(c, m)
               [] c.state = "CloseWait" -> OnCloseWait(c, m)
               [] c.state = "Closing" -> OnFinalAck(c, m, "TimeWait")
               [] c.state = "LastAck" -> OnFinalAck(c, m, "Closed")
               [] c.state = "TimeWait" -> OnTimeWait(c, m)
               [] c.state = "Closed" -> Quietly(c)

-----------------------------------------------------------------------------
(* poll_output: the periodic pump, one operator per numbered step *)

Timer == {"rto", "persist", "timewait"}

\* The timers that can be due when connection c is polled, old being the
\* connection before this call: one started by the call itself is not due yet.
Armed(c, old) ==
    {t \in Timer :
       CASE t = "rto" -> c.rtq # {} /\ First(c.rtq) \in old.rtq
         [] t = "persist" -> c.persist
         [] t = "timewait" -> c.state = "TimeWait" /\ old.state = "TimeWait"}

Sending(c) == c.state \in {"Established", "CloseWait"}

Available(c) == SendWindowAvailable(c.cc, c.snd_wnd)

\* Steps 1 and 5 put the next n bytes of the send buffer on the wire, in
\* segments of at most size bytes.
Transmit(c, n, size) ==
    LET starts == {o \in 0 .. (n - 1) : o % size = 0}
        Chunk(o) == SubSeq(c.tx, o + 1, MinOf(o + size, n))
        Seg(o) == [AckSegment(c, c.snd_nxt + o) EXCEPT !.data = Chunk(o)]
    IN  Result([c EXCEPT
                  !.tx = SubSeq(@, n + 1, Len(@)),
                  !.snd_nxt = @ + n,
                  !.cc = RecordSent(@, n),
                  !.rtq = @ \cup {RtqEntry(c.snd_nxt + o, Len(Chunk(o)), FALSE, TRUE, FALSE,
                                          Chunk(o)) : o \in starts},
                  !.last_advertised_wnd = CurrentRcvWnd(c)],
               [i \in 1 .. Cardinality(starts) |-> Seg((i - 1) * size)])

SendQueued(c) ==
    LET n == MinOf(Available(c), Len(c.tx))
    IN  IF Sending(c) /\ n > 0 THEN Transmit(c, n, c.peer_mss) ELSE Quietly(c)

DeferredFin(c) ==
    IF c.close_requested /\ c.tx = <<>> THEN EmitFin(c) ELSE Quietly(c)

Exhausted(c) == First(c.rtq).retransmits >= MaxRetransmits

Abort(c) == [c EXCEPT !.aborted = TRUE, !.state = "Closed", !.rtq = {}, !.tx = <<>>]

\* Mutant: the retransmission is counted but never handed to the caller.
SilentTimeout(c) == Quietly(RetransmitOldest([c EXCEPT !.cc = OnTimeout(@)]).c)

Timeout(c) == RetransmitOldest([c EXCEPT !.cc = OnTimeout(@)])

WindowReopened(c) ==
    /\ c.last_advertised_wnd < c.local_mss
    /\ CurrentRcvWnd(c) >= c.local_mss
    /\ c.state \notin {"Closed", "TimeWait"}

Stalled(c) == c.tx # <<>> /\ Available(c) = 0 /\ c.rtq = {}

\* Step 5, for a connection that was sending when the poll began.
Probe(c, wasSending, isDue) ==
    IF ~(wasSending /\ Stalled(c)) THEN Quietly([c EXCEPT !.persist = FALSE])
    ELSE IF c.persist /\ isDue THEN Transmit(c, 1, 1)
    ELSE Quietly([c EXCEPT !.persist = TRUE])

PollOutput(c, due) ==
    LET s1 == SendQueued(c)
        s2 == DeferredFin(s1.c)
        s3 == IF "rto" \in due THEN Timeout(s2.c) ELSE Quietly(s2.c)
        s4 == IF WindowReopened(s3.c) THEN BuildAck(s3.c) ELSE Quietly(s3.c)
        s5 == Probe(s4.c, Sending(c), "persist" \in due)
        c6 == IF "timewait" \in due THEN [s5.c EXCEPT !.state = "Closed"] ELSE s5.c
    IN  IF c.aborted \/ c.state = "Closed" THEN Quietly(c)
        ELSE IF "rto" \in due /\ Exhausted(s2.c)
             THEN Result(Abort(s2.c), s1.out \o s2.out)
             ELSE Result(c6, s1.out \o s2.out \o s3.out \o s4.out \o s5.out)
================================================================================
