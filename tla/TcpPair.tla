------------------------------- MODULE TcpPair -------------------------------
(***************************************************************************)
(* Two hosts that share one TCP connection over a faulty network: each     *)
(* host's SocketRuntime (src/socket.rs) restricted to that connection, the *)
(* TcpConnection it owns (module TcpEndpoint), and the wire between them.  *)
(*                                                                         *)
(* Every handler of the runtime is atomic: the stack is single threaded    *)
(* and driven by its caller.  What interleaves is the applications' calls, *)
(* the arrival of segments, the clock of each host and the faults of the   *)
(* network.                                                                *)
(*                                                                         *)
(* The wire loses, duplicates and reorders.  Each such fault is charged to *)
(* the counter faults, which MaxFaults bounds.  So is a timer that expires *)
(* at the wrong moment: while segments are still under way, or twice in a  *)
(* row while a timer of the other host is running.  A timer that expires   *)
(* in its turn on a quiet wire is free.  MaxFaults bounds how badly the    *)
(* network and the clocks behave, not what the hosts do.                   *)
(***************************************************************************)
EXTENDS TcpEndpoint

CONSTANTS
    Host,           \* the two hosts
    Clients,        \* hosts that connect; the others listen
    Isn,            \* initial sequence number of each host
    LocalMss,       \* MSS each host advertises (default_mss)
    AppData,        \* the bytes each application has to write
    MayClose,       \* hosts whose application may close its direction
    MayAbort,       \* hosts whose application may call tcp_abort
    MaxFaults       \* bound on network faults

ASSUME PairAssumption ==
    /\ Cardinality(Host) = 2 /\ IsFiniteSet(Host)
    /\ Clients \subseteq Host
    /\ Isn \in [Host -> Nat]
    /\ LocalMss \in [Host -> Nat \ {0}]
    /\ AppData \in [Host -> Seq(Byte)]
    /\ MayClose \subseteq Host /\ MayAbort \subseteq Host
    /\ MaxFaults \in Nat

VARIABLES
    conn,       \* conn[h]: the connection record of host h
    slot,       \* slot[h]: where the connection is in h's socket tables
    txq,        \* txq[h]: tcp_tx, segments waiting for the next step_timers
    wire,       \* wire[h]: segments on their way to h, oldest first
    wrote,      \* wrote[h]: how many bytes of AppData[h] tcp_write accepted
    got,        \* got[h]: the bytes tcp_read has returned to h's application
    faults,     \* network faults so far
    lastFired   \* the host whose timer expired last, or "none"

vars == <<conn, slot, txq, wire, wrote, got, faults, lastFired>>

Other(h) == CHOOSE g \in Host : g # h

\* "free": no connection yet; "live": in tcp_connections; "reaped": moved to
\* closed_streams; "released": its handle was released by tcp_abort.
Slot == {"free", "live", "reaped", "released"}

Init ==
    /\ conn = [h \in Host |->
                 NewConnection(IF h \in Clients THEN "Closed" ELSE "Listen", Isn[h], LocalMss[h])]
    /\ slot = [h \in Host |-> "free"]
    /\ txq = [h \in Host |-> <<>>]
    /\ wire = [h \in Host |-> <<>>]
    /\ wrote = [h \in Host |-> 0]
    /\ got = [h \in Host |-> <<>>]
    /\ faults = 0
    /\ lastFired = "none"

Quiet == \A h \in Host : wire[h] = <<>> /\ txq[h] = <<>>

WithinBudget(n) == faults + n <= MaxFaults

ArmedAt(h) == IF slot[h] = "live" THEN Armed(conn[h], conn[h]) ELSE {}

\* What it costs that the timers in due expire at h now.
Charge(h, due) ==
    IF due = {} \/ (Quiet /\ (lastFired # h \/ ArmedAt(Other(h)) = {})) THEN 0 ELSE 1

\* The clock of h moves until the timers in due expire; cost counts the other
\* faults of the same step.
Elapse(h, due, cost) ==
    /\ WithinBudget(cost + Charge(h, due))
    /\ faults' = faults + cost + Charge(h, due)
    /\ lastFired' = IF due = {} THEN lastFired ELSE h

Without(s, i) == SubSeq(s, 1, i - 1) \o SubSeq(s, i + 1, Len(s))

-----------------------------------------------------------------------------
(* Application calls *)

TcpConnect(h) ==
    LET r == InitiateSyn(conn[h])
    IN  /\ h \in Clients /\ slot[h] = "free"
        /\ conn' = [conn EXCEPT ![h] = r.c]
        /\ slot' = [slot EXCEPT ![h] = "live"]
        /\ txq' = [txq EXCEPT ![h] = @ \o r.out]
        /\ UNCHANGED <<wire, wrote, got, faults, lastFired>>

\* n is how much the application offers; the send buffer may take less.
TcpWrite(h, n) ==
    LET c == Write(conn[h], SubSeq(AppData[h], wrote[h] + 1, wrote[h] + n))
    IN  /\ slot[h] = "live"
        /\ Sending(conn[h]) /\ ~conn[h].close_requested
        /\ wrote[h] + n <= Len(AppData[h])
        /\ conn' = [conn EXCEPT ![h] = c]
        /\ wrote' = [wrote EXCEPT ![h] = @ + (Len(c.tx) - Len(conn[h].tx))]
        /\ UNCHANGED <<slot, txq, wire, got, faults, lastFired>>

TcpRead(h, n) ==
    /\ slot[h] \in {"live", "reaped"}
    /\ n <= Len(conn[h].rx)
    /\ conn' = [conn EXCEPT ![h] = Read(@, n)]
    /\ got' = [got EXCEPT ![h] = @ \o SubSeq(conn[h].rx, 1, n)]
    /\ UNCHANGED <<slot, txq, wire, wrote, faults, lastFired>>

\* tcp_read with nothing to return answers Ok(0), end of stream.
ReadsEof(h) ==
    /\ conn[h].rx = <<>>
    /\ \/ slot[h] = "reaped"
       \/ /\ slot[h] = "live" /\ ~conn[h].aborted
          /\ conn[h].fin_received
             \/ conn[h].state \in {"Closed", "TimeWait", "LastAck", "CloseWait"}

\* tcp_close and tcp_shutdown
TcpClose(h) ==
    LET r == InitiateClose(conn[h])
    IN  /\ h \in MayClose /\ slot[h] = "live"
        /\ conn' = [conn EXCEPT ![h] = r.c]
        /\ txq' = [txq EXCEPT ![h] = @ \o r.out]
        /\ UNCHANGED <<slot, wire, wrote, got, faults, lastFired>>

TcpAbort(h) ==
    \E due \in SUBSET ArmedAt(h) :
      LET r   == PollOutput(conn[h], due)
          rst == [AckSegment(r.c, r.c.snd_nxt) EXCEPT !.rst = TRUE, !.wnd = 0]
      IN  /\ h \in MayAbort /\ slot[h] = "live"
          /\ Elapse(h, due, 0)
          /\ conn' = [conn EXCEPT ![h] = r.c]
          /\ slot' = [slot EXCEPT ![h] = "released"]
          /\ txq' = [txq EXCEPT ![h] = @ \o r.out \o
                       (IF r.c.state = "Closed" THEN <<>> ELSE <<rst>>)]
          /\ UNCHANGED <<wire, wrote, got>>

\* tcp_abort of a stream whose connection is gone, and tcp_release, drop the handle.
TcpRelease(h) ==
    /\ h \in MayAbort /\ slot[h] = "reaped"
    /\ slot' = [slot EXCEPT ![h] = "released"]
    /\ UNCHANGED <<conn, txq, wire, wrote, got, faults, lastFired>>

-----------------------------------------------------------------------------
(* Segments and timers *)

\* Mutant: the reset does not take its number from the acknowledgement.
ResetAtZero(m) ==
    IF m.rst THEN <<>>
    ELSE <<[seq |-> 0, ack |-> FinSeq(m) + (IF m.fin THEN 1 ELSE 0),
            syn |-> FALSE, isAck |-> ~m.isAck, fin |-> FALSE, rst |-> TRUE, wnd |-> 0,
            mss |-> 0, sackOk |-> FALSE, sack |-> {}, data |-> <<>>]>>

\* The reply to a segment that no endpoint owns; a reset draws none.
BuildReset(m) ==
    IF m.rst THEN <<>>
    ELSE <<[seq |-> IF m.isAck THEN m.ack ELSE 0,
            ack |-> FinSeq(m) + (IF m.fin THEN 1 ELSE 0),
            syn |-> FALSE, isAck |-> ~m.isAck, fin |-> FALSE, rst |-> TRUE, wnd |-> 0,
            mss |-> 0, sackOk |-> FALSE, sack |-> {}, data |-> <<>>]>>

\* Taking the i-th segment off the wire to h, and putting h's replies on the
\* wire to the other host.
Exchange(h, i, replies) ==
    wire' = [g \in Host |-> IF g = h THEN Without(wire[h], i) ELSE wire[g] \o replies]

\* Delivery out of order costs a fault.
Overtakes(i) == IF i = 1 THEN 0 ELSE 1

\* dispatch_tcp_segment, an existing connection: handle, then pump.
DispatchToConnection(h, i) ==
    /\ slot[h] = "live"
    /\ LET a == HandleSegment(conn[h], wire[h][i])
       IN  \E due \in SUBSET Armed(a.c, conn[h]) :
             LET r == PollOutput(a.c, due)
             IN  /\ Elapse(h, due, Overtakes(i))
                 /\ conn' = [conn EXCEPT ![h] = r.c]
                 /\ Exchange(h, i, a.out \o r.out)
    /\ UNCHANGED <<slot, txq, wrote, got>>

\* dispatch_tcp_segment, a listener takes a SYN.  The application accepts the
\* stream and closes its listener before the connection is gone, so the
\* listener takes one connection.
ToListener(h, m) == slot[h] = "free" /\ h \notin Clients /\ m.syn /\ ~m.isAck

DispatchToListener(h, i) ==
    LET r == HandleSegment(conn[h], wire[h][i])
    IN  /\ ToListener(h, wire[h][i])
        /\ Elapse(h, {}, Overtakes(i))
        /\ conn' = [conn EXCEPT ![h] = r.c]
        /\ slot' = [slot EXCEPT ![h] = "live"]
        /\ Exchange(h, i, r.out)
        /\ UNCHANGED <<txq, wrote, got>>

\* dispatch_tcp_segment, nothing owns the port.
DispatchToNobody(h, i) ==
    /\ slot[h] # "live" /\ ~ToListener(h, wire[h][i])
    /\ Elapse(h, {}, Overtakes(i))
    /\ Exchange(h, i, BuildReset(wire[h][i]))
    /\ UNCHANGED <<conn, slot, txq, wrote, got>>

\* is_reapable; TIME_WAIT that expired has just become Closed
Reapable(c) == c.aborted \/ c.state = "Closed"

\* step_timers: flush tcp_tx, pump the connection, reap it when it is done.
StepTimers(h) ==
    \E due \in SUBSET ArmedAt(h) :
      LET r == IF slot[h] = "live" THEN PollOutput(conn[h], due) ELSE Quietly(conn[h])
      IN  /\ Elapse(h, due, 0)
          /\ conn' = [conn EXCEPT ![h] = r.c]
          /\ slot' = [slot EXCEPT ![h] = IF @ = "live" /\ Reapable(r.c) THEN "reaped" ELSE @]
          /\ txq' = [txq EXCEPT ![h] = <<>>]
          /\ wire' = [wire EXCEPT ![Other(h)] = @ \o txq[h] \o r.out]
          /\ UNCHANGED <<wrote, got>>

-----------------------------------------------------------------------------
(* The network *)

Lose(h, i) ==
    /\ Elapse(h, {}, 1)
    /\ wire' = [wire EXCEPT ![h] = Without(@, i)]
    /\ UNCHANGED <<conn, slot, txq, wrote, got>>

Duplicate(h, i) ==
    /\ Elapse(h, {}, 1)
    /\ wire' = [wire EXCEPT ![h] = Append(@, @[i])]
    /\ UNCHANGED <<conn, slot, txq, wrote, got>>

Next ==
    \E h \in Host :
      \/ TcpConnect(h)
      \/ \E n \in 1 .. Len(AppData[h]) : TcpWrite(h, n)
      \/ \E n \in 1 .. Len(conn[h].rx) : TcpRead(h, n)
      \/ TcpClose(h)
      \/ TcpAbort(h)
      \/ TcpRelease(h)
      \/ StepTimers(h)
      \/ \E i \in DOMAIN wire[h] : DispatchToConnection(h, i)
      \/ \E i \in DOMAIN wire[h] : DispatchToListener(h, i)
      \/ \E i \in DOMAIN wire[h] : DispatchToNobody(h, i)
      \/ \E i \in DOMAIN wire[h] : Lose(h, i)
      \/ \E i \in DOMAIN wire[h] : Duplicate(h, i)

Spec == Init /\ [][Next]_vars

\* The state in which a clean three-way handshake from client k leaves the hosts,
\* for the questions that are about the data phase and the close.
EstablishedInit(k) ==
    LET o == Other(k)
        a == InitiateSyn(NewConnection("Closed", Isn[k], LocalMss[k]))
        b == HandleSegment(NewConnection("Listen", Isn[o], LocalMss[o]), a.out[1])
        d == HandleSegment(a.c, b.out[1])
        e == HandleSegment(b.c, d.out[1])
    IN  /\ conn = [h \in Host |-> IF h = k THEN d.c ELSE e.c]
        /\ slot = [h \in Host |-> "live"]
        /\ txq = [h \in Host |-> <<>>]
        /\ wire = [h \in Host |-> <<>>]
        /\ wrote = [h \in Host |-> 0]
        /\ got = [h \in Host |-> <<>>]
        /\ faults = 0
        /\ lastFired = "none"

EstablishedSpec == (\E k \in Clients : EstablishedInit(k)) /\ [][Next]_vars

\* The oldest segment on the wire to h arrives.
Arrival(h) ==
    \/ DispatchToConnection(h, 1)
    \/ DispatchToListener(h, 1)
    \/ DispatchToNobody(h, 1)

\* step_timers at h would change something: there is a segment to flush, a
\* connection to pump or to reap, or the wire is quiet and a timer is running.
HasWork(h) ==
    LET c == conn[h]
    IN  \/ txq[h] # <<>>
        \/ /\ slot[h] = "live"
           /\ \/ Reapable(c) \/ WindowReopened(c)
              \/ Sending(c) /\ c.tx # <<>> /\ (Available(c) > 0 \/ (c.rtq = {} /\ ~c.persist))
              \/ c.close_requested /\ c.tx = <<>> /\ MayEmitFin(c)
              \/ Quiet /\ Armed(c, c) # {}

\* The caller advances both clocks for ever, and the wire delivers what it does
\* not lose.  Nothing is assumed of the applications.  Both conjuncts are weak
\* fairness of an action with its enabling condition written out.
Fairness ==
    \A h \in Host :
      /\ []<>(~HasWork(h)) \/ []<><<StepTimers(h)>>_vars
      /\ []<>(wire[h] = <<>>) \/ []<><<wire[h] # <<>> /\ Arrival(h)>>_vars

FairSpec == Spec /\ Fairness

FairEstablishedSpec == EstablishedSpec /\ Fairness

-----------------------------------------------------------------------------
(* Properties *)

\* Every variable holds a value of its type; in particular no queue, window or
\* counter of a connection ever leaves the naturals.
TypeOK ==
    /\ conn \in [Host -> Connection]
    /\ slot \in [Host -> Slot]
    /\ txq \in [Host -> Seq(Segment)]
    /\ wire \in [Host -> Seq(Segment)]
    /\ wrote \in [Host -> Nat]
    /\ got \in [Host -> Seq(Byte)]
    /\ faults \in 0 .. MaxFaults
    /\ lastFired \in Host \cup {"none"}

\* Every byte h has received so far, read by its application or not.
Received(h) == got[h] \o conn[h].rx

\* What h's application has written so far.
Written(h) == SubSeq(AppData[h], 1, wrote[h])

Open(h) == slot[h] = "live" /\ conn[h].state # "Closed"

\* The first position h will not take from its peer.
RightEdge(h) == conn[h].rcv_nxt + CurrentRcvWnd(conn[h])

\* accept_data, buffer_ooo and drain_ooo together: under loss, duplication,
\* reordering and window trimming, what a host has received is a prefix of what
\* the other application wrote, byte for byte.
StreamIntegrity ==
    \A h \in Host :
      /\ Len(Received(h)) <= wrote[Other(h)]
      /\ Received(h) = SubSeq(AppData[Other(h)], 1, Len(Received(h)))

\* bytes_in_flight, which gates transmission, is exactly the unacknowledged
\* sequence space: no path charges a byte twice or forgets to release one.
InFlightExact ==
    \A h \in Host :
      slot[h] = "live" /\ conn[h].state \notin {"Closed", "TimeWait"}
        => conn[h].snd_una + conn[h].cc.in_flight = conn[h].snd_nxt

\* Every unacknowledged sequence number, SYN and FIN included, is in exactly one
\* entry of the retransmission queue, so that it can be resent.
OutstandingTracked ==
    \A h \in Host : Open(h) =>
      \A k \in conn[h].snd_una .. (conn[h].snd_nxt - 1) :
        Cardinality({e \in conn[h].rtq : e.seq <= k /\ k < e.end}) = 1

\* No segment on the wire occupies sequence space that its sender has not
\* accounted for in snd_nxt, and so is not tracking.
SentIsAccounted ==
    \A h \in Host : \A i \in DOMAIN wire[h] :
      LET m == wire[h][i]
      IN  m.rst \/ FinSeq(m) + (IF m.fin THEN 1 ELSE 0) <= conn[Other(h)].snd_nxt

\* A sender retires only what its peer really received.
AckedIsReceived ==
    \A h \in Host :
      conn[h].snd_una > Isn[h] => conn[h].snd_una <= conn[Other(h)].rcv_nxt

\* The send side of a connection, its retransmission queue, what it has on the wire
\* and what its peer received fit together: nothing sent is untracked, and nothing
\* is retired that did not arrive (track_for_retransmit, emit_fin, the ACK arms).
SendSideExact == OutstandingTracked /\ SentIsAccounted /\ AckedIsReceived

\* A segment marked sacked, which the sender will not resend, is held by the
\* receiver: the receiver never drops parked data it has reported.
SackedIsHeld ==
    \A h \in Host :
      LET o == conn[Other(h)]
      IN  Open(Other(h)) =>
            \A e \in conn[h].rtq : e.sacked =>
              \A k \in e.seq .. (e.end - 1) :
                k < o.rcv_nxt \/ \E s \in o.ooo : Covers(s, k)

\* poll_output watches the first entry of the retransmission queue and
\* retransmit_oldest resends the first unsacked one.  They are the same entry:
\* otherwise the watched one would time out for ever without being resent.
OldestNotSacked ==
    \A h \in Host : conn[h].rtq # {} => ~First(conn[h].rtq).sacked

\* Selective acknowledgement is sound: what is not resent is held, and the entry
\* that is watched is the one that is resent (handle_segment_at, retransmit_oldest).
SackSound == SackedIsHeld /\ OldestNotSacked

\* Draining the reassembly queue never overfills the receive buffer, although
\* parked bytes are not counted when the window is computed.
ReceiveBounded ==
    \A h \in Host :
      /\ Len(conn[h].rx) <= RcvCapacity
      /\ \A s \in conn[h].ooo : EndOf(s) <= RightEdge(h)

\* A receiver never takes back window it has offered.
WindowNeverShrinks ==
    [][\A h \in Host :
         conn[h].state \notin {"Closed", "Listen", "SynSent"} => RightEdge(h)' >= RightEdge(h)]_vars

\* All that h sent, its FIN included, has been acknowledged.
Confirmed(h) == conn[h].fin_sent /\ conn[h].snd_una = conn[h].snd_nxt

\* What poll_output says where it gives up, "The peer is unreachable. Abort rather
\* than retransmit forever" (tcp.rs:1836): the network failed the connection at least
\* MaxRetransmits times.  The code does not keep to it when a connection is closed
\* with data in flight: LAST_ACK and CLOSING ignore an ACK of the data alone, and
\* CLOSE_WAIT does not acknowledge data again.
NoSpuriousAbort ==
    \A h \in Host : conn[h].aborted => faults >= MaxRetransmits

\* tcp_read reports end of stream only when the peer's FIN has been received and
\* all its data delivered.
EofIsEndOfStream ==
    \A h \in Host : ReadsEof(h) => conn[h].fin_received /\ got[h] = Written(Other(h))

\* What an application has written reaches the other host, unless one of the two
\* aborts the connection.
EventuallyDelivered ==
    \A h \in Host : \A n \in 1 .. Len(AppData[h]) :
      wrote[h] >= n
        ~> Len(Received(Other(h))) >= n \/ "released" \in {slot[h], slot[Other(h)]}

\* An active open completes.
EventuallyConnected ==
    \A h \in Clients : conn[h].state = "SynSent" ~> conn[h].state = "Established"

\* The peer has acknowledged all that h's application wrote.
DataAcknowledged(h) == conn[h].snd_una > Isn[h] + wrote[h]

\* Once both applications have closed and what they wrote has been acknowledged, so
\* that only the FINs are open, both connections are reclaimed and neither gives up.
\* A connection closed with data still in flight may give up: NoSpuriousAbort.
EventuallyTornDown ==
    (\A h \in Host : conn[h].close_requested /\ DataAcknowledged(h))
      ~> (\A h \in Host : slot[h] = "reaped" /\ ~conn[h].aborted)

\* An aborted connection does not linger at the other host while anything of its
\* own is outstanding there: the reset, or the reset that answers a
\* retransmission when the first one was lost, closes it before it gives up.
AbortReachesPeer ==
    \A h \in Host :
      LET o == Other(h)
      IN  slot[h] = "released" /\ slot[o] = "live" /\ conn[o].rtq # {}
            ~> ~conn[o].aborted /\ (slot[o] # "live" \/ conn[o].rtq = {})
================================================================================
