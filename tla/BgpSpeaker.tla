----------------------------- MODULE BgpSpeaker -----------------------------
(***************************************************************************)
(* One BGP speaker with one configured neighbour (bgp_router.rs), as       *)
(* functions from worlds to worlds.  A world w is what one call of the     *)
(* router can read and change: the speaker's own state w.p and the TCP     *)
(* connections w.c.  The TCP stack is the one TcpEndpoint and SocketTables *)
(* model; here a connection is its two ends and the segments under way.    *)
(*                                                                         *)
(* One address family and one prefix per speaker stand for the tables: the *)
(* retention, purge and refresh code treats the families alike and the     *)
(* prefixes one by one.  route is the neighbour's prefix in Adj-RIB-In:    *)
(* "new", or "old" when received_at_ms is before                           *)
(* graceful_restart_refresh_started_ms or there is no such time yet.       *)
(***************************************************************************)
EXTENDS Naturals, SequencesExt

CONSTANTS Low, High,   \* the two speakers; High has the higher BGP identifier
          MaxConns     \* bound: connections that exist at one time

Speaker == {Low, High}
Conn == 1..MaxConns
None == 0

ASSUME SpeakerAssumption == Low # High /\ MaxConns \in Nat

Peer(s) == IF s = Low THEN High ELSE Low

Session == {"OpenSent", "OpenConfirm", "Established"}
State == {"Idle", "Connect", "Active"} \cup Session
Update == {"ANNOUNCE", "WITHDRAW", "EOR", "BORR", "EORR"}
Message == {"OPEN", "OPEN_RESTARTING", "KEEPALIVE", "REFRESH", "CEASE", "HOLD_EXPIRED", "FSM_ERROR"} \cup Update
Segment == {"SYN", "SYN_ACK", "ACK", "RST"} \cup Message

SpeakerState ==
    [mode: {"Active", "Passive"}, listening: BOOLEAN, admin_up: BOOLEAN, state: State, stream: Conn \cup {None},
     stream_inbound: BOOLEAN, collision: Conn \cup {None}, accept_queue: Seq(Conn), retry: BOOLEAN,
     originated: BOOLEAN, adj_rib_out: BOOLEAN, route: {"none", "old", "new"}, stale: BOOLEAN,
     restarting: BOOLEAN, recovery_pending: BOOLEAN, eor_pending: BOOLEAN,
     refresh_pending: BOOLEAN, refresh_inbound: BOOLEAN, refresh_stale: BOOLEAN]

NewSpeaker(mode) ==
    [mode |-> mode, listening |-> FALSE, admin_up |-> TRUE, state |-> "Idle", stream |-> None,
     stream_inbound |-> FALSE, collision |-> None, accept_queue |-> <<>>, retry |-> FALSE,
     originated |-> TRUE, adj_rib_out |-> FALSE, route |-> "none", stale |-> FALSE,
     restarting |-> FALSE, recovery_pending |-> FALSE, eor_pending |-> FALSE,
     refresh_pending |-> FALSE, refresh_inbound |-> FALSE, refresh_stale |-> FALSE]

-----------------------------------------------------------------------------
(* A TCP connection.  end[s] is "none" before the connection exists at s,    *)
(* "syn" while its handshake runs, "up", and "gone" once it was aborted or    *)
(* reset.  wire[s] is under way to s, received[s] waits for s to read it.     *)

ConnState == [opener: Speaker, end: [Speaker -> {"none", "syn", "up", "gone"}],
              wire: [Speaker -> Seq(Segment)], received: [Speaker -> Seq(Message)]]

NoConn == [opener |-> Low, end |-> [s \in Speaker |-> "none"],
           wire |-> [s \in Speaker |-> <<>>], received |-> [s \in Speaker |-> <<>>]]

Send(k, s, seg) == [k EXCEPT !.wire[Peer(s)] = Append(@, seg)]

\* Whatever reaches an end that is gone draws a RST; one segment is as good as many.
Settled(k) ==
    [k EXCEPT !.wire = [s \in Speaker |->
        IF k.end[s] # "gone" THEN k.wire[s]
        ELSE IF k.end[Peer(s)] = "gone" \/ ToSet(k.wire[s]) \subseteq {"RST"} THEN <<>> ELSE <<"ACK">>]]

\* tcp_connect_from: the SYN leaves, the other side has nothing yet.
Opened(s) == Send([NoConn EXCEPT !.opener = s, !.end[s] = "syn"], s, "SYN")

\* tcp_is_live
Live(k, s) == k.end[s] \in {"syn", "up"}

Gone(k, s) == [k EXCEPT !.end[s] = "gone", !.received[s] = <<>>]

\* tcp_abort: what was written is flushed, then a RST tells the peer.
Abort(k, s) == IF Live(k, s) THEN Send(Gone(k, s), s, "RST") ELSE Gone(k, s)

\* A segment reaches a host that has no connection for it.
Reset(k, s, seg) == IF seg = "RST" THEN k ELSE Send(k, s, "RST")

\* Mutant: the acknowledgement that ends the handshake is taken for data.
NeverEnds(seg) == FALSE

EndsHandshake(seg) == seg = "ACK"

\* dispatch_tcp_segment at s for the segment at the head of the wire.
Arrive(k, s, listening) ==
    LET seg == Head(k.wire[s])
        r == [k EXCEPT !.wire[s] = Tail(@)]
    IN  CASE k.end[s] = "none" /\ seg = "SYN" /\ listening ->
               Send([r EXCEPT !.end[s] = "syn"], s, "SYN_ACK")
          [] k.end[s] = "none" /\ ~(seg = "SYN" /\ listening) -> Gone(Reset(r, s, seg), s)
          [] k.end[s] = "gone" -> Reset(r, s, seg)
          [] Live(k, s) /\ seg = "RST" -> Gone(r, s)
          [] Live(k, s) /\ seg = "SYN_ACK" -> Send([r EXCEPT !.end[s] = "up"], s, "ACK")
          [] Live(k, s) /\ EndsHandshake(seg) -> [r EXCEPT !.end[s] = "up"]
          [] OTHER -> [r EXCEPT !.received[s] = Append(@, seg)]
-----------------------------------------------------------------------------
(* Teardown and graceful restart.                                            *)

AbortIn(c, s, i) == IF i = None THEN c ELSE [c EXCEPT ![i] = Abort(@, s)]

\* purge_graceful_restart_stale_family
Purged(route) == IF route = "old" THEN "none" ELSE route

\* Mutant: the restart ends and the routes it retained stay.
FlushedFlagOnly(p) == [p EXCEPT !.stale = FALSE]

\* flush_graceful_restart
Flushed(p) == [p EXCEPT !.route = Purged(@), !.stale = FALSE]

\* send_pdu, for one message and for several: nothing is sent on a connection that is
\* not established (tcp_write).
Writable(w, s) == w.p.stream # None /\ w.c[w.p.stream].end[s] = "up"

SendPdu(w, s, m) ==
    IF Writable(w, s) THEN [w EXCEPT !.c[w.p.stream] = Send(@, s, m)] ELSE w

SendPdus(w, s, ms) ==
    IF Writable(w, s) THEN [w EXCEPT !.c[w.p.stream].wire[Peer(s)] = @ \o ms] ELSE w

\* A protocol error or an administrative shutdown is announced before the connection goes.
Notify(w, s, why) ==
    IF why \in {"CEASE", "HOLD_EXPIRED", "FSM_ERROR"} THEN SendPdu(w, s, why) ELSE w

\* The routes of the neighbour are retained for a second transport loss within one
\* restart, and for the first one of an established session.
Retains(p, why) == why = "transport" /\ (p.stale \/ p.state = "Established")

\* Mutant: Adj-RIB-Out survives the session.
ClearedButOut(p) ==
    [p EXCEPT !.stream = None, !.collision = None, !.state = "Idle", !.stream_inbound = FALSE,
              !.refresh_pending = FALSE, !.refresh_inbound = FALSE, !.refresh_stale = FALSE, !.retry = TRUE]

\* What teardown resets whatever the reason.
Cleared(p) ==
    [p EXCEPT !.stream = None, !.collision = None, !.state = "Idle", !.stream_inbound = FALSE,
              !.adj_rib_out = FALSE, !.refresh_pending = FALSE, !.refresh_inbound = FALSE,
              !.refresh_stale = FALSE, !.retry = TRUE]

\* teardown: why is "transport", "notified", or the NOTIFICATION this side sends.
Teardown(w, s, why) ==
    LET p == w.p
        n == Notify(w, s, why)
        retain == Retains(p, why)
        route == IF ~retain THEN "none"
                 ELSE IF p.stale \/ p.route = "none" THEN p.route ELSE "old"
    IN  [c |-> AbortIn(AbortIn(n.c, s, p.stream), s, p.collision),
         p |-> [Cleared(p) EXCEPT !.route = route, !.stale = retain]]

\* reconcile_graceful_restart_open: both sides offer RFC 4724, so only the neighbour's
\* Restart State decides; the time it is seen at is the cutoff between old and new.
Reconciled(p, open) ==
    IF ~p.stale THEN p
    ELSE IF open = "OPEN" THEN Flushed(p)
    ELSE [p EXCEPT !.route = IF @ = "none" THEN @ ELSE "old"]

\* complete_graceful_restart_family
EndOfRib(p) == IF p.stale THEN Flushed(p) ELSE p

\* maybe_finish_local_graceful_restart
FinishRestart(p) ==
    IF p.restarting /\ ~p.recovery_pending /\ ~(p.admin_up /\ p.eor_pending)
    THEN [p EXCEPT !.restarting = FALSE, !.eor_pending = FALSE] ELSE p

\* expire_local_graceful_restart
ExpireLocalRestart(p) ==
    [p EXCEPT !.restarting = FALSE, !.recovery_pending = FALSE, !.eor_pending = FALSE]
-----------------------------------------------------------------------------
(* The connections of a peer: accept_inbound and connection collision.       *)

\* accept_inbound for one accepted connection.
AcceptOne(w, s, i) ==
    LET p == w.p
    IN  CASE p.admin_up /\ p.stream = None /\ p.state \in {"Idle", "Active"} ->
               [w EXCEPT !.p.stream = i, !.p.stream_inbound = TRUE, !.p.state = "Active", !.p.retry = TRUE]
          [] p.admin_up /\ p.stream # None /\ p.collision = None /\ p.state # "Established" ->
               [w EXCEPT !.p.collision = i]
          [] OTHER -> [w EXCEPT !.c[i] = Abort(@, s)]

AcceptInbound(w, s) ==
    LET queue == w.p.accept_queue
        after[n \in 0 .. Len(queue)] ==
            IF n = 0 THEN [w EXCEPT !.p.accept_queue = <<>>] ELSE AcceptOne(after[n - 1], s, queue[n])
    IN  after[Len(queue)]

\* The connection the peer opened survives when this speaker opened the other one and
\* has the lower identifier.
KeepInbound(p, s) == ~p.stream_inbound /\ s = Low

\* Mutant: the connection that lost is forgotten instead of aborted.
LoserForgotten(w, s) ==
    LET p == w.p
    IN  IF KeepInbound(p, s)
        THEN [w EXCEPT !.p = [p EXCEPT !.collision = None, !.stream = p.collision,
                                       !.stream_inbound = TRUE, !.state = "Active", !.retry = TRUE]]
        ELSE [w EXCEPT !.p.collision = None]

\* Mutant: the adopted connection goes on in the state of the one it replaces.
AdoptedInPlace(w, s) ==
    LET p == w.p
        i == p.collision
    IN  IF KeepInbound(p, s)
        THEN [c |-> AbortIn(w.c, s, p.stream),
              p |-> [p EXCEPT !.collision = None, !.stream = i, !.stream_inbound = TRUE]]
        ELSE [c |-> AbortIn(w.c, s, i), p |-> [p EXCEPT !.collision = None]]

\* resolve_collision
ResolveCollision(w, s) ==
    LET p == w.p
        i == p.collision
    IN  IF KeepInbound(p, s)
        THEN [c |-> AbortIn(w.c, s, p.stream),
              p |-> [p EXCEPT !.collision = None, !.stream = i, !.stream_inbound = TRUE,
                              !.state = "Active", !.retry = TRUE]]
        ELSE [c |-> AbortIn(w.c, s, i), p |-> [p EXCEPT !.collision = None]]

\* service_collision: nothing is decided before the peer's OPEN is there to be read, and
\* a connection that leads with anything else is dropped.
ServiceCollision(w, s) ==
    LET i == w.p.collision
        got == w.c[i].received[s]
        opens == Head(got) \in {"OPEN", "OPEN_RESTARTING"}
    IN  CASE i = None -> w
          [] i # None /\ ~Live(w.c[i], s) -> [w EXCEPT !.p.collision = None]
          [] i # None /\ Live(w.c[i], s) /\ got = <<>> -> w
          [] i # None /\ Live(w.c[i], s) /\ got # <<>> /\ opens -> ResolveCollision(w, s)
          [] i # None /\ Live(w.c[i], s) /\ got # <<>> /\ ~opens ->
               [c |-> AbortIn(w.c, s, i), p |-> [w.p EXCEPT !.collision = None]]
-----------------------------------------------------------------------------
(* The peer's state machine.                                                 *)

FreeConns(c) == {i \in Conn : c[i] = NoConn}

\* dial: without a connection to be had, the speaker waits and tries again.
Dial(w, s) ==
    LET i == CHOOSE j \in FreeConns(w.c) : \A k \in FreeConns(w.c) : j <= k
    IN  IF FreeConns(w.c) = {} THEN [w EXCEPT !.p.state = "Active", !.p.retry = TRUE]
        ELSE [c |-> [w.c EXCEPT ![i] = Opened(s)],
              p |-> [w.p EXCEPT !.stream = i, !.stream_inbound = FALSE, !.state = "Connect", !.retry = TRUE]]

\* start_peer
StartPeer(w, s, due) ==
    CASE w.p.retry /\ "retry" \notin due -> w
      [] (~w.p.retry \/ "retry" \in due) /\ w.p.mode = "Active" -> Dial(w, s)
      [] OTHER -> [w EXCEPT !.p.state = "Active", !.p.retry = TRUE]

\* send_open
SendOpen(w, s) ==
    LET open == IF w.p.restarting THEN "OPEN_RESTARTING" ELSE "OPEN"
        v == SendPdu(w, s, open)
    IN  [v EXCEPT !.p.state = "OpenSent", !.p.retry = FALSE]

\* progress_transport: a passive neighbour whose timer fires just arms it again.
ProgressTransport(w, s, due) ==
    LET i == w.p.stream
    IN  CASE i = None /\ w.p.mode = "Active" /\ (~w.p.retry \/ "retry" \in due) -> Dial(w, s)
          [] i # None /\ w.c[i].end[s] = "up" -> SendOpen(w, s)
          [] i # None /\ w.c[i].end[s] # "up" /\ w.p.retry /\ "retry" \in due -> Teardown(w, s, "transport")
          [] OTHER -> w

\* import_update and the ROUTE-REFRESH subtypes of handle_pdu, in Established.
Import(p, m) ==
    CASE m = "ANNOUNCE" -> [p EXCEPT !.route = "new", !.refresh_stale = FALSE]
      [] m = "WITHDRAW" -> [p EXCEPT !.route = "none"]
      [] m = "EOR" -> EndOfRib(p)
      [] m = "BORR" -> [p EXCEPT !.refresh_inbound = TRUE, !.refresh_stale = p.route # "none"]
      [] m = "EORR" ->
           IF ~p.refresh_inbound THEN p
           ELSE [p EXCEPT !.refresh_inbound = FALSE, !.refresh_stale = FALSE,
                          !.route = IF p.refresh_stale THEN "none" ELSE @]
      [] OTHER -> p

\* handle_pdu
HandlePdu(w, s, m) ==
    LET p == w.p
    IN  CASE p.state = "OpenSent" /\ m \in {"OPEN", "OPEN_RESTARTING"} ->
               LET v == SendPdu(w, s, "KEEPALIVE")
               IN  [v EXCEPT !.p = [Reconciled(p, m) EXCEPT !.state = "OpenConfirm"]]
          [] p.state = "OpenConfirm" /\ m = "KEEPALIVE" -> [w EXCEPT !.p.state = "Established"]
          [] p.state = "Established" /\ m = "KEEPALIVE" -> w
          [] p.state = "Established" /\ m \in Update -> [w EXCEPT !.p = Import(p, m)]
          [] p.state = "Established" /\ m = "REFRESH" -> [w EXCEPT !.p.refresh_pending = TRUE]
          [] m \in {"CEASE", "HOLD_EXPIRED", "FSM_ERROR"} -> Teardown(w, s, "notified")
          [] OTHER -> Teardown(w, s, "FSM_ERROR")

\* The messages that were delivered, one by one until one of them ends the session.
Read(w, s) ==
    LET i == w.p.stream
        got == w.c[i].received[s]
        after[n \in 0 .. Len(got)] ==
            IF n = 0 THEN [w EXCEPT !.c[i].received[s] = <<>>]
            ELSE IF after[n - 1].p.stream = i THEN HandlePdu(after[n - 1], s, got[n]) ELSE after[n - 1]
    IN  after[Len(got)]

\* Mutant: nothing looks at the hold timer.
NoHoldTimer(w, s, due) == Read(w, s)

\* run_session: everything that was delivered, then the hold timer, which any of these
\* messages would have armed again.
RunSession(w, s, due) ==
    LET i == w.p.stream
        v == Read(w, s)
    IN  IF v.p.stream = i /\ w.c[i].received[s] = <<>> /\ "hold" \in due THEN Teardown(v, s, "HOLD_EXPIRED") ELSE v

\* service_peer, once a collision was looked at.
ServiceTransport(w, s, due) ==
    LET p == w.p
    IN  IF p.stream # None /\ ~Live(w.c[p.stream], s) THEN Teardown(w, s, "transport")
        ELSE CASE p.state = "Idle" -> StartPeer(w, s, due)
               [] p.state \in {"Connect", "Active"} -> ProgressTransport(w, s, due)
               [] OTHER -> RunSession(w, s, due)

\* service_peer.  The desynchronised stream it resets first needs a partial write,
\* which send_pdu excludes.  A connection that was just adopted has its timer set anew.
ServicePeer(w, s, due) ==
    LET v == ServiceCollision(w, s)
    IN  CASE ~w.p.admin_up /\ w.p.state = "Idle" -> w
          [] ~w.p.admin_up /\ w.p.state # "Idle" -> Teardown(w, s, "transport")
          [] w.p.admin_up -> ServiceTransport(v, s, IF v.p.stream = w.p.stream THEN due ELSE {})
-----------------------------------------------------------------------------
(* Advertisement: what differs, all of it between BoRR and EoRR in a refresh,  *)
(* and the End-of-RIB marker of a local restart after it.                      *)

Differences(p) ==
    (IF p.adj_rib_out /\ ~p.originated THEN <<"WITHDRAW">> ELSE <<>>) \o
    (IF p.originated /\ (p.refresh_pending \/ ~p.adj_rib_out) THEN <<"ANNOUNCE">> ELSE <<>>)

\* advertise_to_peer, send_enhanced_refresh_eorrs and send_local_restart_eors.
Advertisements(p) ==
    (IF p.refresh_pending THEN <<"BORR">> ELSE <<>>) \o Differences(p) \o
    (IF p.refresh_pending THEN <<"EORR">> ELSE <<>>) \o
    (IF p.eor_pending THEN <<"EOR">> ELSE <<>>)

Advertise(w, s) ==
    IF w.p.state # "Established" THEN w
    ELSE LET v == SendPdus(w, s, Advertisements(w.p))
         IN  [v EXCEPT !.p.adj_rib_out = w.p.originated, !.p.refresh_pending = FALSE,
                       !.p.eor_pending = FALSE]

\* Mutant: a neighbour that is back is given all the time it wants.
ExpireWhileDown(p, due) ==
    IF "restart" \in due /\ p.stale /\ p.state # "Established" THEN Flushed(p) ELSE p

\* expire_graceful_restarts
ExpireRestarts(p, due) == IF "restart" \in due /\ p.stale THEN Flushed(p) ELSE p

\* poll: due is the set of timers that have run out by now.
Polled(w, s, due) ==
    LET started == [w EXCEPT !.p = IF "local" \in due THEN ExpireLocalRestart(@) ELSE @,
                             !.p.listening = TRUE]
        accepted == AcceptInbound(started, s)
        served == ServicePeer(accepted, s, IF accepted.p.stream = w.p.stream THEN due ELSE {})
        expired == [served EXCEPT !.p = ExpireRestarts(@, due)]
        told == Advertise(expired, s)
    IN  [told EXCEPT !.p = FinishRestart(@)]
=============================================================================
