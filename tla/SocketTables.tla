---------------------------- MODULE SocketTables ----------------------------
(***************************************************************************)
(* The tables of one host's SocketRuntime (src/socket.rs): UDP sockets,    *)
(* TCP listeners with their accept queues, stream handles, the connections *)
(* they own, and the bounded history of finished streams.                  *)
(*                                                                         *)
(* A connection is reduced to the part the tables look at: how far its     *)
(* life has come, and how many received bytes nobody has read.  What a     *)
(* connection does inside a stage is module TcpEndpoint; what the queues   *)
(* tcp_tx and udp_tx carry to the wire is module TcpPair.  The local       *)
(* address is one address: a key is a local port and a remote address.     *)
(***************************************************************************)
EXTENDS Naturals, Sequences, FiniteSets, TLC, SequencesExt

CONSTANTS
    MaxId,          \* bound on next_socket_id
    ListenPort,     \* ports an application binds or listens on by number
    EphLow, EphHigh,\* the ephemeral range, 49152..65535 in the code
    Remote,         \* remote addresses (ip and port)
    Backlog,        \* backlog of a listener, 128 in the code
    MaxHistory,     \* MAX_CLOSED_STREAM_HISTORY, 256 in the code
    MaxBytes        \* bound on the bytes one connection or socket receives

ASSUME TablesAssumption ==
    /\ MaxId \in Nat /\ MaxBytes \in Nat
    /\ EphLow \in Nat \ {0} /\ EphHigh \in Nat /\ EphLow <= EphHigh
    /\ ListenPort \subseteq Nat \ {0}
    /\ Backlog \in Nat \ {0} /\ MaxHistory \in Nat \ {0}
    /\ "nobody" \notin Remote

Handle == 1 .. MaxId
RemoteSymmetry == Permutations(Remote)
Ephemeral == EphLow .. EphHigh
Port == ListenPort \cup Ephemeral
Key == [port : Port, remote : Remote]
NoKey == [port |-> 0, remote |-> "nobody"]

\* "none": the key is not in tcp_connections.  "opening": SYN_SENT or
\* SYN_RECEIVED.  "open": the peer may still send.  "eof": the peer's FIN has
\* been received.  "done" and "aborted": is_reapable holds, and aborted is set
\* in the second.
Stage == {"none", "opening", "open", "eof", "done", "aborted"}
Reapable == {"done", "aborted"}

VARIABLES
    nextId,         \* next_socket_id
    nextPort,       \* next_ephemeral_port
    udp,            \* udp_sockets: port (0: no socket) and queued datagrams
    udpPorts,       \* udp_port_map: handle of a port, 0 when free
    listeners,      \* tcp_listeners: port (0: no listener) and accept_queue
    listenerPorts,  \* tcp_listener_ports
    streams,        \* tcp_streams: connection_key of a handle, or NoKey
    conns,          \* tcp_connections: owner, stage and unread bytes of a key
    closed,         \* closed_streams: residual bytes of a handle, or Absent
    closedOrder,    \* closed_order
    arrived,        \* history: bytes received by the connection opened as h
    got,            \* history: bytes tcp_read returned through handle h
    eof,            \* history: handles for which tcp_read answered Ok(0)
    released,       \* history: handles released by the application
    shared          \* history: keys given to a second handle while the first
                    \* still was in tcp_streams

tables == <<udp, udpPorts, listeners, listenerPorts, streams, conns, closed, closedOrder>>
history == <<arrived, got, eof, released, shared>>
vars == <<nextId, nextPort, tables, history>>

Absent == MaxBytes + 1
NoConn == [handle |-> 0, stage |-> "none", rx |-> 0]
Listening(h) == h \in Handle /\ listeners[h].port # 0

Init ==
    /\ nextId = 1
    /\ nextPort = EphLow
    /\ udp = [h \in Handle |-> [port |-> 0, rx |-> 0]]
    /\ udpPorts = [p \in Port |-> 0]
    /\ listeners = [h \in Handle |-> [port |-> 0, queue |-> <<>>]]
    /\ listenerPorts = [p \in Port |-> 0]
    /\ streams = [h \in Handle |-> NoKey]
    /\ conns = [k \in Key |-> NoConn]
    /\ closed = [h \in Handle |-> Absent]
    /\ closedOrder = <<>>
    /\ arrived = [h \in Handle |-> 0]
    /\ got = [h \in Handle |-> 0]
    /\ eof = {} /\ released = {} /\ shared = {}

-----------------------------------------------------------------------------
(* Ephemeral ports.                                                        *)

PortInUse(p) ==
    \/ udpPorts[p] # 0
    \/ listenerPorts[p] # 0
    \/ \E k \in Key : k.port = p /\ conns[k].stage # "none"

\* The counter wraps at the end of the range; PortRunsOn lets it run past.
PortRunsOn(p) == p + 1
PortAfter(p) == IF p = EphHigh THEN EphLow ELSE p + 1

\* allocate_ephemeral_port: the loop from next_ephemeral_port, which steps the
\* counter before it looks at the port and gives up when the counter is back
\* where it started.  The result is the port (0: AddressNotAvailable) and the
\* value the counter is left with.  AllocateStopsEarly gives up before it has
\* looked at the last port.
AllocateStopsEarly ==
    LET try[p \in Ephemeral] ==
          IF PortAfter(p) = nextPort THEN [port |-> 0, next |-> nextPort]
          ELSE IF ~PortInUse(p) THEN [port |-> p, next |-> PortAfter(p)]
          ELSE try[PortAfter(p)]
    IN  try[nextPort]
AllocateEphemeralPort ==
    LET try[p \in Ephemeral] ==
          IF ~PortInUse(p) THEN [port |-> p, next |-> PortAfter(p)]
          ELSE IF PortAfter(p) = nextPort THEN [port |-> 0, next |-> nextPort]
          ELSE try[PortAfter(p)]
    IN  try[nextPort]

\* The port a call asks for: 0 lets the runtime choose, any other is taken
\* unless the call's own map has it.
ChoosePort(asked, map, p) ==
    IF asked = 0
    THEN /\ AllocateEphemeralPort.port # 0
         /\ p = AllocateEphemeralPort.port
         /\ nextPort' = AllocateEphemeralPort.next
    ELSE /\ map[asked] = 0
         /\ p = asked
         /\ UNCHANGED nextPort

NewId == nextId <= MaxId /\ nextId' = nextId + 1

-----------------------------------------------------------------------------
(* UDP sockets.                                                            *)

UdpBind(asked) ==
    \E p \in Port :
        /\ ChoosePort(asked, udpPorts, p)
        /\ NewId
        /\ udp' = [udp EXCEPT ![nextId] = [port |-> p, rx |-> 0]]
        /\ udpPorts' = [udpPorts EXCEPT ![p] = nextId]
        /\ UNCHANGED <<listeners, listenerPorts, streams, conns, closed, closedOrder, history>>

DispatchUdp(p) ==
    /\ udpPorts[p] # 0
    /\ udp[udpPorts[p]].rx < MaxBytes
    /\ udp' = [udp EXCEPT ![udpPorts[p]].rx = @ + 1]
    /\ UNCHANGED <<nextId, nextPort, udpPorts, listeners, listenerPorts, streams, conns,
                   closed, closedOrder, history>>

UdpRecvFrom(h) ==
    /\ udp[h].port # 0 /\ udp[h].rx > 0
    /\ udp' = [udp EXCEPT ![h].rx = @ - 1]
    /\ UNCHANGED <<nextId, nextPort, udpPorts, listeners, listenerPorts, streams, conns,
                   closed, closedOrder, history>>

\* UdpCloseKeepsPort leaves the closed socket's port taken.
UdpCloseKeepsPort(h) ==
    /\ udp[h].port # 0
    /\ udp' = [udp EXCEPT ![h] = [port |-> 0, rx |-> 0]]
    /\ UNCHANGED <<nextId, nextPort, udpPorts, listeners, listenerPorts, streams, conns,
                   closed, closedOrder, history>>
UdpClose(h) ==
    /\ udp[h].port # 0
    /\ udp' = [udp EXCEPT ![h] = [port |-> 0, rx |-> 0]]
    /\ udpPorts' = [udpPorts EXCEPT ![udp[h].port] = 0]
    /\ UNCHANGED <<nextId, nextPort, listeners, listenerPorts, streams, conns,
                   closed, closedOrder, history>>

-----------------------------------------------------------------------------
(* TCP listeners.                                                          *)

\* tcp_listen; tcp_listen_any is the case of a port given by number.
TcpListen(asked) ==
    \E p \in Port :
        /\ ChoosePort(asked, listenerPorts, p)
        /\ NewId
        /\ listeners' = [listeners EXCEPT ![nextId] = [port |-> p, queue |-> <<>>]]
        /\ listenerPorts' = [listenerPorts EXCEPT ![p] = nextId]
        /\ UNCHANGED <<udp, udpPorts, streams, conns, closed, closedOrder, history>>

\* tcp_accept pops handles until one is still in tcp_streams and answers
\* WouldBlock when the queue runs empty; n is how many it pops.
TcpAccept(h) ==
    LET q == listeners[h].queue
        live(i) == streams[q[i]] # NoKey
    IN  /\ Listening(h) /\ q # <<>>
        /\ \E n \in 1 .. Len(q) :
              /\ \A i \in 1 .. n - 1 : ~live(i)
              /\ live(n) \/ n = Len(q)
              /\ listeners' = [listeners EXCEPT ![h].queue = SubSeq(q, n + 1, Len(q))]
        /\ UNCHANGED <<nextId, nextPort, udp, udpPorts, listenerPorts, streams, conns,
                       closed, closedOrder, history>>

\* The keys whose connections tcp_listener_close removes: those of the queued
\* streams, whatever connection the key has by now.
QueueForgotten(h) == {}
QueuedKeys(h) == {streams[g] : g \in Range(listeners[h].queue)}

TcpListenerClose(h) ==
    LET pending == Range(listeners[h].queue)
    IN  /\ Listening(h)
        /\ listeners' = [listeners EXCEPT ![h] = [port |-> 0, queue |-> <<>>]]
        /\ listenerPorts' = [listenerPorts EXCEPT ![listeners[h].port] = 0]
        /\ conns' = [k \in Key |-> IF k \in QueuedKeys(h) THEN NoConn ELSE conns[k]]
        /\ streams' = [g \in Handle |-> IF g \in pending THEN NoKey ELSE streams[g]]
        /\ released' = released \cup pending
        /\ UNCHANGED <<nextId, nextPort, udp, udpPorts, closed, closedOrder,
                       arrived, got, eof, shared>>

-----------------------------------------------------------------------------
(* TCP streams.                                                            *)

\* A connection enters the tables under a fresh handle, in both directions.
Open(key) ==
    /\ NewId
    /\ conns' = [conns EXCEPT ![key] = [handle |-> nextId, stage |-> "opening", rx |-> 0]]
    /\ streams' = [streams EXCEPT ![nextId] = key]
    /\ shared' = IF \E h \in Handle : streams[h] = key THEN shared \cup {key} ELSE shared

\* tcp_connect, and tcp_connect_from with a port of 0 or a given one.
TcpConnect(asked, r) ==
    \E p \in Port :
        /\ ChoosePort(asked, [q \in Port |-> 0], p)
        /\ conns[[port |-> p, remote |-> r]].stage = "none"
        /\ Open([port |-> p, remote |-> r])
        /\ UNCHANGED <<udp, udpPorts, listeners, listenerPorts, closed, closedOrder,
                       arrived, got, eof, released>>

\* dispatch_tcp_segment, second arm: a SYN for a key that has no connection
\* meets a listener with room in its accept queue.  BacklogUnbounded never
\* refuses one.
BacklogUnbounded(h) == FALSE
BacklogFull(h) == Len(listeners[h].queue) >= Backlog

DispatchSyn(key) ==
    LET l == listenerPorts[key.port]
    IN  /\ conns[key].stage = "none"
        /\ l # 0 /\ ~BacklogFull(l)
        /\ Open(key)
        /\ listeners' = [listeners EXCEPT ![l].queue = Append(@, nextId)]
        /\ UNCHANGED <<nextPort, udp, udpPorts, listenerPorts, closed, closedOrder,
                       arrived, got, eof, released>>

\* dispatch_tcp_segment, first arm: the connection that owns the key takes the
\* segment, which may bring a byte (the final ACK of the handshake may too) and
\* may advance its life.  (The third arm answers with a reset and touches no table.)
Follows(stage) ==
    CASE stage = "opening" -> {"open", "done", "aborted"}
      [] stage = "open"    -> {"open", "eof", "done", "aborted"}
      [] stage = "eof"     -> {"eof", "done", "aborted"}
      [] OTHER             -> {}

DispatchSegment(key) ==
    LET c == conns[key]
    IN  \E next \in Follows(c.stage), n \in 0 .. 1 :
            /\ n = 1 => /\ c.stage = "open" \/ (c.stage = "opening" /\ next = "open")
                       /\ arrived[c.handle] < MaxBytes
            /\ n = 1 \/ next # c.stage
            /\ conns' = [conns EXCEPT ![key].stage = next, ![key].rx = @ + n]
            /\ arrived' = [arrived EXCEPT ![c.handle] = @ + n]
            /\ UNCHANGED <<nextId, nextPort, udp, udpPorts, listeners, listenerPorts, streams,
                           closed, closedOrder, got, eof, released, shared>>

\* tcp_read looks at the connection the handle's key has now, and at the
\* history only when there is none.
TcpRead(h) ==
    LET key == streams[h]
        c == conns[key]
    IN  /\ key # NoKey
        /\ \/ /\ c.stage # "none" /\ c.rx > 0
              /\ conns' = [conns EXCEPT ![key].rx = @ - 1]
              /\ got' = [got EXCEPT ![h] = @ + 1]
              /\ UNCHANGED <<closed, eof>>
           \/ /\ c.stage \in {"eof", "done"} /\ c.rx = 0
              /\ eof' = eof \cup {h}
              /\ UNCHANGED <<conns, closed, got>>
           \/ /\ c.stage = "none" /\ closed[h] \notin {0, Absent}
              /\ closed' = [closed EXCEPT ![h] = @ - 1]
              /\ got' = [got EXCEPT ![h] = @ + 1]
              /\ UNCHANGED <<conns, eof>>
           \/ /\ c.stage = "none" /\ closed[h] = 0
              /\ eof' = eof \cup {h}
              /\ UNCHANGED <<conns, closed, got>>
        /\ UNCHANGED <<nextId, nextPort, udp, udpPorts, listeners, listenerPorts, streams,
                       closedOrder, arrived, released, shared>>

\* tcp_release: the handle leaves every table but tcp_connections.  What retain
\* drops from closed_order is one entry at most: HistoryExact.
ReleaseKeepsOrder(h) ==
    /\ closed' = [closed EXCEPT ![h] = Absent]
    /\ streams' = [streams EXCEPT ![h] = NoKey]
    /\ released' = released \cup {h}
    /\ UNCHANGED closedOrder
Release(h) ==
    /\ closed' = [closed EXCEPT ![h] = Absent]
    /\ closedOrder' = RemoveFirst(closedOrder, h)
    /\ streams' = [streams EXCEPT ![h] = NoKey]
    /\ released' = released \cup {h}

\* tcp_release is for "a fully finished stream handle": the application calls
\* it once its connection is gone from the table.
TcpRelease(h) ==
    /\ streams[h] # NoKey /\ conns[streams[h]].handle # h
    /\ Release(h)
    /\ UNCHANGED <<nextId, nextPort, udp, udpPorts, listeners, listenerPorts, conns,
                   arrived, got, eof, shared>>

\* tcp_abort removes the connection of the handle's key and releases the
\* handle, whatever the stage.
TcpAbort(h) ==
    /\ streams[h] # NoKey
    /\ conns' = [conns EXCEPT ![streams[h]] = NoConn]
    /\ Release(h)
    /\ UNCHANGED <<nextId, nextPort, udp, udpPorts, listeners, listenerPorts,
                   arrived, got, eof, shared>>

-----------------------------------------------------------------------------
(* Timers.                                                                 *)

\* reap_closed keeps what tcp_read still has to return.
ResidualDropped(c) == 0
Residual(c) == c.rx

\* How many of the oldest finished streams reap_closed evicts.
Excess(n) == IF n > MaxHistory THEN n - MaxHistory ELSE 0

\* The handles that go from closed_streams and from tcp_streams when order has
\* outgrown the limit: the oldest.  EvictNewest takes the other end.
EvictNewest(order) == {order[i] : i \in Len(order) - Excess(Len(order)) + 1 .. Len(order)}
Evicted(order) == {order[i] : i \in 1 .. Excess(Len(order))}

\* An evicted handle is unknown to tcp_read from then on; HandlesKept leaves it
\* in tcp_streams.
HandlesKept(evicted) == streams
WithoutHandles(evicted) == [h \in Handle |-> IF h \in evicted THEN NoKey ELSE streams[h]]

\* step_timers: poll_output may find that a connection has exhausted its
\* retransmissions (aborted), then reap_closed moves every reapable connection
\* to the history, in the order the hash table yields them, and evicts the
\* oldest entries beyond MAX_CLOSED_STREAM_HISTORY.
StepTimers ==
    \E gone \in SUBSET {k \in Key : conns[k].stage \in {"opening", "open", "eof"}} :
    LET done == gone \cup {k \in Key : conns[k].stage \in Reapable}
        reaped == {conns[k].handle : k \in done}
        keyOf(h) == CHOOSE k \in done : conns[k].handle = h
    IN  /\ done # {}
        /\ \E new \in [1 .. Cardinality(done) -> reaped] :
              LET order == closedOrder \o new
                  n == Excess(Len(order))
                  evicted == Evicted(order)
              IN  /\ Range(new) = reaped
                  /\ closedOrder' = SubSeq(order, n + 1, Len(order))
                  /\ closed' = [h \in Handle |-> IF h \in evicted THEN Absent
                                                ELSE IF h \in reaped THEN Residual(conns[keyOf(h)])
                                                ELSE closed[h]]
                  /\ streams' = WithoutHandles(evicted)
        /\ conns' = [k \in Key |-> IF k \in done THEN NoConn ELSE conns[k]]
        /\ UNCHANGED <<nextId, nextPort, udp, udpPorts, listeners, listenerPorts, history>>

-----------------------------------------------------------------------------

Next ==
    \/ \E asked \in ListenPort \cup {0} : UdpBind(asked) \/ TcpListen(asked)
    \/ \E p \in Port : DispatchUdp(p)
    \/ \E h \in Handle : UdpRecvFrom(h) \/ UdpClose(h)
    \/ \E h \in Handle : TcpAccept(h) \/ TcpListenerClose(h)
    \/ \E asked \in ListenPort \cup {0}, r \in Remote : TcpConnect(asked, r)
    \/ \E k \in Key : DispatchSyn(k) \/ DispatchSegment(k)
    \/ \E h \in Handle : TcpRead(h) \/ TcpRelease(h) \/ TcpAbort(h)
    \/ StepTimers

Spec == Init /\ [][Next]_vars

-----------------------------------------------------------------------------
(* Properties.                                                             *)

\* Type invariant.
TypeOK ==
    /\ nextId \in 1 .. MaxId + 1
    /\ nextPort \in Ephemeral
    /\ udp \in [Handle -> [port : Port \cup {0}, rx : 0 .. MaxBytes]]
    /\ udpPorts \in [Port -> Handle \cup {0}]
    /\ listeners \in [Handle -> [port : Port \cup {0}, queue : Seq(Handle)]]
    /\ listenerPorts \in [Port -> Handle \cup {0}]
    /\ streams \in [Handle -> Key \cup {NoKey}]
    /\ conns \in [Key -> [handle : Handle \cup {0}, stage : Stage, rx : 0 .. MaxBytes]]
    /\ closed \in [Handle -> 0 .. Absent]
    /\ closedOrder \in Seq(Handle)
    /\ arrived \in [Handle -> 0 .. MaxBytes]
    /\ got \in [Handle -> Nat]
    /\ eof \in SUBSET Handle /\ released \in SUBSET Handle
    /\ shared \in SUBSET Key

\* The two port maps and the two socket tables describe the same sockets: a
\* port maps to the one socket bound to it, and an unbound port to none.  A
\* stale entry would hand another application's datagrams or SYNs to a closed
\* socket, or refuse a free port as AddressInUse.
PortMapsExact ==
    /\ \A p \in Port, h \in Handle : udpPorts[p] = h <=> udp[h].port = p
    /\ \A p \in Port, h \in Handle : listenerPorts[p] = h <=> listeners[h].port = p

\* Every connection in tcp_connections is reachable: its handle is in
\* tcp_streams and resolves to it.  A connection nobody can reach would hold
\* its four-tuple and its port for as long as its peer keeps it alive.
ConnectionOwned ==
    \A k \in Key : conns[k].stage # "none" => streams[conns[k].handle] = k

\* A stream handle resolves to the connection opened under it, or to that
\* connection's record in the history.
Resolves(h) == conns[streams[h]].handle = h \/ closed[h] # Absent

\* As long as no second connection took over the handle's four-tuple, every
\* handle in tcp_streams answers: reaping, eviction, release, abort and the
\* closing of a listener never leave a handle that leads nowhere.
HandleResolves ==
    \A h \in Handle : streams[h] \notin shared \cup {NoKey} => Resolves(h)

\* tcp_read answers Ok(0) only when every byte the connection received has
\* been returned, also when the connection was reaped with bytes unread or
\* the history has been trimmed in between.
EofMeansDrained ==
    \A h \in eof : streams[h] \notin shared \cup {NoKey} => got[h] = arrived[h]

\* closed_order lists exactly the handles that have a record in
\* closed_streams, once each, and is never longer than its limit.
HistoryExact ==
    /\ \A i, j \in DOMAIN closedOrder : closedOrder[i] = closedOrder[j] => i = j
    /\ Range(closedOrder) = {h \in Handle : closed[h] # Absent}
    /\ Len(closedOrder) <= MaxHistory

Known(h) == closed[h] # Absent \/ \E k \in Key : conns[k].handle = h

\* A stream that had a connection or a record has neither any more only because
\* the application gave it up, or because it was evicted at the limit together
\* with every stream that had finished before it (unless its four-tuple is
\* shared with an older handle: see ReadsOwnStream).
EvictsOldestAtLimit ==
    [][\A h \in Handle : Known(h) /\ ~Known(h)' /\ streams[h] \notin shared =>
          \/ h \in released'
          \/ /\ Len(closedOrder') = MaxHistory
             /\ \A i \in DOMAIN closedOrder :
                   (\A j \in DOMAIN closedOrder : closedOrder[j] = h => i < j)
                      => closed'[closedOrder[i]] = Absent]_vars

\* allocate_ephemeral_port finds a free port whenever there is one, wherever
\* the counter stands, and never returns one that is in use.
AllocationExact ==
    LET free == {p \in Ephemeral : ~PortInUse(p)}
    IN  IF free = {} THEN AllocateEphemeralPort.port = 0
        ELSE AllocateEphemeralPort.port \in free

\* The accept queues: a queued handle waits in one queue, once, of a listener
\* that is open; the stream it names, unless released, came in on that
\* listener's port; and no queue exceeds its backlog.  Closing a listener and
\* listening on the port again must not mix the two generations of streams.
QueuesExact ==
    /\ \A h \in Handle : Len(listeners[h].queue) <= Backlog
    /\ \A h \in Handle : listeners[h].queue # <<>> => Listening(h)
    /\ \A h, l \in Handle :
          \A i \in DOMAIN listeners[h].queue, j \in DOMAIN listeners[l].queue :
              listeners[h].queue[i] = listeners[l].queue[j] => h = l /\ i = j
    /\ \A h \in Handle : \A g \in Range(listeners[h].queue) :
          streams[g] # NoKey => streams[g].port = listeners[h].port

\* The comment on closed_streams (socket.rs:236): finished streams are kept
\* "so `tcp_read` can still report their final state and any bytes that
\* arrived before teardown".  What tcp_read returns through a handle are bytes
\* of the connection opened under that handle.
ReadsOwnStream == \A h \in Handle : got[h] <= arrived[h]

\* The tables of the runtime agree with each other after every call: port maps,
\* accept queues, history and what the port search answers, and all have their type.
TablesExact == TypeOK /\ PortMapsExact /\ QueuesExact /\ AllocationExact /\ HistoryExact

\* Handles and connections lead to each other, whatever released, aborted, reaped or
\* evicted what: no connection without a handle, no handle without an answer.
HandlesLead == ConnectionOwned /\ HandleResolves
====
