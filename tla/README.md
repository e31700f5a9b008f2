# TLA+ specifications of the user-space TCP/IP stack

This directory models the stateful core of the repository: TCP and its socket
runtime, IPv4 reassembly, the forwarding path of a router with ARP and address
translation, the IPv6 side of a host, a pair of BGP speakers, and an EVPN fabric.
TLC checks every model on small instances, and TLAPS proves the safety of TCP, of the
socket tables, of IPv4 reassembly, of the gateway, of the IPv6 host and of the EVPN
Adj-RIBs for every value of their constants. Paths below are relative to the repository.

## 1. Inventory

The repository is one crate. Its host stack is a chain of single-threaded
components, each driven by its caller with an explicit clock; around it stand
several hundred protocol libraries (5G, O-RAN, Diameter, TSN, PTP codecs and
calculators) that the stack does not call.

| Component | State | Operations | What makes it correct |
|---|---|---|---|
| `tcp.rs` `TcpConnection` | state, send and receive sequence variables, receive buffer, reassembly queue, retransmission queue, close and abort flags, persist deadline | `handle_segment_at`, `poll_output`, `write`, `read`, `initiate_syn_at`, `initiate_close_at` | the stream arrives intact; everything sent is tracked and resent; windows are honoured; close completes; no live peer is given up |
| `congestion.rs` `CongestionControl` | cwnd, ssthresh, duplicate ACK count, bytes in flight | `on_ack`, `on_dup_ack`, `on_timeout`, `record_sent`, `send_window_available` | bytes in flight are exact |
| `tcp_seq.rs` | none | five comparisons of wrapping numbers | agree with the true order within half the sequence space |
| `socket.rs` `SocketRuntime` | connection table, stream handles, listeners, accept queues, UDP sockets, port maps, finished streams, transmit queues | bind, connect, listen, accept, write, read, shutdown, close, abort, release, dispatch, timers, reaping | one owner per port and per four-tuple; every handle and every connection reachable; unread bytes survive reaping |
| `tcp.rs` `TcpManager` | an older connection table | connect, process, timers | superseded by `SocketRuntime` |
| `fragment.rs` | fragments per datagram, byte count, order of use | `fragment_payload`, `add_fragment`, expiry, eviction | only consistent datagrams come out; limits hold; nothing is held for ever |
| `lab.rs` `LabRouter`, IPv4 path; `arp.rs`, `nat.rs`, `firewall.rs`, `router.rs` | ARP caches, parked packets, sessions and port counter, rule chains, route table | one handler per frame | each packet leaves once; replies return; inside addresses stay inside; the best route is used |
| `stack.rs` IPv6, `icmpv6.rs` | neighbour cache, router list, learned routes, quarantine, tentative and taken address with lifetimes, redirects | timers, advertisements, solicitations, redirects, configuration | table and lists agree; dead routers and expired addresses are given up; duplicates are not adopted |
| `bgp_router.rs`, `bgp.rs`, `bgp_rib.rs` | per neighbour: session state, streams, timers, Adj-RIBs, restart and refresh marks | poll, messages, operator commands | one session per neighbour; the RIBs of two neighbours agree; stale routes end |
| `evpn_vtep.rs`, `bgp_evpn.rs` | local and remote MACs with mobility numbers, flood list, duplicates | learn, forget, originate, program, forward | frames follow a host that moves; no false duplicates; bidding ends |
| `rip.rs`, `bfd.rs`, `vrrp.rs`, `hsrp.rs`, `glbp.rs`, `stp.rs`, `dhcp.rs` | small tables without timers | packets | see section 6 |
| `lab.rs` links, `device.rs`, `shell.rs` | simulated links, commands | deliver, drop, duplicate, reorder | harness; the environment of the models |

How they interact: an application calls `NetStack`, which calls `SocketRuntime`;
its calls change one `TcpConnection` and may queue a segment in `tcp_tx`.
`step_timers` flushes that queue, pumps every connection with `poll_output` and
reaps the finished ones. A frame from the link reaches `process_frame` (a host) or
`process_incoming_frame` (a router) and from there ARP, the firewall, translation
and forwarding, or `dispatch_tcp_segment`. `LabRouter::step_timers` offers what the
VTEP learnt to BGP, polls the speaker, which reads and writes its TCP streams, and
programs the VTEP from the result. Nothing is concurrent inside a host. What is hard
is between hosts, and between events and timers: the order of calls, arrivals and
expiries, links that lose and reorder, sessions that are lost half-way, and tables
at their limits. `PROJECT.json` lists the hazards line by line.

## 2. Modules

| Module | Models |
|---|---|
| `Congestion` | the congestion controller, a record and an operator per method |
| `TcpEndpoint` | `TcpConnection`, a record and an operator per method or per arm of `handle_segment_at` and per step of `poll_output` |
| `TcpPair` | two hosts, the wire between them, the socket calls, and the properties |
| `ReliableStream` | the abstract promise of one direction of a connection |
| `MCTcpPair` | the instances TLC checks and the refinement of `ReliableStream` |
| `TcpSeq`, `SeqWindow` | wrapping sequence-number arithmetic; the send window kept in wrapped numbers, beside the truth |
| `SocketTables` | the tables of one `SocketRuntime`, UDP and TCP |
| `Reassembly`, `MCReassembly` | fragmentation and the reassembly buffer |
| `SeqFilter` | `Vec::retain` as an explicit function of positions |
| `RoutingTable`, `NatTable` | the IPv4 route table and the translation table, operators on a value |
| `Gateway`, `MCGateway` | a router that composes both with its ARP caches, parked packets and firewall chains, between hosts |
| `Ipv6Host`, `MCIpv6Host` | the IPv6 side of `NetStack` with its neighbour cache, between routers |
| `BgpSpeaker` | one neighbour of a BGP speaker and its TCP connections, operators on a record |
| `BgpPair`, `MCBgpPair` | two speakers, the network between them and their operators |
| `EvpnFabric` | VTEPs, their BGP sessions and the hosts behind them |
| `TcpStreamProofs`, `TcpWindowProofs` | theorems about TCP and their proofs: one host by itself, then the two hosts and the wire; sequence numbers and selective acknowledgement |
| `SocketTablesProofs`, `ReassemblyProofs`, `GatewayProofs`, `Ipv6HostProofs`, `BgpPairProofs`, `EvpnFabricProofs` | theorems about the socket tables, reassembly, the gateway, the IPv6 host, the two BGP speakers and the EVPN fabric |

### TCP: state and actions

A connection is one record whose fields have the names of the Rust fields. The
retransmission queue and the reassembly queue are sets, since the code keeps both
ordered by sequence number. A handler is an operator that returns the connection
after the call and the segments emitted; an action of `TcpPair` is one call into
the runtime at one host, with everything that call does: `DispatchToConnection`
is `handle_segment_at` followed by `poll_output`, `StepTimers` is the flush, the
pump and the reaping.

`slot[h]` says where the runtime keeps the connection: not created (`free`), in
`tcp_connections` (`live`), in `closed_streams` (`reaped`), or nowhere
(`released`). `txq[h]` is `tcp_tx`, `wire[h]` the segments on their way to h.
`wrote` and `got` are history: what the application has written and read.

Abstractions: sequence numbers are naturals in `TcpEndpoint`, and `SeqWindow` with
its theorems shows that the wrapped numbers of the code make the same decisions
while no number is 2^31 away from `snd_una`. A segment has the fields the code acts
on; ports, checksums, PSH and URG are left out, and so are RFC 7323 timestamps, which
no SYN of this stack offers. Time is abstracted to which armed timers are due at a
call of `poll_output`; the RTT estimator and its back-off only choose that moment.

### The fault budget

The wire may drop, duplicate or deliver out of order at any time. Each such fault
costs one unit of `faults`, and so does a timer that expires at the wrong moment:
while a segment is still under way, or twice running at one host while a timer
of the other is armed. `MaxFaults` bounds the units. A timer that expires in its
turn on a quiet wire is free, so the hosts are never prevented from recovering.
The rule keeps the question "does it recover from k faults" apart from "can
timeouts alone exhaust the retransmission limit", to which the answer is always
yes.

### Socket tables

`SocketTables` keeps the other half of the runtime: two port maps, listeners with
accept queues, `tcp_streams`, `tcp_connections`, `closed_streams` and
`closed_order`, and both counters. A connection is reduced to a stage and a number
of unread bytes. One action per call; `StepTimers` lets any live connection exhaust
its retransmissions, reaps in any order (the code iterates a hash map) and evicts.
`arrived`, `got`, `eof`, `released` and `shared` are history; `shared` marks
four-tuples that a second connection has used while an older handle still names them.

### Reassembly

`sets[k]` are the fragments held under a key in the order the code sorts them, `lru`
the keys in the order of their last use, `age` the time since then. `AddFragment` is
the whole of `add_fragment`: expiry first, the checks with their refusals (some of
which drop the set, some of which do not), room for a set, room for its bytes,
insertion, completeness. The sender is `fragment_payload`, cut at several MTUs, and
malformed fragments are offered as well.

### The gateway

`FromLan`, `ToRouter`, `FromWan` and `PassThrough` are the arms of
`process_incoming_frame`: firewall chain, the sender's address learnt, TTL, route, translation, and
`Transmit`, which sends or parks behind an ARP request. `ReceiveArp` learns and drains.
`LoseArp` is the link. Routes are installed and removed by routing processes at any
moment. `sent` is history, with a number for every packet accepted.

### The IPv6 host

`host` is what `NetStack` keeps about IPv6, a deadline being the time left until it
since the host reads its clock in `step_timers` only. `Stepped` is `step_timers` in
the order of the code: solicitation, neighbour probing, quarantine, default router,
learned routes, duplicate address detection, address lifetime, router lifetime,
solicitation again. `ReceiveAdvert`, `ReceiveNa`, `ReceiveNs`, `ReceiveRedirect` are
the arms of `process_frame`; `Configure`, `Clear`, `StartRouterDiscovery`,
`CancelRouterDiscovery` and `Send` the calls of an application. `order` is the
iteration order of a hash map.

### BGP

`BgpSpeaker` has the speaker's record for its neighbour (state, mode, stream,
collision candidate, accept queue, timers, the one route in Adj-RIB-In and -Out,
restart and refresh marks) and the life of a TCP connection as the speaker sees it.
`Poll` of `BgpPair` is `BgpRouter::poll`: accept, collision, transport, session,
timers, decision, advertisement. A connection is its two ends, what is on the wire
and what has been received and not read.

### The EVPN fabric

`leaf[l]` is the VTEP instance with the EVPN Adj-RIBs; `channel` the UPDATEs between
two leaves, and `up` the ends at which a session is Established. `StepTimers` is `LabRouter::step_timers`: local MACs are offered, what has
arrived is read, differences are sent, the tunnels are programmed. `Frame` is
`evpn_access_ingress`. Hosts move and are cloned. A session goes down at one end and
then at the other (`SessionDown`), each end with `teardown`: after the failure of its
transport an end retains what it heard, after a protocol error or a NOTIFICATION it does
not, and in both cases it forgets what it told. What is retained ends with the Restart
Time, in a `StepTimers`, or when the session returns: the OPEN of a neighbour that
announces no restart flushes it (`reconcile_graceful_restart_open`). A leaf's own
restart, with Restart State and End-of-RIB, and ROUTE-REFRESH are in `BgpPair`, for
the IPv4 family, and not repeated here.

## 3. Runs

| Run | Instance | Shows |
|---|---|---|
| `lifecycle` | full life of a connection, a byte one way, both close, 2 faults, fair | `TypeOK`, `InFlightExact`, `SendSideExact`, each direction refines `ReliableStream` (`ImplementsReliableStream`); `EventuallyConnected`, `EventuallyTornDown` |
| `transfer` | 4 segments one way into a buffer of 3, 2 faults | `StreamIntegrity`, `SackSound`, `ReceiveBounded`, `WindowNeverShrinks` |
| `delivery` | a byte each way, either side may abort, 1 fault, fair | `EventuallyDelivered`, `AbortReachesPeer` |
| `close_in_flight` | a byte one way, both close, 1 fault | `NoSpuriousAbort` is violated (section 6) |
| `seq_window` | 16 sequence numbers, every distance below 8 | `WindowExact` |
| `sockets` | 3 handles, 1 known and 2 ephemeral ports, 2 remotes, backlog and history of 1 | `TablesExact`, `HandlesLead`, `EofMeansDrained`, `EvictsOldestAtLimit` |
| `reassembly` | 4 keys, one used for two datagrams, 3 MTUs, at most 3 sets and 5 bytes, timeout of 1 | `BufferSound`, `DatagramsSurvive`, `HeldSound`, `EvictsOldest`, `StaleIsFreed` |
| `gateway` | 2 LAN hosts, 2 WAN hosts, 2 translation ports, 3 flows, packets cut short, TTLs of 1 and more, routes of three sources | `HeldOrSentOnce`, `RepliesReturn` (until the ports wrap), `ForwardingSound`, `ParkedIsSent` |
| `bgp_session` | one dialler and one lost session, or a collision; one operator command | `NothingLeftBehind`, `SpeakersAgree`, `StaleEnds`, `Establishes` |
| `two_losses` | one dialler and two lost sessions | `RouteAccountedFor` is violated (section 6) |
| `ipv6_host` | 2 routers, lifetimes up to 3 ticks, time jumps of 1 and 2, 6 events | `RoutesSound`, `RouterChoice`, `AddressSound`, `DeadIsGivenUp` |
| `evpn_mobility` | 2 leaves, 2 hosts, tables of 1, move limit of 1, 2 moves, 1 lost session | `RibsSound`, `NoFalseDuplicate`, `SettledHostFollowed`, `BiddingEnds` |

Several properties are conjunctions of named parts, each with its own comment in the
module:

| Property | Parts |
|---|---|
| `SendSideExact` | `OutstandingTracked` (every unacknowledged number is in one queue entry), `SentIsAccounted` (nothing on the wire is beyond `snd_nxt`), `AckedIsReceived` |
| `SackSound` | `SackedIsHeld`, `OldestNotSacked` (the watched entry is the one resent) |
| `TablesExact` | `TypeOK`, `PortMapsExact`, `QueuesExact`, `AllocationExact`, `HistoryExact` |
| `HandlesLead` | `ConnectionOwned` (no connection without a handle), `HandleResolves` (no handle without an answer) |
| `BufferSound` | `TypeOK`, `AccountingExact` |
| `DatagramsSurvive` | `AssembledIsSent`, `PiecesReassemble` |
| `HeldSound` | `NothingCompleteIsHeld`, `HeldAgree` |
| `ForwardingSound` | `TypeOK`, `LookupIsBest`, `OnlySolicited`, `SourceHidden` |
| `NothingLeftBehind` | `TypeOK`, `LiveIsServed`, `DownMeansEmpty` |
| `SpeakersAgree` | `RibsAgree`, `NoFsmError` |
| `RoutesSound` | `TypeOK`, `RoutesMatchLists`, `QuarantineHolds` |
| `RouterChoice` | `BestRouterInUse`, `LostRouterSolicits` |
| `AddressSound` | `ValidNotCollapsed`, `NoDuplicateAdopted` |
| `DeadIsGivenUp` | `DeadRouterAbandoned`, `ExpiredAddressGoes` |
| `RibsSound` | `TypeOK`, `RibsAgree` |

Why the bounds are enough. TCP: an MSS of one byte makes every byte a segment; in a window
of three, one missing, two behind it and one of them repeated are the three duplicate ACKs of
fast retransmit, and the fourth byte finds the window closed until the application reads;
two faults cover a loss and the loss of its repair. SACKs of several blocks need a larger
window, which `SackAlwaysSound` covers.
`MaxRetransmits` is above `MaxFaults` wherever `NoSpuriousAbort` or a liveness property
is checked, as 12 is above any number of faults one segment is likely to meet. The
other instances put every limit within reach: a backlog, a history and a MAC table of
one, two ephemeral ports for three handles, two translation ports for three flows,
reassembly limits below what the keys can fill, a move limit below the moves. Two
routers are one to lose and one to fall back on; six events are, for example, two
advertisements, a packet, an answer, a conflict and a redirect, with any number of
timer calls between them. Two MAC addresses are needed to fill a table of one; the
move budget is shared between the hosts. The mutants listed in `PROJECT.json` show that
each property fails under its instance when the code is changed.

Where deadlock is not checked (`sockets`, `reassembly`, `gateway`), the system may
really stop: handles, packets or fragments of the instance are used up.

## 4. Fairness

| Run | Assumed | Because |
|---|---|---|
| `delivery`, `lifecycle` | each host's `step_timers` runs while it has something to do; the oldest segment on a wire is delivered unless it was lost | the duty of the caller (`lab.advance_time`, `run_until`); a link with finitely many faults |
| `reassembly` | `WF_vars(Tick)` | time passes. Nothing in the repository calls `expire_stale`, so nothing is assumed of `ExpireStale`; `StaleIsFreed` is about fragments that keep coming, each of which expires what is stale |
| `gateway` | `WF_vars(ArpReply(hop))` | a host answers the ARP request that reached it; lost ones are `LoseArp` |
| `bgp_session` | each speaker is polled, also after its elapsed timers; `WF_vars` of delivery on each connection | the lab polls on every advance; TCP |
| `ipv6_host` | `step_timers` is called while it would change something | the same caller |
| `evpn_mobility` | while a step, a frame, the end of a half-open session or a new one would change something, the fabric does not stand still | the same caller, and hosts that keep sending |

Nothing is assumed of applications, operators, routers or moving hosts. Weak fairness
is written out with its enabling condition (`PollIsDue`, `PumpIsDue`, `Busy`) where TLC
would take ENABLED of a large action too slowly.

## 5. What is proved

Everything in this section holds for every value of the constants that satisfies
the named assumptions (`EndpointAssumption`, `SsthreshAssumption`, `PairAssumption`,
`HalfSpaceAssumption`, `DistanceAssumption`, `TablesAssumption`, `RoutingAssumption`,
`NatAssumption`, `GatewayAssumption`, `ReassemblyAssumption`, `HostAssumption`,
`SpeakerAssumption`, `SetupAssumption`, `FabricAssumption`): any initial sequence numbers, segment sizes, capacities, data, tables,
ports, routes and rules, datagrams and MTUs, lifetimes and timers, any number of routers,
leaves and hosts, and any number of faults. TLC evaluates the same assumptions in every run.

| Theorem | Module | States |
|---|---|---|
| `TypeCorrect` | `TcpStreamProofs` | `Spec => []TypeOK` |
| `BufferNeverOverflows` | `TcpStreamProofs` | `Spec => []ReceiveBounded` |
| `FlightAlwaysExact` | `TcpStreamProofs` | `Spec => []InFlightExact` |
| `WindowNeverWithdrawn` | `TcpStreamProofs` | `Spec => WindowNeverShrinks` |
| `StreamAlwaysIntact` | `TcpStreamProofs` | `OneOpener => (Spec => []StreamIntegrity)` |
| `SendSideAlwaysExact` | `TcpStreamProofs` | `OneOpener => (Spec => []SendSideExact)` |
| `Refinement` | `TcpStreamProofs` | `OneOpener /\ Host = {client, server} => (Spec => ImplementsReliableStream)` |
| `SackAlwaysSound` | `TcpWindowProofs` | `OneOpener => (Spec => []SackSound)` |
| `WindowAlwaysExact` | `TcpWindowProofs` | the wrapped send window is the true one |
| `SerialOrder` | `TcpWindowProofs` | the serial comparisons order positions correctly |
| `TablesAlwaysExact` | `SocketTablesProofs` | `Spec => []TablesExact` |
| `HandlesAlwaysLead` | `SocketTablesProofs` | `Spec => []HandlesLead` |
| `EofAlwaysDrained` | `SocketTablesProofs` | `Spec => []EofMeansDrained` |
| `AlwaysEvictsOldest` | `SocketTablesProofs` | `Spec => EvictsOldestAtLimit` |
| `BufferAlwaysSound` | `ReassemblyProofs` | `Spec => []BufferSound` |
| `HeldAlwaysSound` | `ReassemblyProofs` | `Spec => []HeldSound` |
| `DatagramsAlwaysSurvive` | `ReassemblyProofs` | `Spec => []DatagramsSurvive` |
| `OldestGoesFirst` | `ReassemblyProofs` | `Spec => EvictsOldest` |
| `ForwardingAlwaysSound` | `GatewayProofs` | `Spec => []ForwardingSound` |
| `AlwaysHeldOrSentOnce` | `GatewayProofs` | `Spec => []HeldOrSentOnce` |
| `RepliesAlwaysReturn` | `GatewayProofs` | `Spec => []RepliesReturn` |
| `RoutesAlwaysSound` | `Ipv6HostProofs` | `Spec => []RoutesSound` |
| `AlwaysBestRouter` | `Ipv6HostProofs` | `Spec => RouterChoice` |
| `AddressAlwaysSound` | `Ipv6HostProofs` | `Spec => AddressSound` |
| `NothingEverLeftBehind` | `BgpPairProofs` | `Spec => []NothingLeftBehind` |
| `RibsAlwaysSound` | `EvpnFabricProofs` | `Spec => []RibsSound` |
| `NoFalseDuplicateEver` | `EvpnFabricProofs` | `Spec => []NoFalseDuplicate` |

**One host by itself.** The first four invariants are properties of one connection,
but not inductive as they stand. `ConnOK` (in `TcpStreamProofs`) strengthens
them:

* `ReceiveOK`: the buffer is within its capacity, every parked segment ends at or
  below the right edge `rcv_nxt + window`, and nothing is parked while the peer's
  initial number is unknown. The last part is needed because LISTEN and SYN_SENT
  overwrite `rcv_nxt`. The second is what bounds draining: `drain_ooo` can append
  no more than the window, although `current_rcv_wnd` does not count parked bytes.
* `FlightOK`: `snd_una + bytes_in_flight = snd_nxt`, except in CLOSED and
  TIME_WAIT, which CLOSING and LAST_ACK may enter with an acknowledgement beyond
  `snd_nxt`.

`Keeps(c, r)` is what a handler promises: the connection it returns is `ConnOK`,
what it emits are segments, and the right edge has not moved left. There is one
lemma per method of `TcpConnection` and per arm of the state match, up to
`HandleSegmentOK` (an arbitrary segment) and `PollOutputOK` (any set of due
timers). Two facts need the well-ordering of the naturals (`NatMinimum`): that the
contiguous data ends somewhere (`ContiguousExists`, whose witness is the first
uncovered position below the right edge) and that a non-empty queue has a first
entry (`FirstOK`).

The next part of `TcpStreamProofs` adds that a slot still free holds the connection as
created (`IInv`), has one lemma per action of `Next`, and combines them. Since `ConnOK`
is kept for arbitrary segments, these theorems do not depend on how the wire
misbehaves.

**The two hosts and the wire.** Whether the stream is intact depends on what is in
flight, so `StreamInv` (in `TcpStreamProofs`) relates each host to its peer and to the
segments between them:

* `SegOK`: every segment on the wire or in `tcp_tx` carries the slice of the sender's
  stream that its number names, ends at or below the sender's `snd_nxt`, has SYN and FIN
  before and after the stream, and acknowledges no more than its sender received;
* `SendOK`: the entries of the retransmission queue are such slices and tile the
  unacknowledged numbers, and what waits in the send buffer follows them;
* `RecvOK`: what was delivered and read, and each parked segment, is a slice of the
  peer's stream that begins at the peer's initial number, and the FIN was taken at the
  peer's last number;
* `Acked`: what a host takes for acknowledged, its peer has received.

A sender's stream only grows and `rcv_nxt` only advances, so a segment that was sound
when it was sent stays so for as long as the network holds it; that is why loss,
duplication and reordering need no case of their own. The refinement mapping of
`MCTcpPair` is then shown step by step: each action is a step of `ReliableStream` or
leaves its variables alone.

`OneOpener` says that one host opens and the other listens. Without it `SendSideExact`
is false of the code: the SYN-ACK of a simultaneous open is sent with a number that
`snd_nxt` does not account for (section 6).

The theorems are about `Spec`, which starts before the handshake. The runs that
start from `EstablishedInit` start in a state `Spec` reaches by a handshake
without faults.

**Selective acknowledgement.** A mark in the retransmission queue was caused by a block
that the peer reported some time ago, in a segment that may since have been overtaken or
repeated. `SackInv` (in `TcpWindowProofs`) therefore speaks of every entry that is marked
*or that a block still under way would mark*:

* `Vouched`: a receiver that is not closed holds all of such an entry, and neither
  `snd_una` nor an acknowledgement under way falls inside it;
* `Aligned` and `Fits`: a payload under way is that of one entry of the queue or of none,
  since a retransmission repeats an entry whole; a parked segment starts where its entry
  starts and ends within it (it may have been cut to the window);
* `Gapped`: nothing parked reaches down to `rcv_nxt`; and `Queued`: every entry ends beyond
  `snd_una`, and the queue is empty in CLOSED, FIN_WAIT_2 and TIME_WAIT.

`Hears` and `Emits` are what a handler promises of the segment it takes and of those it
sends, with one lemma per method and per arm of the state match; `SenderPair` and
`ReceiverPair` are the two halves of a step. The oldest entry carries `snd_una`, which
is why no block covers it (`OldestUnmarked`) and the retransmission timer always has an
entry to resend.

**Sequence numbers.** The first part of `TcpWindowProofs` is about `SeqWindow`, whose
specification has names of its own (`WindowSpec`, `WindowNext`) so that one module can
extend it beside `TcpPair`. It carries the relation
between each wrapped number and the position it stands for through every step;
the comparisons are exact because no position in play is half the space ahead
of `snd_una`.

**Socket tables.** `TablesInv` adds to the checked properties what makes them
inductive: identifiers from `next_id` on are used nowhere (`FreshIds`); a connection
and its handle name each other (`ConnsOK`); a four-tuple that two handles name is in
`shared` (`SharingKnown`); and for a handle of an unshared four-tuple, what arrived is
what was read plus what is unread, in the connection or in its record
(`BytesAccounted`). Two arguments are not about single steps. `allocate_ephemeral_port`
is a search around a ring, described by the distance of a port behind the counter
(`Turn`): the first free port in that order is the one found, or there is none. Reaping
orders the finished connections arbitrarily; that every connection has its place in the
order follows by counting, since a map of a finite set onto a set of the same size
repeats nothing.

**Reassembly.** `ReassemblyAssumption` asks for a unit of at least two bytes (8 in the
code), finitely many keys and datagrams per key, and a largest payload within the byte
limit. `BufferInv` has two parts.

* The books: `lru` lists the keys that have a set, once each, and `bufferedBytes` is the
  number of bytes held. Bytes are counted as a set of places (key, entry, position), so
  that dropping sets takes away a disjoint part (`HeldSplit`, `HeldDrop`) and inserting an
  entry shifts the others by a bijection (`InsertBytes`); no induction over entries is
  needed. Since the count is exact, the `saturating_sub` of `remove_buffer` never
  saturates.
* What is held under each key (`HeldOK`): entries in order, each a slice of a datagram of
  the key, no two in disagreement, and incomplete. That a slice is not enough for two
  datagrams under one key is why agreement is a part of its own.

The completeness loop looks at the ends of the entries before each entry only.
`CompleteCovers` and `CoveredComplete` say that it is satisfied exactly when every byte up
to the end of the final fragment is covered, so nothing complete is held, and each byte
that is copied out comes from an entry that has it (`AssembleBytes`).
`PiecesJoin` is about one datagram cut for one MTU: whichever pieces are there, a missing
one is accepted and takes its place, and the loop is satisfied with the last of them and
no earlier, because the byte a piece begins with is in no other piece (`PieceAlone`). For
`EvictsOldest` the positions in `lru` are followed through the three lists that
`make_room_for` goes through (`GoneOldest`).

**The gateway.** `GatewayInv` has four parts. The route table is sorted: insertion
puts a route behind those that precede it and `retain` keeps the order (`Rank` counts
the entries kept so far), and in a sorted table the first match is the best
(`LookupSound`). `NatOK`: while fewer flows are open than there are ports, the counter
stands at `LowPort` plus their number and past every port handed out, so an
allocation overwrites nobody's reverse entry; and a reverse entry belongs to an open
flow. `NumbersOK`: the number of an accepted packet occurs once, among the frames sent or
the positions of the queues, and no number beyond the counter occurs. `OnlySolicited`
and `SourceHidden` then hold of each frame when it is made, and later, since flows are
only added and a parked frame keeps the interface it was translated for.

**The IPv6 host.** `Inv` strengthens `RoutesSound` (`Sound`): the default route in the
table is the gateway in use; lifetimes are kept only for an address that was
autoconfigured, and none is tentative while one is in use; nobody has been heard to claim
an address that is still tentative (`Tentative`). `RouterChoice` holds of each call as a
whole and of no part of it: in `step_timers` a part takes routers away that an earlier part
has chosen. So the proof follows the parts in the order of the code with `Ready`, which is
`Sound` without the choice of the inner route, and from the moment of each choice on with
the fact that it is the best one (`InnerBest`, `GatewayBest`). The routers are enumerated as a
hash map happens to iterate; the choice is described as a best element of a set
(`BestExists`), so nothing depends on that order.

**The BGP speakers.** A poll is a chain of functions from worlds to worlds (the speaker
and the connections), so the proof has one lemma per function of `BgpSpeaker`: each keeps
`WorldOK` of its own speaker and changes no end of a connection at the other one
(`Elsewhere`), which is why a poll of one speaker cannot orphan a connection of its
neighbour. `WorldOK(w, s, X)` adds to the two properties

* `Shape`: a speaker without a connection has no collision candidate either and is in Idle
  or Active, one in Idle has no connection, one that is shut down is in Idle with nothing
  retained. `start_peer` and `dial` overwrite the stream; this is why they overwrite none;
* `SynFirst`: a SYN is the first segment of its connection, so none reaches an end that is
  alive and comes out as data;
* the set `X` of connections still to be accepted, which shrinks by one with each turn of
  `accept_inbound`.

The loops of `accept_inbound` and `run_session` have any number of turns. They are
followed through the list of the worlds after each turn, which exists (`RunExists`), to
the first turn after which the claim would fail (`LeastNat`).

**The EVPN fabric.** Whether a duplicate is declared depends on the number `learn_local`
gives, which depends on what another leaf claimed an unknown number of UPDATEs ago. So
`FabricInv` speaks of every claim, in a leaf's own table, in its tunnels, in an
Adj-RIB-In or in an UPDATE under way: it is at most the number of its host's moves, and
below it if the claiming leaf is not where the host is (`ClaimOK`). The second part is
what makes the first inductive: a leaf that hears a frame of the host outbids only claims
of leaves where the host is not, by one. A move raises the bound for everybody, so old
claims need no case of their own.

That the Adj-RIBs agree is a statement about sequences of UPDATEs of any length. It rests
on three lemmas: what is read from a session in two calls has the same effect as in one
(`ImportConcat`); the UPDATEs that `advertise_evpn_to_peer` sends take the peer from the
Adj-RIB-Out to the desired routes, whatever the two are (`UpdatesBring`, by listing the
Adj-RIB-In after each group of one number); and an end that is down counts nothing as
told and has nothing to read (`DownForgets`), so that once the OPENs have flushed what
was retained (`FlushedOK`) a new session starts with both ends agreeing. Retained claims
obey `ClaimOK` like all others. What
importing does for every length is shown without an induction rule, from the first
position at which two lists would differ (`LeastNat`).

## 6. What is only model-checked, what disagrees, what is not modelled

**Only model-checked.** All liveness (`EventuallyDelivered`, `AbortReachesPeer`,
`EventuallyConnected`, `EventuallyTornDown`, `ParkedIsSent` and those of the other
models), which rests on fairness and is out of the proof system's reach. Of `BgpPair`, `SpeakersAgree`: its part `RibsAgree` holds with one
lost session and compares folds over what is under way, an induction over data.

**Findings.** Two runs end in a violation of what a comment of the repository says.

* `close_in_flight`: `poll_output` gives a connection up with the words "The peer is
  unreachable. Abort rather than retransmit forever" (`tcp.rs:1836`). `NoSpuriousAbort`
  asks for as many faults as there are retransmissions; TLC reaches the abort with one.
  LAST_ACK and CLOSING act on an acknowledgement of everything sent only (`tcp.rs:1609`,
  `1597`). If the data segment before the FIN was lost, its retransmission is acknowledged
  below `snd_nxt`, the acknowledgement is ignored, and the connection resends until it
  aborts, with the peer alive; CLOSE_WAIT in turn does not acknowledge retransmitted data
  again (`tcp.rs:1578`). `EventuallyTornDown` therefore speaks of connections whose data
  has been acknowledged.
* `two_losses`: the comment on `teardown` says that a transport loss "retains
  negotiated-family routes until its Restart Time expires" (`bgp_router.rs:2577`). A second
  loss before End-of-RIB keeps the cutoff of the first recovery (`bgp_router.rs:2608`), so
  the flush at the Restart Time spares the routes received between the two, and they stay
  without a session, a mark or a deadline. `RouteAccountedFor` states the comment; with
  one lost session it holds.

**Disagreements met while modelling.** The models follow the code in each of these; no
passing run depends on the contrary.

TCP and sockets:

* ESTABLISHED does not answer a retransmitted SYN-ACK, so a server whose last handshake
  ACK was lost and to whom the client writes nothing resends until it aborts.
* A zero-window probe counts against the retransmission limit although every probe is
  answered, so a reader that stays away long enough loses the connection.
* An overtaken ACK restores an old, larger send window: ESTABLISHED takes the window of
  every ACK, stale ones included (`tcp.rs:1518`). One reordering of two ACKs, the later one
  of which closed the window, lets the sender exceed it, although the repository's README
  (line 1392) promises `bytes_in_flight ≤ min(cwnd, rwnd)`. That the sender stays within
  the window is therefore not among the properties; the receiver takes nothing beyond it
  (`ReceiveBounded`).
* The SYN-ACK of a simultaneous open takes a sequence number nobody tracks.
* A stream closed by a reset reads `Ok(0)`, the answer documented for a complete stream
  (`EofIsEndOfStream`).
* A stream handle is resolved through its four-tuple, so the handle of a finished stream
  reads a later connection that uses the tuple again, against the comment at
  `socket.rs:236` (`ReadsOwnStream`).

BGP:

* After a collision the speakers may reconnect for ever (`CollisionEndsInSession` with
  `Setups <- Collision`), against the comment on `resolve_collision`. The second
  setup of `bgp_session` has collisions; `Establishes` is about the first.

Gateway: a parked packet is asked for once, with no timer; an IPv4 packet teaches the
sender's MAC without draining what is parked for it; the translation port counter wraps
onto ports in use (`RepliesReturn` holds up to that point); protocols other than UDP, TCP
and ICMP leave untranslated, and so does a UDP or TCP packet that ends before its ports,
since `translate_outbound` refuses it (`nat.rs:107`) and the caller ignores the refusal
(`lab.rs:2256`): `SourceHidden` is about packets that are translated, the run has both;
inbound ICMP is never translated back; a packet
translated inbound has passed the Input chain only.

IPv6:

* Packets parked for a neighbour that becomes known through an advertisement's or a
  solicitation's source option are never sent.
* A gateway configured by hand is dropped by the first timer call, since it is not in the
  learned list, against the comment at `stack.rs:261`.
* `configure_ipv6_interface`, also when an autoconfigured address is taken, forgets the
  learned RFC 4191 routes, against `stack.rs:251`; a default route learned that way then
  vanishes without a solicitation, which is why `LostRouterSolicits` excepts the call in
  which an address is taken (`AddressTaken`).
* The call in which the address expires clears gateway and router list (`stack.rs:1390`)
  and starts no discovery: `LostRouterSolicits` excepts it too (`AddressExpired`).
* A Neighbour Advertisement without the Router flag that removes the last default router
  does not start discovery.
* A redirect to a target that stops answering is kept; later packets wait for it.

EVPN: of several claims to a MAC `program_from_rib` keeps the last in the order of the
Route Distinguishers, not the one with the highest number. With three leaves, two stale
claims of equal number can hide the true one from each other and stay, against the
comment at `evpn_vtep.rs:425`; `SettledHostFollowed` names the case (`Masked`), which two
leaves cannot reach. A full table or a duplicate declaration leaves the old leaf's claim in
place. A flooded frame is not copied to the other access ports of its own VTEP.

**Not modelled.** The RTT estimator and the exact moments of TCP timers (any moment is
allowed instead); codecs and checksums (pure functions over bytes with their own tests);
`TcpManager` (superseded); equal-cost multipath; the IPv6 Prefix List, MTUs and DNS
options; BGP policy, path selection, reflection and the IPv6 family, whose code repeats
the IPv4 one; EVPN Route Targets. RIP, BFD, VRRP, HSRP, GLBP, STP and DHCP are codecs with
one short handler each and no timers: there is no protocol behaviour over time to check
(RIP's handler replaces the whole routing table, `lab.rs:1999`, and the split horizon its
header names does not exist). The shell prints demonstrations. The several hundred 5G,
O-RAN, Diameter, TSN and PTP libraries, most of the repository's lines, are independent
codecs and calculators that the stack does not call. `PROJECT.json` lists each part with
its reason.
