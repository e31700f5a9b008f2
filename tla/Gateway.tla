------------------------------ MODULE Gateway -------------------------------
(***************************************************************************)
(* The IPv4 path of a LabRouter (src/lab.rs, process_incoming_frame) with  *)
(* one LAN and one WAN interface: firewall, ARP cache and the packets that *)
(* wait for an address, routing table, and address translation, fed by     *)
(* hosts on both sides over links that may lose ARP frames.                *)
(*                                                                         *)
(* A MAC address stands for the host that has it, so the ARP cache of an   *)
(* interface is the set of addresses it knows.  MPLS, VXLAN, RIP and the   *)
(* socket runtime behind the router's own addresses are other components.  *)
(***************************************************************************)
EXTENDS RoutingTable, NatTable

CONSTANTS
    lan, wan,       \* the two interfaces
    inside,         \* the router's address on the LAN
    LanHost,        \* hosts on the LAN
    WanHost,        \* hosts and gateways on the WAN link
    Candidates,     \* routes that may be installed and removed at run time
    StartRoutes,    \* the routes the router starts with
    LanPackets,     \* what the LAN hosts send: packets
    WanPackets,     \* what arrives from the WAN
    Peers,          \* who the router itself talks to (BGP)
    InputRules, ForwardRules,   \* the chains: sequences of [match, action]
    MaxPackets      \* bound on the packets the router accepts for forwarding

PortNumber == {e.port : e \in Endpoint}

\* The router's addresses are nobody else's, a LAN host sends under its own
\* address and what arrives from the WAN comes from there; the router starts
\* with a table it has sorted.
ASSUME GatewayAssumption ==
    /\ Iface = {lan, wan} /\ lan # wan
    /\ LanHost \cup WanHost \cup {inside, public} \subseteq Address
    /\ LanHost \cap WanHost = {} /\ {inside, public} \cap (LanHost \cup WanHost) = {}
    /\ Endpoint = [ip : Address, port : PortNumber]
    /\ NatPort \cup {179} \subseteq PortNumber
    /\ LanPackets \cup WanPackets \subseteq Packet /\ Peers \subseteq Address
    /\ \A p \in LanPackets : p.src.ip \in LanHost
    /\ \A p \in WanPackets : p.src.ip \in WanHost
    /\ \A n \in DOMAIN Forwards : Forwards[n] \in Endpoint
    /\ StartRoutes \in Seq(Route) /\ Sorted(StartRoutes) /\ Candidates \subseteq Route
    /\ MaxPackets \in Nat

Hop == Iface \X Address

VARIABLES
    routes,         \* routing_table
    nat,            \* nat_table
    arp,            \* arp_tables: addresses known on each interface
    pending,        \* pending_transit_packets of (interface, next hop)
    asked,          \* ARP requests on the wire
    lost,           \* history: hops whose last ARP exchange was lost
    accepted,       \* history: packets accepted for forwarding, numbered
    sent            \* history: frames transmitted

vars == <<routes, nat, arp, pending, asked, lost, accepted, sent>>

Init ==
    /\ routes = StartRoutes
    /\ nat = EmptyNat
    /\ arp = [i \in Iface |-> {}]
    /\ pending = [h \in Hop |-> <<>>]
    /\ asked = {} /\ lost = {}
    /\ accepted = 0
    /\ sent = {}

-----------------------------------------------------------------------------
(* Operations.                                                             *)

\* evaluate: the first rule that matches, or the chain's default (accept).
Evaluate(chain, p) ==
    LET hits == {i \in DOMAIN chain : p \in chain[i].match}
    IN  IF hits = {} THEN "accept" ELSE chain[Min(hits)].action

\* A request goes out for every packet that is parked.  AskForFirst sends one
\* for the first packet of the queue only.
AskForFirst(hop) == asked' = IF pending[hop] = <<>> THEN asked \cup {hop} ELSE asked
Ask(hop) == asked' = asked \cup {hop}

\* What every accepted packet ends with: out to the next hop when its address
\* is known, else parked behind an ARP request.  known is the ARP cache after
\* the packet's own sender has been learnt.
Transmit(p, known) ==
    LET r == Lookup(routes, p.dst.ip)
        hop == <<r.iface, NextHop(r, p.dst.ip)>>
        frame == [iface |-> r.iface, to |-> hop[2], packet |-> p, id |-> accepted + 1]
    IN  /\ accepted < MaxPackets
        /\ accepted' = accepted + 1
        /\ \/ /\ hop[2] \in known[r.iface]
              /\ sent' = sent \cup {frame}
              /\ UNCHANGED <<pending, asked, lost>>
           \/ /\ hop[2] \notin known[r.iface]
              /\ pending' = [pending EXCEPT ![hop] = Append(@, frame)]
              /\ Ask(hop)
              /\ lost' = lost \ {hop}
              /\ UNCHANGED sent

Learn(i, a) == [arp EXCEPT ![i] = @ \cup {a}]

\* is_for_router: the address of any interface.
ForRouter(a) == a \in {inside, public}

\* A packet from the LAN for the router itself: Input chain, sender learnt.  Its
\* own sockets and ICMP answer it (FromRouter); they touch none of these tables.
ToRouter(p) ==
    /\ ForRouter(p.dst.ip)
    /\ Evaluate(InputRules, p) = "accept"
    /\ arp' = Learn(lan, p.src.ip)
    /\ UNCHANGED <<routes, nat, pending, asked, lost, accepted, sent>>

\* A packet from the LAN to an address that is not the router's: Forward chain,
\* sender learnt, TTL, route, source translation when it leaves through the WAN.
\* (A TTL of one, or no route, ends with an ICMP error and changes no table.)
FromLan(p, ttl) ==
    LET known == Learn(lan, p.src.ip)
        leaves == Lookup(routes, p.dst.ip).iface = wan
    IN  /\ ~ForRouter(p.dst.ip)
        /\ Evaluate(ForwardRules, p) = "accept"
        /\ arp' = known
        /\ IF ttl <= 1 \/ ~HasRoute(routes, p.dst.ip)
           THEN UNCHANGED <<nat, pending, asked, lost, accepted, sent>>
           ELSE /\ nat' = IF leaves THEN Opened(nat, p) ELSE nat
                /\ Transmit(IF leaves THEN TranslateOutbound(nat, p) ELSE p, known)
        /\ UNCHANGED routes

\* A packet from the WAN for the router itself: Input chain, sender learnt,
\* inbound translation; what does not translate goes to the router's own sockets
\* and ICMP.
FromWan(p) ==
    LET known == Learn(wan, p.src.ip)
        inner == TranslateInbound(nat, p)
    IN  /\ ForRouter(p.dst.ip)
        /\ Evaluate(InputRules, p) = "accept"
        /\ arp' = known
        /\ IF Translates(nat, p) /\ HasRoute(routes, inner.dst.ip)
           THEN Transmit(inner, known)
           ELSE UNCHANGED <<pending, asked, lost, accepted, sent>>
        /\ UNCHANGED <<routes, nat>>

\* A packet from the WAN for any other address is forwarded untranslated.
PassThrough(p, ttl) ==
    LET known == Learn(wan, p.src.ip)
    IN  /\ ~ForRouter(p.dst.ip)
        /\ Evaluate(ForwardRules, p) = "accept"
        /\ arp' = known
        /\ IF ttl > 1 /\ HasRoute(routes, p.dst.ip)
           THEN Transmit(p, known)
           ELSE UNCHANGED <<pending, asked, lost, accepted, sent>>
        /\ UNCHANGED <<routes, nat>>

\* emit_from_local_stack: a packet of the router's own sockets.
FromRouter(a) ==
    /\ HasRoute(routes, a)
    /\ Transmit([src |-> [ip |-> public, port |-> 179], dst |-> [ip |-> a, port |-> 179],
                 proto |-> "udp"], arp)
    /\ UNCHANGED <<routes, nat, arp>>

\* An ARP packet of host a: its address is learnt, and what waited for it is
\* sent in the order it came.  DrainKeepsQueue sends without removing.
DrainKeepsQueue(hop) == UNCHANGED pending
Drain(hop) == pending' = [pending EXCEPT ![hop] = <<>>]

ReceiveArp(hop) ==
    /\ arp' = Learn(hop[1], hop[2])
    /\ sent' = sent \cup Range(pending[hop])
    /\ Drain(hop)
    /\ lost' = lost \ {hop}
    /\ UNCHANGED <<routes, nat, accepted>>

\* The reply to the router's request, and a request of the host's own.
ArpReply(hop) == hop \in asked /\ asked' = asked \ {hop} /\ ReceiveArp(hop)
ArpRequest(hop) == UNCHANGED asked /\ ReceiveArp(hop)

\* The request or its reply is lost; the router has no timer that repeats it.
LoseArp(hop) ==
    /\ hop \in asked
    /\ asked' = asked \ {hop}
    /\ lost' = lost \cup {hop}
    /\ UNCHANGED <<routes, nat, arp, pending, accepted, sent>>

\* A routing process installs or withdraws a route.
Install(r) ==
    /\ routes' = AddRoute(routes, r)
    /\ UNCHANGED <<nat, arp, pending, asked, lost, accepted, sent>>
Withdraw(r) ==
    /\ routes' = RemoveRoute(routes, r)
    /\ UNCHANGED <<nat, arp, pending, asked, lost, accepted, sent>>
TearDown(source) ==
    /\ routes' = RemoveAllFrom(routes, source)
    /\ UNCHANGED <<nat, arp, pending, asked, lost, accepted, sent>>

Hosts == ({lan} \X LanHost) \cup ({wan} \X WanHost)

Next ==
    \/ \E p \in LanPackets : ToRouter(p) \/ \E ttl \in 1 .. 2 : FromLan(p, ttl)
    \/ \E p \in WanPackets : FromWan(p) \/ \E ttl \in 1 .. 2 : PassThrough(p, ttl)
    \/ \E a \in Peers : FromRouter(a)
    \/ \E hop \in Hosts : ArpReply(hop) \/ ArpRequest(hop) \/ LoseArp(hop)
    \/ \E r \in Candidates : Install(r) \/ Withdraw(r)
    \/ \E s \in {r.source : r \in Candidates} : TearDown(s)

Spec == Init /\ [][Next]_vars

\* Hosts answer the ARP requests that reach them.
FairSpec == Spec /\ \A hop \in Hosts : WF_vars(ArpReply(hop))

-----------------------------------------------------------------------------
(* Properties.                                                             *)

Frame == [iface : Iface, to : Address, packet : Packet, id : 1 .. MaxPackets]

\* Type invariant.
TypeOK ==
    /\ routes \in Seq(Route)
    /\ nat.next \in NatPort
    /\ DOMAIN nat.outbound \subseteq Endpoint \X Endpoint
    /\ \A f \in DOMAIN nat.outbound : nat.outbound[f] \in NatPort
    /\ DOMAIN nat.inbound \subseteq NatPort \X Endpoint
    /\ \A k \in DOMAIN nat.inbound : nat.inbound[k] \in Endpoint
    /\ arp \in [Iface -> SUBSET Address]
    /\ pending \in [Hop -> Seq(Frame)]
    /\ asked \subseteq Hop /\ lost \subseteq Hop
    /\ accepted \in 0 .. MaxPackets
    /\ sent \subseteq Frame

\* The frames packet n left in, and the places in the queues where it waits.
SentAs(n) == {f \in sent : f.id = n}
HeldAt(n) == UNION {{h} \X {i \in DOMAIN pending[h] : pending[h][i].id = n} : h \in Hop}

\* Every packet accepted for forwarding is in one place: transmitted once or
\* parked once, however ARP traffic, route changes and losses interleave.
HeldOrSentOnce ==
    \A n \in 1 .. accepted : Cardinality(SentAs(n)) + Cardinality(HeldAt(n)) = 1

InFlight == sent \cup UNION {Range(pending[h]) : h \in Hop}

\* What a WAN host gets through to a LAN endpoint is the answer to a flow that
\* endpoint opened to it, or meets a port forward.
OnlySolicited ==
    \A f \in InFlight :
        f.packet.src.ip \in WanHost /\ f.packet.dst.ip \in LanHost =>
            \/ <<f.packet.dst, f.packet.src>> \in DOMAIN nat.outbound
            \/ f.packet.dst \in Range(Forwards)
            \/ f.packet \in WanPackets

\* As long as no more flows were opened than there are ports, no flow has lost
\* its port to another: the reply to its external port goes back to its source.
RepliesReturn ==
    Cardinality(DOMAIN nat.outbound) <= Cardinality(NatPort) =>
        \A f \in DOMAIN nat.outbound :
            LET reply == [src |-> f[2], proto |-> "udp",
                          dst |-> [ip |-> public, port |-> nat.outbound[f]]]
            IN  Translates(nat, reply) /\ TranslateInbound(nat, reply).dst = f[1]

\* No ICMP packet, and no TCP or UDP packet that is long enough to hold its ports,
\* is transmitted, or parked to be transmitted, on the WAN under a LAN host's
\* address, also when the route changed under it.  What translate_outbound refuses,
\* shorter packets and other protocols, does leave under it.
SourceHidden ==
    \A f \in InFlight :
        f.iface = wan /\ f.packet.proto \in {"udp", "icmp"} => f.packet.src.ip \notin LanHost

\* lookup finds the best route: no other route that covers the address has a
\* longer prefix, or an equal one and a smaller administrative distance.
LookupIsBest ==
    \A a \in Address : HasRoute(routes, a) =>
        LET best == Lookup(routes, a)
        IN  \A r \in Range(routes) : a \in r.dst =>
               /\ r.len <= best.len
               /\ r.len = best.len => Distance[best.source] <= Distance[r.source]

\* Forwarding and translation are sound together: the best route is taken, inside
\* addresses stay inside (but for what translate_outbound refuses), and only answers
\* and port forwards come in (lookup, translate_outbound, translate_inbound).
ForwardingSound == TypeOK /\ LookupIsBest /\ OnlySolicited /\ SourceHidden

\* Parked packets are sent, unless the ARP exchange that was to release them got
\* lost.
ParkedIsSent ==
    \A hop \in Hosts : pending[hop] # <<>> ~> pending[hop] = <<>> \/ hop \in lost
====
