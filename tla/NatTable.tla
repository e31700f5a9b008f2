------------------------------ MODULE NatTable ------------------------------
(***************************************************************************)
(* The NAT table of src/nat.rs: source translation of the flows that leave *)
(* through the public address, the reverse lookup of their replies, and    *)
(* the static port forwards.  Checksums are left out: they are recomputed  *)
(* over whatever was rewritten.                                            *)
(***************************************************************************)
EXTENDS Naturals

CONSTANTS
    public,         \* the public address
    LowPort, HighPort,  \* the ports it hands out, 40000 and 65000 in the code
    Endpoint,       \* addresses with ports, [ip, port]
    Forwards        \* port_forwards: endpoint for an external port

ASSUME NatAssumption ==
    LowPort \in Nat /\ HighPort \in Nat /\ LowPort <= HighPort

NatPort == LowPort .. HighPort

\* proto is "udp" (TCP and UDP take the same path), "short" (TCP or UDP that ends
\* before its ports do, so that its ports mean nothing), "icmp" or "other".
Packet == [src : Endpoint, dst : Endpoint, proto : {"udp", "short", "icmp", "other"}]

\* outbound: external port of a flow (NatSessionKey), and inbound: who gets what
\* a remote endpoint sends to an external port; both finite partial functions.
EmptyNat == [next |-> LowPort, outbound |-> <<>>, inbound |-> <<>>]

Flow(p) == <<p.src, p.dst>>

With(f, x, y) == [z \in DOMAIN f \cup {x} |-> IF z = x THEN y ELSE f[z]]

\* allocate_port: the counter, which wraps and is not compared with the ports in
\* use.  PortRepeats does not step it, PortOverruns does not wrap it.
PortRepeats(n) == n
PortOverruns(n) == n + 1
PortAfter(n) == IF n >= HighPort THEN LowPort ELSE n + 1

\* What an inbound session is found by.  AnyRemote forgets who answers.
AnyRemote(port, remote) == <<port, [ip |-> public, port |-> port]>>
InboundKey(port, remote) == <<port, remote>>

Allocate(nat, p) ==
    [next |-> PortAfter(nat.next),
     outbound |-> With(nat.outbound, Flow(p), nat.next),
     inbound |-> With(nat.inbound, InboundKey(nat.next, p.dst), p.src)]

\* translate_outbound: the table and the packet it leaves.  It returns false, and
\* leaves the packet as it is, for a short one and for any other protocol; the
\* router does not look at what it returns.  IcmpUntouched leaves ICMP as it is.
Opened(nat, p) ==
    IF p.proto = "udp" /\ Flow(p) \notin DOMAIN nat.outbound THEN Allocate(nat, p) ELSE nat

IcmpUntouched(nat, p) ==
    IF p.proto = "udp"
    THEN [p EXCEPT !.src = [ip |-> public, port |-> Opened(nat, p).outbound[Flow(p)]]]
    ELSE p
TranslateOutbound(nat, p) ==
    CASE p.proto = "udp" ->
            [p EXCEPT !.src = [ip |-> public, port |-> Opened(nat, p).outbound[Flow(p)]]]
      [] p.proto = "icmp" -> [p EXCEPT !.src.ip = public]
      [] OTHER -> p

\* translate_inbound: dynamic sessions first, then the port forwards.
Translates(nat, p) ==
    p.proto = "udp" /\ (InboundKey(p.dst.port, p.src) \in DOMAIN nat.inbound
                        \/ p.dst.port \in DOMAIN Forwards)

TranslateInbound(nat, p) ==
    [p EXCEPT !.dst = IF InboundKey(p.dst.port, p.src) \in DOMAIN nat.inbound
                      THEN nat.inbound[InboundKey(p.dst.port, p.src)]
                      ELSE Forwards[p.dst.port]]
====
