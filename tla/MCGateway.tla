----------------------------- MODULE MCGateway ------------------------------
(***************************************************************************)
(* The instance of Gateway that TLC checks: two LAN hosts, a server w that *)
(* is reached through isp or on the link, two external ports.              *)
(***************************************************************************)
EXTENDS Gateway

At(a, n) == [ip |-> a, port |-> n]
Send(a, m, b, n, proto) == [src |-> At(a, m), dst |-> At(b, n), proto |-> proto]

MCAddress == {"a", "b", "isp", "w", "inside", "public"}
MCEndpoint == [ip : MCAddress, port : {0, 1, 7, 9, 22, 25, 40, 41, 50, 80, 179}]
MCForwards == [n \in {50} |-> At("b", 22)]
MCDistance == [connected |-> 0, static |-> 1, bgp |-> 20]

Path(dst, len, gateway, iface, source) ==
    [dst |-> dst, len |-> len, gateway |-> gateway, iface |-> iface, source |-> source]
MCStartRoutes ==
    <<Path({"a", "b", "inside"}, 2, OnLink, "lan", "connected"),
      Path({"isp", "public"}, 2, OnLink, "wan", "connected")>>
MCCandidates ==
    {Path(MCAddress, 0, "w", "wan", "bgp"),
     Path(MCAddress, 0, "isp", "wan", "static")}

MCLanPackets ==
    {Send("a", 1, "w", 80, "udp"), Send("b", 1, "w", 80, "udp"), Send("b", 1, "w", 25, "udp"),
     Send("a", 1, "w", 25, "udp"), Send("a", 0, "isp", 0, "icmp"), Send("a", 0, "isp", 0, "short"),
     Send("b", 0, "inside", 0, "icmp")}
MCWanPackets ==
    {Send("w", 80, "public", 40, "udp"), Send("isp", 9, "public", 40, "udp"),
     Send("isp", 9, "public", 50, "udp"), Send("w", 80, "a", 7, "udp")}
MCInputRules == <<[match |-> {Send("w", 80, "public", 40, "udp")}, action |-> "accept"]>>
MCForwardRules ==
    <<[match |-> {Send("b", 1, "w", 25, "udp")}, action |-> "accept"],
      [match |-> {Send(h, 1, "w", 25, "udp") : h \in {"a", "b"}}, action |-> "drop"]>>
====
