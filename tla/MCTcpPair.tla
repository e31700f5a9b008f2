------------------------------ MODULE MCTcpPair ------------------------------
(* Instances of TcpPair for TLC: client connects, server listens. *)
EXTENDS TcpPair

CONSTANTS client, server

Isns == [h \in {client, server} |-> IF h = client THEN 10 ELSE 30]
Mss11 == [h \in {client, server} |-> 1]
Mss21 == [h \in {client, server} |-> IF h = client THEN 2 ELSE 1]
Up4 == [h \in {client, server} |-> IF h = client THEN <<1, 2, 3, 4>> ELSE <<>>]
Up1 == [h \in {client, server} |-> IF h = client THEN <<1>> ELSE <<>>]
Both11 == [h \in {client, server} |-> IF h = client THEN <<1>> ELSE <<2>>]

Up == INSTANCE ReliableStream WITH
    sent <- Written(client), ended <- conn[client].close_requested,
    received <- Received(server), eof <- conn[server].fin_received, confirmed <- Confirmed(client)

Down == INSTANCE ReliableStream WITH
    sent <- Written(server), ended <- conn[server].close_requested,
    received <- Received(client), eof <- conn[client].fin_received, confirmed <- Confirmed(server)

\* Each direction of the connection implements the reliable stream: every step of
\* the two hosts, their clocks and the network is a step of it or leaves it alone.
ImplementsReliableStream == Up!Spec /\ Down!Spec
================================================================================
