------------------------------ MODULE SeqWindow ------------------------------
(***************************************************************************)
(* The send window of a connection kept in wrapping sequence numbers, as   *)
(* src/tcp.rs keeps it, beside the true number of unacknowledged bytes.    *)
(* Module TcpEndpoint models sequence numbers as naturals; this module     *)
(* shows that the wrapped window makes the same decisions, as long as no   *)
(* number it compares is half the sequence space away from snd_una.        *)
(*                                                                         *)
(* An acknowledgement is described by how far it lies from snd_una: ahead  *)
(* (new, or of data never sent) or behind (stale).                         *)
(***************************************************************************)
EXTENDS TcpSeq

CONSTANT MaxDistance      \* of any number in play from snd_una

ASSUME DistanceAssumption == MaxDistance \in Nat /\ MaxDistance < HalfSpace

VARIABLES
    snd_una, snd_nxt,     \* wrapped, as the code has them
    in_flight,            \* the code's count, kept with seq_diff
    outstanding           \* ghost: bytes really sent and not acknowledged

windowVars == <<snd_una, snd_nxt, in_flight, outstanding>>

WindowInit ==
    /\ snd_una \in SeqNum
    /\ snd_nxt = snd_una
    /\ in_flight = 0
    /\ outstanding = 0

\* poll_output puts n bytes on the wire
Send(n) ==
    /\ outstanding + n <= MaxDistance
    /\ snd_nxt' = WrappingAdd(snd_nxt, n)
    /\ in_flight' = in_flight + n
    /\ outstanding' = outstanding + n
    /\ UNCHANGED snd_una

\* The test of handle_segment for an acknowledgement of new data.
AcceptableAck(ack) == seq_gt(ack, snd_una) /\ seq_le(ack, snd_nxt)

\* What handle_segment does with an acknowledgement number.
TakeAck(ack) ==
    IF AcceptableAck(ack)
    THEN /\ snd_una' = ack
         /\ in_flight' = IF in_flight >= seq_diff(ack, snd_una)
                         THEN in_flight - seq_diff(ack, snd_una) ELSE 0
    ELSE UNCHANGED <<snd_una, in_flight>>

\* An acknowledgement d bytes ahead of snd_una: of d bytes in flight, or, when d
\* is more than that, of bytes never sent.
AckAhead(d) ==
    /\ TakeAck(WrappingAdd(snd_una, d))
    /\ outstanding' = IF d <= outstanding THEN outstanding - d ELSE outstanding
    /\ UNCHANGED snd_nxt

\* A stale acknowledgement, d bytes behind.
AckBehind(d) ==
    /\ TakeAck(WrappingSub(snd_una, d))
    /\ UNCHANGED <<snd_nxt, outstanding>>

WindowNext ==
    \E d \in 1 .. MaxDistance : Send(d) \/ AckAhead(d) \/ AckBehind(d)

WindowSpec == WindowInit /\ [][WindowNext]_windowVars

\* The wrapped window tracks the truth across every wraparound: an acknowledgement
\* is taken exactly when it covers bytes in flight, the distance from snd_una to
\* snd_nxt is the number of bytes outstanding, and so is bytes_in_flight.
WindowExact ==
    /\ snd_una \in SeqNum
    /\ outstanding \in 0 .. MaxDistance
    /\ snd_nxt = WrappingAdd(snd_una, outstanding)
    /\ in_flight = outstanding
================================================================================
