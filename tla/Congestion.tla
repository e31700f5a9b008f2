------------------------------ MODULE Congestion ------------------------------
(***************************************************************************)
(* The congestion controller of one connection (src/congestion.rs): slow   *)
(* start, congestion avoidance, fast recovery, and the byte count that     *)
(* gates transmission.  The controller is a record; every method of the    *)
(* Rust type is an operator from a record to a record, so the connection   *)
(* applies several of them within one atomic handler.                      *)
(*                                                                         *)
(* Windows are unbounded naturals here: the code uses u32 with             *)
(* saturating_add, and no connection of the model comes near 2^32 bytes.   *)
(***************************************************************************)
EXTENDS Naturals

CONSTANT InitialSsthresh      \* ssthresh of a new controller, 65535 in the code

ASSUME SsthreshAssumption == InitialSsthresh \in Nat

CongestionState == {"SlowStart", "CongestionAvoidance", "FastRecovery"}

\* struct CongestionControl
CongestionControl ==
    [cwnd : Nat, ssthresh : Nat, mss : Nat, dup_ack_count : Nat,
     state : CongestionState, in_flight : Nat]

MinOf(a, b) == IF a <= b THEN a ELSE b
MaxOf(a, b) == IF a >= b THEN a ELSE b
Monus(a, b) == IF a >= b THEN a - b ELSE 0       \* saturating_sub

\* CongestionControl::new
NewCongestion(mss) ==
    [cwnd |-> 2 * mss, ssthresh |-> InitialSsthresh, mss |-> mss,
     dup_ack_count |-> 0, state |-> "SlowStart", in_flight |-> 0]

\* Growth of cwnd on an acknowledgement of new data, by congestion state.
GrownCwnd(cc, acked) ==
    CASE cc.state = "SlowStart" -> cc.cwnd + MinOf(acked, cc.mss)
      [] cc.state = "CongestionAvoidance" ->
            IF cc.cwnd > 0
            THEN cc.cwnd + MaxOf((cc.mss * cc.mss) \div cc.cwnd, 1)
            ELSE cc.cwnd
      [] cc.state = "FastRecovery" -> cc.ssthresh

OnAck(cc, acked) ==
    LET cwnd == GrownCwnd(cc, acked)
    IN  [cc EXCEPT
           !.in_flight = Monus(@, acked),
           !.cwnd = cwnd,
           !.dup_ack_count = 0,
           !.state = IF @ = "SlowStart" /\ cwnd < cc.ssthresh
                     THEN "SlowStart" ELSE "CongestionAvoidance"]

\* The third duplicate ACK is the one that triggers a fast retransmit.
TriggersFastRetransmit(cc) == cc.dup_ack_count + 1 = 3

Halved(cc) == MaxOf(cc.cwnd \div 2, 2 * cc.mss)

OnDupAck(cc) ==
    IF TriggersFastRetransmit(cc)
    THEN [cc EXCEPT !.dup_ack_count = 3,
                    !.ssthresh = Halved(cc),
                    !.cwnd = Halved(cc) + 3 * cc.mss,
                    !.state = "FastRecovery"]
    ELSE [cc EXCEPT !.dup_ack_count = @ + 1,
                    !.cwnd = IF cc.dup_ack_count >= 3 /\ cc.state = "FastRecovery"
                             THEN @ + cc.mss ELSE @]

OnTimeout(cc) ==
    [cc EXCEPT !.ssthresh = Halved(cc), !.cwnd = cc.mss,
               !.dup_ack_count = 0, !.state = "SlowStart"]

\* min(cwnd, peer window) less what is already in flight
SendWindowAvailable(cc, peerWindow) ==
    Monus(MinOf(cc.cwnd, peerWindow), cc.in_flight)

RecordSent(cc, bytes) == [cc EXCEPT !.in_flight = @ + bytes]
================================================================================
