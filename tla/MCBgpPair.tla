------------------------------ MODULE MCBgpPair ------------------------------
(* Instances of BgpPair for TLC. *)
EXTENDS BgpPair

\* One speaker dials and the other waits, and one session is lost; both dial, and the
\* connections collide.
OneLoss == {[dialers |-> {Low}, faults |-> 1, commands |-> 1],
            [dialers |-> Speaker, faults |-> 0, commands |-> 1]}

\* A second session is lost while the neighbour recovers from the first loss.
TwoLosses == {[dialers |-> {Low}, faults |-> 2, commands |-> 0]}

\* Both dial and nothing at all goes wrong.
Collision == {[dialers |-> Speaker, faults |-> 0, commands |-> 0]}
==============================================================================
