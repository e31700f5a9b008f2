---------------------------- MODULE ReliableStream ----------------------------
(***************************************************************************)
(* What one direction of a TCP connection promises the two applications,   *)
(* whatever the network does: an ordered byte stream that arrives without  *)
(* gap, damage or repetition, whose end is announced only after its last   *)
(* byte, and whose sender learns of a complete delivery only after it      *)
(* happened.                                                               *)
(***************************************************************************)
EXTENDS Sequences, SequencesExt

VARIABLES
    sent,       \* the bytes the sending application has written
    ended,      \* it has asked to close its direction
    received,   \* the bytes that reached the receiver, read or not
    eof,        \* the receiver knows the stream is complete
    confirmed   \* the sender knows the receiver does

vars == <<sent, ended, received, eof, confirmed>>

Init ==
    /\ sent = <<>> /\ received = <<>>
    /\ ended = FALSE /\ eof = FALSE /\ confirmed = FALSE

Grows(old, new) == IsStrictPrefix(old, new)

Send ==
    /\ ~ended
    /\ Grows(sent, sent')
    /\ UNCHANGED <<ended, received, eof, confirmed>>

End ==
    /\ ~ended /\ ended'
    /\ UNCHANGED <<sent, received, eof, confirmed>>

Deliver ==
    /\ ~eof
    /\ Grows(received, received') /\ IsPrefix(received', sent)
    /\ UNCHANGED <<sent, ended, eof, confirmed>>

Complete ==
    /\ ended /\ received = sent
    /\ ~eof /\ eof'
    /\ UNCHANGED <<sent, ended, received, confirmed>>

Confirm ==
    /\ eof
    /\ ~confirmed /\ confirmed'
    /\ UNCHANGED <<sent, ended, received, eof>>

Next == Send \/ End \/ Deliver \/ Complete \/ Confirm

Spec == Init /\ [][Next]_vars
================================================================================
