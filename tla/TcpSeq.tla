-------------------------------- MODULE TcpSeq --------------------------------
(***************************************************************************)
(* Sequence-number arithmetic (src/tcp_seq.rs): 32-bit numbers that wrap,  *)
(* compared through the sign of their wrapped difference.  HalfSpace is    *)
(* 2^31 in the code.                                                       *)
(***************************************************************************)
EXTENDS Integers

CONSTANT HalfSpace

ASSUME HalfSpaceAssumption == HalfSpace \in Nat \ {0}

SeqSpace == 2 * HalfSpace
SeqNum == 0 .. (SeqSpace - 1)

\* u32::wrapping_sub and wrapping_add
WrappingSub(x, y) == IF x >= y THEN x - y ELSE x - y + SeqSpace
WrappingAdd(x, y) == IF x + y < SeqSpace THEN x + y ELSE x + y - SeqSpace

\* the cast "as i32"
AsSigned(x) == IF x < HalfSpace THEN x ELSE x - SeqSpace

seq_lt(s1, s2) == AsSigned(WrappingSub(s1, s2)) < 0
seq_le(s1, s2) == AsSigned(WrappingSub(s1, s2)) <= 0
\* Mutant: sequence numbers compared as plain integers.
plain_gt(s1, s2) == s1 > s2

seq_gt(s1, s2) == AsSigned(WrappingSub(s1, s2)) > 0
seq_ge(s1, s2) == AsSigned(WrappingSub(s1, s2)) >= 0
seq_diff(s2, s1) == WrappingSub(s2, s1)
================================================================================
