--------------------------- MODULE TcpWindowProofs ---------------------------
(***************************************************************************)
(* Proofs about what a sender believes of the window it has out.           *)
(*                                                                         *)
(* First, that the window kept in wrapping numbers (SeqWindow) is exact,   *)
(* for every size of the sequence space.                                   *)
(*                                                                         *)
(* Then, for the two hosts of TcpPair and every number of faults, that     *)
(* selective acknowledgement is sound (SackAlwaysSound).  A mark on an     *)
(* entry of the retransmission queue was caused by a block that was        *)
(* reported some time ago, in a segment that may have been overtaken or    *)
(* repeated, and is trusted for ever after.  SackInv therefore speaks of   *)
(* every entry that is marked or that some block still under way would     *)
(* mark: the receiver has all of it, and no acknowledgement under way ends *)
(* inside it.  That a block never covers half of an entry, and that a      *)
(* retransmission repeats an entry whole, is the part Fits and Aligned.    *)
(***************************************************************************)
EXTENDS TcpStreamProofs, SeqWindow

-----------------------------------------------------------------------------
(* The window in wrapping numbers *)

\* seq_lt, seq_le, seq_gt and seq_ge order two numbers as the positions they
\* stand for, and seq_diff is the distance between them, when both positions are
\* less than half the sequence space ahead of a common origin s.
THEOREM SerialOrder ==
    ASSUME NEW s \in SeqNum,
           NEW d \in 0 .. (HalfSpace - 1), NEW e \in 0 .. (HalfSpace - 1)
    PROVE  LET x == WrappingAdd(s, d)
               y == WrappingAdd(s, e)
           IN  /\ x \in SeqNum
               /\ seq_lt(x, y) <=> d < e
               /\ seq_le(x, y) <=> d <= e
               /\ seq_gt(x, y) <=> d > e
               /\ seq_ge(x, y) <=> d >= e
               /\ d <= e => seq_diff(y, x) = e - d
BY HalfSpaceAssumption
   DEF SeqNum, SeqSpace, WrappingAdd, WrappingSub, AsSigned,
       seq_lt, seq_le, seq_gt, seq_ge, seq_diff

\* A number behind the origin is never taken for one ahead of it.
LEMMA StaleIsBehind ==
    ASSUME NEW s \in SeqNum, NEW d \in 1 .. (HalfSpace - 1)
    PROVE  /\ WrappingSub(s, d) \in SeqNum
           /\ ~seq_gt(WrappingSub(s, d), s)
BY HalfSpaceAssumption
   DEF SeqNum, SeqSpace, WrappingSub, AsSigned, seq_gt

\* Adding nothing wraps nothing.
LEMMA AddZero == ASSUME NEW s \in SeqNum PROVE WrappingAdd(s, 0) = s
BY HalfSpaceAssumption DEF SeqNum, SeqSpace, WrappingAdd

\* Advancing by d and then by e is advancing by d + e.
LEMMA AddAdd ==
    ASSUME NEW s \in SeqNum, NEW d \in Nat, NEW e \in Nat, d + e < HalfSpace
    PROVE  WrappingAdd(WrappingAdd(s, d), e) = WrappingAdd(s, d + e)
BY HalfSpaceAssumption DEF SeqNum, SeqSpace, WrappingAdd

\* WindowExact is inductive as it stands: the send window kept in wrapping numbers
\* by handle_segment and poll_output is exact for every value of HalfSpace.
THEOREM WindowAlwaysExact == WindowSpec => []WindowExact
<1>1. WindowInit => WindowExact
  BY AddZero, DistanceAssumption DEF WindowInit, WindowExact
<1>2. WindowExact /\ [WindowNext]_windowVars => WindowExact'
  <2> SUFFICES ASSUME WindowExact, [WindowNext]_windowVars PROVE WindowExact'
    OBVIOUS
  <2> USE DistanceAssumption, HalfSpaceAssumption
  <2>1. CASE UNCHANGED windowVars
    BY <2>1 DEF windowVars, WindowExact
  <2>2. ASSUME NEW d \in 1 .. MaxDistance, Send(d) PROVE WindowExact'
    <3>1. WrappingAdd(snd_nxt, d) = WrappingAdd(snd_una, outstanding + d)
      BY <2>2, AddAdd DEF WindowExact, Send
    <3> QED
      BY <2>2, <3>1 DEF WindowExact, Send
  <2>3. ASSUME NEW d \in 1 .. MaxDistance, AckAhead(d) PROVE WindowExact'
    <3> DEFINE ack == WrappingAdd(snd_una, d)
    <3>1. /\ ack \in SeqNum
          /\ AcceptableAck(ack) <=> d <= outstanding
          /\ seq_diff(ack, snd_una) = d
      <4>1. snd_una = WrappingAdd(snd_una, 0)
        BY AddZero DEF WindowExact
      <4>2. /\ ack \in SeqNum
            /\ seq_gt(ack, WrappingAdd(snd_una, 0)) <=> d > 0
            /\ seq_le(ack, WrappingAdd(snd_una, outstanding)) <=> d <= outstanding
            /\ seq_diff(ack, WrappingAdd(snd_una, 0)) = d - 0
        BY SerialOrder DEF WindowExact
      <4> QED
        BY <4>1, <4>2 DEF WindowExact, AcceptableAck
    <3>2. CASE d <= outstanding
      <4>1. snd_una' = ack /\ in_flight' = outstanding - d /\ outstanding' = outstanding - d
        BY <2>3, <3>1, <3>2 DEF AckAhead, TakeAck, WindowExact
      <4>2. WrappingAdd(ack, outstanding - d) = WrappingAdd(snd_una, d + (outstanding - d))
        BY <3>2, AddAdd DEF WindowExact
      <4>3. d + (outstanding - d) = outstanding
        BY DEF WindowExact
      <4> QED
        BY <2>3, <3>1, <3>2, <4>1, <4>2, <4>3 DEF AckAhead, WindowExact
    <3>3. CASE d > outstanding
      BY <2>3, <3>1, <3>3 DEF AckAhead, TakeAck, WindowExact
    <3> QED
      BY <3>2, <3>3 DEF WindowExact
  <2>4. ASSUME NEW d \in 1 .. MaxDistance, AckBehind(d) PROVE WindowExact'
    <3>1. ~AcceptableAck(WrappingSub(snd_una, d))
      BY StaleIsBehind DEF WindowExact, AcceptableAck
    <3> QED
      BY <2>4, <3>1 DEF AckBehind, TakeAck, WindowExact
  <2> QED
    BY <2>1, <2>2, <2>3, <2>4 DEF WindowNext
<1> QED
  BY <1>1, <1>2, PTL DEF WindowSpec

-----------------------------------------------------------------------------
(* Selective acknowledgement: the invariant *)

\* The segments of a queue.
Members(s) == {s[i] : i \in DOMAIN s}

\* The segments of host h that are under way or wait in tcp_tx.
Underway(h) == Members(wire[Other(h)]) \cup Members(txq[h])

\* Entry e of the retransmission queue lies in block b.
Within(e, b) == b[1] <= e.seq /\ e.end <= b[2]

\* The sender takes e for held, or a segment of M will make it do so.
Reported(e, M) == e.sacked \/ \E m \in M : \E b \in m.sack : Within(e, b)

\* The receiver d has every number of e.
Holds(d, e) == \A k \in e.seq .. (e.end - 1) : k < d.rcv_nxt \/ \E s \in d.ooo : Covers(s, k)

\* The acknowledgement number n does not fall inside e.
Clear(e, n) == ~(e.seq <= n /\ n < e.end)

\* The numbers a up to b, b excluded, meet those of e.
Meets(a, b, e) == a < b /\ a < e.end /\ e.seq < b

\* The payload of segment m, sent on connection c, is that of one entry or of none.
Aligned(c, m) ==
    /\ m.seq + Len(m.data) <= c.snd_nxt
    /\ \A e \in c.rtq : Meets(m.seq, m.seq + Len(m.data), e)
                          => m.seq = e.seq /\ m.seq + Len(m.data) = e.end

\* What is parked does not reach down to rcv_nxt.
Gapped(d) == \A s \in d.ooo : d.rcv_nxt < s.seq /\ s.seq < EndOf(s)

Sized(e) == e.data = <<>> \/ e.end = e.seq + Len(e.data)

\* The retransmission queue holds what is unacknowledged, and nothing once all is.
Queued(c) ==
    /\ \A e \in c.rtq : c.snd_una < e.end /\ Sized(e)
    /\ c.state \in {"Closed", "FinWait2", "TimeWait"} => c.rtq = {}

\* Of a sender c and a receiver d; M and N are what each of them has under way.
Vouched(c, d, N) ==
    \A e \in c.rtq : Reported(e, N) =>
      /\ 0 < d.rcv_nxt
      /\ d.state # "Closed" => Holds(d, e)
      /\ Clear(e, c.snd_una)
      /\ \A m \in N : ~m.rst /\ m.isAck => Clear(e, m.ack)

Fits(c, d) ==
    \A s \in d.ooo, e \in c.rtq :
      Meets(s.seq, EndOf(s), e) => s.seq = e.seq /\ EndOf(s) <= e.end

SackPair(c, d, M, N) ==
    /\ Vouched(c, d, N) /\ Fits(c, d)
    /\ \A m \in N : \A b \in m.sack : b[2] <= c.snd_nxt
    /\ \A m \in M : m.rst \/ Aligned(c, m)

SackInv ==
    \A h \in Host :
      /\ Queued(conn[h]) /\ Gapped(conn[h])
      /\ SackPair(conn[h], conn[Other(h)], Underway(h), Underway(Other(h)))

-----------------------------------------------------------------------------
(* What a handler does to the queues *)

\* Every entry of x is one of c, marked only if it was or if a block of B says so,
\* or is new.
Inherits(c, B, x) ==
    \A f \in x.rtq :
      \/ \E e \in c.rtq : /\ f.seq = e.seq /\ f.end = e.end /\ f.data = e.data
                          /\ f.sacked => e.sacked \/ \E b \in B : Within(e, b)
      \/ c.snd_nxt <= f.seq /\ ~f.sacked

\* m tells what c has received.
Bears(c, m) == (m.isAck => m.ack = c.rcv_nxt) /\ m.sack \subseteq SackBlocks(c.ooo)

SameHeld(c, x) == x.rcv_nxt = c.rcv_nxt /\ x.ooo = c.ooo

\* s is what is left of the payload of m.
Part(m, s) == s.seq = m.seq /\ s.seq < EndOf(s) /\ EndOf(s) <= m.seq + Len(m.data)

\* A handler that takes segment m from the peer, whose queue is P, and marks what lies
\* in a block of B.
Hears(P, c, B, m, r) ==
    /\ Queued(r.c) /\ c.snd_nxt <= r.c.snd_nxt /\ Inherits(c, B, r.c)
    /\ r.c.snd_una = c.snd_una \/ (m.isAck /\ r.c.snd_una = m.ack)
    /\ Gapped(r.c)
    /\ \A e \in P : Holds(c, e) => Holds(r.c, e)
    /\ \A s \in r.c.ooo : s \in c.ooo \/ Part(m, s)
    /\ c.state = "Closed" => r.c.state = "Closed" /\ r.out = <<>>
    /\ \A i \in 1 .. Len(r.out) :
         Aligned(r.c, r.out[i]) /\ (Bears(c, r.out[i]) \/ Bears(r.c, r.out[i]))

\* A handler that takes nothing from the peer.
Emits(P, c, m, r) ==
    Hears(P, c, {}, m, r) /\ SameHeld(c, r.c) /\ r.c.snd_una = c.snd_una

-----------------------------------------------------------------------------

\* Every number inside a block of build_sack_blocks is parked, and a block starts and
\* ends with a parked segment.
LEMMA SackCovers ==
    ASSUME NEW segs \in SUBSET OooSegment, NEW b \in SackBlocks(segs)
    PROVE  /\ \E s \in segs : b[1] = s.seq
           /\ \E s \in segs : b[2] = EndOf(s)
           /\ \A k \in Nat : b[1] <= k /\ k < b[2] => \E s \in segs : Covers(s, k)
<1> DEFINE NextTo(s, t) == /\ s.seq < t.seq
                           /\ \A u \in segs : ~(s.seq < u.seq /\ u.seq < t.seq)
           Joined(s, t) == NextTo(s, t) /\ EndOf(s) = t.seq
           Run(s, t) == /\ s.seq <= t.seq
                        /\ ~ \E u \in segs : Joined(u, s) \/ Joined(t, u)
                        /\ \A u \in segs : s.seq <= u.seq /\ u.seq < t.seq
                                           => \E v \in segs : Joined(u, v)
<1>1. PICK x \in segs \X segs : Run(x[1], x[2]) /\ b = <<x[1].seq, EndOf(x[2])>>
  BY DEF SackBlocks
<1>2. PICK s \in segs, t \in segs : Run(s, t) /\ b[1] = s.seq /\ b[2] = EndOf(t)
  BY <1>1
<1>3. \A u \in segs : u.seq \in Nat /\ EndOf(u) \in Nat
  BY LenProperties DEF OooSegment, EndOf
<1>4. ASSUME NEW k \in Nat, b[1] <= k, k < b[2]
      PROVE  \E u \in segs : Covers(u, k)
  <2> DEFINE T == {j \in Nat : \E u \in segs : u.seq <= k /\ s.seq <= u.seq /\ j = k - u.seq}
  <2>1. k - s.seq \in T
    BY <1>2, <1>3, <1>4
  <2>2. PICK j \in T : \A i \in T : j <= i
    BY <2>1, NatMinimum
  <2>3. PICK u \in segs : u.seq <= k /\ s.seq <= u.seq /\ j = k - u.seq
    BY <2>2
  <2>4. CASE t.seq <= u.seq
    BY <1>2, <1>3, <1>4, <2>3, <2>4 DEF Covers
  <2>5. CASE u.seq < t.seq
    <3>1. PICK v \in segs : u.seq < v.seq /\ EndOf(u) = v.seq
      BY <1>2, <2>3, <2>5
    <3>2. v.seq <= k => k - v.seq \in T
      BY <1>2, <1>3, <2>3, <3>1
    <3>3. ~(v.seq <= k)
      BY <1>3, <2>2, <2>3, <3>1, <3>2
    <3> QED BY <1>3, <2>3, <3>1, <3>3 DEF Covers
  <2> QED BY <1>2, <1>3, <2>3, <2>4, <2>5
<1> QED BY <1>2, <1>4

\* One handler after another.
LEMMA InheritsTwice ==
    ASSUME NEW c \in Connection, NEW x \in Connection, NEW y \in Connection, NEW B,
           Inherits(c, B, x), Inherits(x, {}, y), c.snd_nxt <= x.snd_nxt
    PROVE  Inherits(c, B, y)
<1>1. c.snd_nxt \in Nat /\ x.snd_nxt \in Nat /\ x.rtq \in SUBSET RetransmitSegment
      /\ y.rtq \in SUBSET RetransmitSegment
  BY ConnTypes
<1> SUFFICES ASSUME NEW g \in y.rtq
             PROVE  \/ \E e \in c.rtq : /\ g.seq = e.seq /\ g.end = e.end /\ g.data = e.data
                                        /\ g.sacked => e.sacked \/ \E b \in B : Within(e, b)
                    \/ c.snd_nxt <= g.seq /\ ~g.sacked
  BY DEF Inherits
<1>2. g.seq \in Nat
  BY <1>1 DEF RetransmitSegment
<1>3. CASE x.snd_nxt <= g.seq /\ ~g.sacked
  BY <1>1, <1>2, <1>3
<1>4. ASSUME NEW f \in x.rtq, g.seq = f.seq, g.end = f.end, g.data = f.data,
             g.sacked => f.sacked
      PROVE  \/ \E e \in c.rtq : /\ g.seq = e.seq /\ g.end = e.end /\ g.data = e.data
                                 /\ g.sacked => e.sacked \/ \E b \in B : Within(e, b)
             \/ c.snd_nxt <= g.seq /\ ~g.sacked
  BY <1>4 DEF Inherits
<1> QED BY <1>3, <1>4 DEF Inherits

\* A segment stays aligned when the queue moves on.
LEMMA AlignedLater ==
    ASSUME NEW c \in Connection, NEW x \in Connection, NEW B, Inherits(c, B, x),
           c.snd_nxt <= x.snd_nxt, NEW m \in Segment, Aligned(c, m)
    PROVE  Aligned(x, m)
<1> DEFINE z == m.seq + Len(m.data)
<1>1. c.snd_nxt \in Nat /\ x.snd_nxt \in Nat /\ z \in Nat /\ m.seq \in Nat
      /\ x.rtq \in SUBSET RetransmitSegment
  BY ConnTypes, LenProperties DEF Segment
<1>2. z <= c.snd_nxt /\ \A e \in c.rtq : Meets(m.seq, z, e) => m.seq = e.seq /\ z = e.end
  BY DEF Aligned
<1> HIDE DEF z
<1>3. ASSUME NEW f \in x.rtq, Meets(m.seq, z, f) PROVE m.seq = f.seq /\ z = f.end
  <2>1. f.seq \in Nat
    BY <1>1 DEF RetransmitSegment
  <2>2. ~(c.snd_nxt <= f.seq)
    BY <1>1, <1>2, <1>3, <2>1 DEF Meets
  <2>3. PICK e \in c.rtq : f.seq = e.seq /\ f.end = e.end
    BY <2>2 DEF Inherits
  <2> QED BY <1>2, <1>3, <2>3 DEF Meets
<1>4. z <= x.snd_nxt
  BY <1>1, <1>2
<1> QED BY <1>3, <1>4 DEF Aligned, z

\* Two steps of a handler, the second of which takes nothing from the options; one of
\* them leaves what was received alone.
LEMMA HearsTwice ==
    ASSUME NEW P, NEW c \in Connection, NEW a, NEW r, a.c \in Connection, r.c \in Connection,
           a.out \in Seq(Segment), r.out \in Seq(Segment), NEW B, NEW m,
           Hears(P, c, B, m, a), Hears(P, a.c, {}, m, r),
           SameHeld(c, a.c) \/ SameHeld(a.c, r.c)
    PROVE  Hears(P, c, B, m, Result(r.c, a.out \o r.out))
<1> DEFINE out == a.out \o r.out
           R == Result(r.c, out)
<1>1. R.c = r.c /\ R.out = out
  BY DEF Result
<1>2. /\ out \in Seq(Segment) /\ Len(out) = Len(a.out) + Len(r.out)
      /\ Len(a.out) \in Nat /\ Len(r.out) \in Nat
      /\ \A i \in 1 .. Len(out) : out[i] = IF i <= Len(a.out) THEN a.out[i]
                                           ELSE r.out[i - Len(a.out)]
  BY ConcatProperties, LenProperties
<1>3. c.snd_nxt \in Nat /\ a.c.snd_nxt \in Nat /\ r.c.snd_nxt \in Nat
  BY ConnTypes
<1>4. Inherits(c, B, r.c) /\ c.snd_nxt <= r.c.snd_nxt
  BY <1>3, InheritsTwice DEF Hears
<1>5. /\ r.c.snd_una = c.snd_una \/ (m.isAck /\ r.c.snd_una = m.ack)
      /\ Queued(r.c) /\ Gapped(r.c) /\ \A e \in P : Holds(c, e) => Holds(r.c, e)
      /\ \A s \in r.c.ooo : s \in c.ooo \/ Part(m, s)
  BY DEF Hears
<1>6. c.state = "Closed" => r.c.state = "Closed" /\ out = <<>>
  <2> SUFFICES ASSUME c.state = "Closed" PROVE r.c.state = "Closed" /\ out = <<>>
    OBVIOUS
  <2>1. r.c.state = "Closed" /\ a.out = <<>> /\ r.out = <<>>
    BY DEF Hears
  <2> QED BY <2>1
<1>7. ASSUME NEW i \in 1 .. Len(out)
      PROVE  Aligned(r.c, out[i]) /\ (Bears(c, out[i]) \/ Bears(r.c, out[i]))
  <2>1. CASE i <= Len(a.out)
    <3>1. i \in 1 .. Len(a.out) /\ out[i] = a.out[i]
      BY <1>2, <1>7, <2>1
    <3>2. a.out[i] \in Segment
      BY <3>1, ElementOfSeq
    <3>3. Aligned(a.c, a.out[i]) /\ (Bears(c, a.out[i]) \/ Bears(a.c, a.out[i]))
      BY <3>1 DEF Hears
    <3>4. Aligned(r.c, a.out[i])
      BY <3>2, <3>3, AlignedLater DEF Hears
    <3> QED BY <3>1, <3>3, <3>4 DEF Bears, SameHeld
  <2>2. CASE i > Len(a.out)
    <3>1. i - Len(a.out) \in 1 .. Len(r.out) /\ out[i] = r.out[i - Len(a.out)]
      <4> DEFINE p == Len(a.out)
                 q == Len(r.out)
                 n == Len(out)
      <4>1. p \in Nat /\ q \in Nat /\ n = p + q /\ i \in 1 .. n /\ i > p
        BY <1>2, <1>7, <2>2
      <4> HIDE DEF p, q, n
      <4>2. i - p \in 1 .. q /\ ~(i <= p)
        BY <4>1
      <4> QED BY <1>2, <1>7, <4>2 DEF p, q
    <3>2. /\ Aligned(r.c, r.out[i - Len(a.out)])
          /\ Bears(a.c, r.out[i - Len(a.out)]) \/ Bears(r.c, r.out[i - Len(a.out)])
      BY <3>1 DEF Hears
    <3> QED BY <3>1, <3>2 DEF Bears, SameHeld
  <2> QED BY <1>2, <2>1, <2>2
<1> HIDE DEF out, R
<1>8. Hears(P, c, B, m, R)
  BY <1>1, <1>4, <1>5, <1>6, <1>7 DEF Hears
<1> QED BY <1>8 DEF R, out

\* Two handlers that take nothing from the peer.
LEMMA EmitsTwice ==
    ASSUME NEW P, NEW c \in Connection, NEW a, NEW r, a.c \in Connection, r.c \in Connection,
           a.out \in Seq(Segment), r.out \in Seq(Segment), NEW m,
           Emits(P, c, m, a), Emits(P, a.c, m, r)
    PROVE  Emits(P, c, m, Result(r.c, a.out \o r.out))
<1>1. Hears(P, c, {}, m, Result(r.c, a.out \o r.out))
  BY HearsTwice DEF Emits
<1>2. Result(r.c, a.out \o r.out).c = r.c
  BY DEF Result
<1>3. SameHeld(c, r.c) /\ r.c.snd_una = c.snd_una
  BY DEF Emits, SameHeld
<1> QED BY <1>1, <1>2, <1>3 DEF Emits

\* Emissions followed by a step that emits nothing.
LEMMA ThenQuietly ==
    ASSUME NEW P, NEW c \in Connection, NEW a, NEW x \in Connection, a.c \in Connection,
           a.out \in Seq(Segment), NEW m, Emits(P, c, m, a), Emits(P, a.c, m, Quietly(x))
    PROVE  Emits(P, c, m, Result(x, a.out))
<1>1. Quietly(x).c = x /\ Quietly(x).out = <<>> /\ <<>> \in Seq(Segment)
  BY DEF Quietly, Result
<1>2. a.out \o <<>> = a.out
  BY ConcatEmptySeq
<1> HIDE DEF Quietly
<1>3. Emits(P, c, m, Result(Quietly(x).c, a.out \o Quietly(x).out))
  BY <1>1, EmitsTwice
<1> QED BY <1>1, <1>2, <1>3

\* A handler that changes other fields only.
LEMMA EmitsMade ==
    ASSUME NEW P, NEW c, NEW x, NEW m, NEW out, Gapped(c), Queued(x), c.snd_nxt <= x.snd_nxt,
           Inherits(c, {}, x), SameHeld(c, x), x.snd_una = c.snd_una,
           c.state = "Closed" => x.state = "Closed" /\ out = <<>>,
           \A i \in 1 .. Len(out) : Aligned(x, out[i]) /\ Bears(x, out[i])
    PROVE  Emits(P, c, m, Result(x, out))
<1>1. Result(x, out).c = x /\ Result(x, out).out = out
  BY DEF Result
<1>2. Gapped(x) /\ \A e : Holds(c, e) => Holds(x, e)
  BY DEF SameHeld, Gapped, Holds
<1>3. \A s \in x.ooo : s \in c.ooo
  BY DEF SameHeld
<1> QED BY <1>1, <1>2, <1>3 DEF Emits, Hears

\* The entries that are left of a queue.
LEMMA InheritsPart ==
    ASSUME NEW c, NEW x, x.rtq \subseteq c.rtq
    PROVE  Inherits(c, {}, x)
  BY DEF Inherits

\* A handler that leaves the queues alone and emits nothing.
LEMMA EmitsQuietly ==
    ASSUME NEW P, NEW c \in Connection, NEW x, NEW m, Gapped(c), Queued(c),
           x.rtq = c.rtq \/ x.rtq = {}, x.snd_nxt = c.snd_nxt, x.snd_una = c.snd_una,
           SameHeld(c, x),
           c.state = "Closed" => x.state = "Closed",
           x.state = c.state \/ x.rtq = {} \/ x.state \notin {"Closed", "FinWait2", "TimeWait"}
    PROVE  Emits(P, c, m, Quietly(x))
<1>1. Queued(x)
  BY DEF Queued
<1>2. c.snd_nxt <= x.snd_nxt
  BY ConnTypes
<1>3. Inherits(c, {}, x)
  BY InheritsPart
<1>4. \A i \in 1 .. Len(<<>>) : Aligned(x, <<>>[i]) /\ Bears(x, <<>>[i])
  OBVIOUS
<1>5. Emits(P, c, m, Result(x, <<>>))
  BY <1>1, <1>2, <1>3, <1>4, EmitsMade
<1> QED BY <1>5 DEF Quietly

\* A handler that emits one segment.
LEMMA EmitsOne ==
    ASSUME NEW P, NEW c, NEW x, NEW m, NEW z, Gapped(c), Queued(x), c.snd_nxt <= x.snd_nxt,
           Inherits(c, {}, x), SameHeld(c, x), x.snd_una = c.snd_una, c.state # "Closed",
           Aligned(x, z), Bears(x, z)
    PROVE  Emits(P, c, m, Result(x, <<z>>))
<1>1. Len(<<z>>) = 1 /\ <<z>>[1] = z
  OBVIOUS
<1>2. \A i \in 1 .. Len(<<z>>) : Aligned(x, <<z>>[i]) /\ Bears(x, <<z>>[i])
  BY <1>1
<1> QED BY <1>2, EmitsMade

\* A segment without payload that tells what x has received.
LEMMA PlainBears ==
    ASSUME NEW x \in Connection, NEW z, z.data = <<>>, z.seq \in Nat, z.seq <= x.snd_nxt,
           z.isAck => z.ack = x.rcv_nxt, z.sack = {} \/ z.sack = SackOption(x)
    PROVE  Aligned(x, z) /\ Bears(x, z)
<1>1. z.seq + Len(z.data) = z.seq /\ ~(z.seq < z.seq)
  OBVIOUS
<1>2. Aligned(x, z)
  BY <1>1 DEF Aligned, Meets
<1> QED BY <1>2 DEF Bears, SackOption

\* build_ack
LEMMA BuildAckEmits ==
    ASSUME NEW P, NEW m, NEW c, ConnOK(c), Queued(c), Gapped(c), c.state # "Closed"
    PROVE  Emits(P, c, m, BuildAck(c))
<1> DEFINE w == CurrentRcvWnd(c)
           x == [c EXCEPT !.last_advertised_wnd = w]
           z == [AckSegment(c, c.snd_nxt) EXCEPT !.sack = SackOption(c)]
<1>1. BuildAck(c) = Result(x, <<z>>)
  BY DEF BuildAck
<1>2. c \in Connection /\ c.snd_nxt \in Nat
  BY DEF ConnOK, Connection
<1>3. x \in Connection
  <2>1. BuildAck(c).c = x
    BY <1>1 DEF Result
  <2> QED BY <2>1, BuildAckOK DEF Keeps, ConnOK
<1>4. /\ x.rtq = c.rtq /\ x.snd_nxt = c.snd_nxt /\ x.snd_una = c.snd_una /\ x.state = c.state
      /\ x.rcv_nxt = c.rcv_nxt /\ x.ooo = c.ooo /\ x.sack_permitted = c.sack_permitted
  BY <1>2 DEF Connection
<1>5. z.data = <<>> /\ z.seq = c.snd_nxt /\ z.ack = c.rcv_nxt /\ z.sack = SackOption(c)
  BY DEF AckSegment
<1> HIDE DEF x, z
<1>6. Aligned(x, z) /\ Bears(x, z)
  <2>1. SackOption(x) = SackOption(c)
    BY <1>4 DEF SackOption
  <2>2. z.seq \in Nat /\ z.seq <= x.snd_nxt
    BY <1>2, <1>4, <1>5
  <2> QED BY <1>3, <1>4, <1>5, <2>1, <2>2, PlainBears
<1>7. Queued(x) /\ SameHeld(c, x) /\ Inherits(c, {}, x) /\ c.snd_nxt <= x.snd_nxt
  BY <1>2, <1>4, InheritsPart DEF Queued, SameHeld
<1> QED BY <1>1, <1>4, <1>6, <1>7, EmitsOne

\* retransmit_oldest
LEMMA RetransmitOldestEmits ==
    ASSUME NEW P, NEW m, NEW c, ConnOK(c), Queued(c), Gapped(c), Tracks(c), c.state # "Closed"
    PROVE  Emits(P, c, m, RetransmitOldest(c))
<1> DEFINE e == First(Unsacked(c))
           z == [AckSegment(c, e.seq) EXCEPT
                   !.syn = e.syn, !.isAck = e.isAck, !.fin = e.fin, !.data = e.data,
                   !.mss = IF e.syn THEN c.local_mss ELSE 0,
                   !.sackOk = e.syn /\ c.sack_permitted,
                   !.sack = IF e.syn THEN {} ELSE SackOption(c)]
           e1 == [e EXCEPT !.retransmits = @ + 1]
           q == (c.rtq \ {e}) \cup {e1}
           x == [c EXCEPT !.rtq = q]
<1>1. RetransmitOldest(c) =
        IF Unsacked(c) = {} \/ e.retransmits >= MaxRetransmits
        THEN Quietly(c) ELSE Result(x, <<z>>)
  BY DEF RetransmitOldest
<1>2. c \in Connection /\ c.rtq \in SUBSET RetransmitSegment /\ Unsacked(c) \subseteq c.rtq
      /\ c.snd_nxt \in Nat
  BY ConnTypes DEF ConnOK, Unsacked
<1>3. Emits(P, c, m, Quietly(c))
  BY <1>2, EmitsQuietly DEF SameHeld
<1>4. CASE Unsacked(c) # {}
  <2>1. e \in c.rtq
    BY <1>2, <1>4, FirstOK
  <2> HIDE DEF e
  <2>2. e \in RetransmitSegment /\ e.seq \in Nat /\ e.end \in Nat /\ Len(e.data) \in Nat
    BY <1>2, <2>1, LenProperties DEF RetransmitSegment
  <2>3. e1.seq = e.seq /\ e1.end = e.end /\ e1.data = e.data /\ e1.sacked = e.sacked
    BY <2>2 DEF RetransmitSegment
  <2>4. z.data = e.data /\ z.seq = e.seq /\ z.ack = c.rcv_nxt
        /\ (z.sack = {} \/ z.sack = SackOption(c))
    BY DEF AckSegment
  <2>5. /\ x.rtq = q /\ x.snd_nxt = c.snd_nxt /\ x.snd_una = c.snd_una /\ x.state = c.state
        /\ x.rcv_nxt = c.rcv_nxt /\ x.ooo = c.ooo /\ x.sack_permitted = c.sack_permitted
    BY <1>2 DEF Connection
  <2> HIDE DEF e1, z, x
  <2>6. \A f \in x.rtq : \E g \in c.rtq : f.seq = g.seq /\ f.end = g.end /\ f.data = g.data
                                         /\ f.sacked = g.sacked
    BY <2>1, <2>3, <2>5
  <2>7. Queued(x)
    BY <2>1, <2>5, <2>6 DEF Queued, Sized
  <2>8. Inherits(c, {}, x)
    BY <2>6 DEF Inherits
  <2>9. Aligned(x, z)
    <3>1. e.seq < e.end /\ e.end <= c.snd_nxt /\ (e.data = <<>> \/ e.end = e.seq + Len(e.data))
      BY <2>1 DEF Tracks, Queued, Sized
    <3>2. CASE e.data = <<>>
      <4>1. z.seq + Len(z.data) = z.seq /\ z.seq <= x.snd_nxt /\ ~(z.seq < z.seq)
        BY <1>2, <2>2, <2>4, <2>5, <3>1, <3>2
      <4> QED BY <4>1 DEF Aligned, Meets
    <3>3. CASE e.end = e.seq + Len(e.data)
      <4>1. z.seq + Len(z.data) = e.end /\ z.seq = e.seq
        BY <2>4, <3>3
      <4>2. ASSUME NEW f \in x.rtq, Meets(e.seq, e.end, f) PROVE e.seq = f.seq /\ e.end = f.end
        <5>1. PICK g \in c.rtq : f.seq = g.seq /\ f.end = g.end
          BY <2>6
        <5>2. g.seq \in Nat /\ g.end \in Nat
          BY <1>2 DEF RetransmitSegment
        <5>3. e = g
          BY <2>1, <2>2, <4>2, <5>1, <5>2 DEF Tracks, Meets
        <5> QED BY <5>1, <5>3
      <4> QED BY <2>5, <3>1, <4>1, <4>2 DEF Aligned
    <3> QED BY <3>1, <3>2, <3>3
  <2>10. Bears(x, z)
    BY <2>4, <2>5 DEF Bears, SackOption
  <2>11. Emits(P, c, m, Result(x, <<z>>))
    <3>1. SameHeld(c, x) /\ c.snd_nxt <= x.snd_nxt
      BY <1>2, <2>5 DEF SameHeld
    <3> QED BY <2>5, <2>7, <2>8, <2>9, <2>10, <3>1, EmitsOne
  <2> QED BY <1>1, <1>3, <2>11
<1> QED BY <1>1, <1>3, <1>4

\* Nothing is acknowledged that was not sent.
LEMMA UnaBehind ==
    ASSUME NEW c, ConnOK(c), c.state \notin {"Closed", "TimeWait"}
    PROVE  c.snd_una <= c.snd_nxt
<1>1. c.snd_una \in Nat /\ c.snd_nxt \in Nat /\ c.cc.in_flight \in Nat
  BY DEF ConnOK, Connection, CongestionControl
<1> QED BY <1>1 DEF ConnOK, FlightOK

\* A segment that carries the payload of one entry.
LEMMA EntryAligned ==
    ASSUME NEW x \in Connection, Tracks(x), NEW e \in x.rtq, NEW z,
           z.seq = e.seq, z.seq + Len(z.data) = e.end
    PROVE  Aligned(x, z)
<1>1. \A f \in x.rtq : f.seq \in Nat /\ f.end \in Nat
  BY ConnTypes DEF RetransmitSegment
<1>2. ASSUME NEW f \in x.rtq, Meets(e.seq, e.end, f) PROVE e.seq = f.seq /\ e.end = f.end
  BY <1>1, <1>2 DEF Tracks, Meets
<1> QED BY <1>2 DEF Aligned, Tracks

\* emit_fin
LEMMA EmitFinEmits ==
    ASSUME NEW P, NEW m, NEW c, ConnOK(c), Queued(c), Gapped(c), Tracks(c)
    PROVE  Emits(P, c, m, EmitFin(c))
<1> DEFINE z == [AckSegment(c, c.snd_nxt) EXCEPT !.fin = TRUE]
           t == IF c.state = "Established" THEN "FinWait1" ELSE "LastAck"
           c1 == [c EXCEPT !.state = t, !.snd_nxt = c.snd_nxt + 1, !.fin_sent = TRUE]
           e == RtqEntry(c.snd_nxt, 1, FALSE, TRUE, TRUE, <<>>)
           x == TrackForRetransmit(c1, e)
<1>1. EmitFin(c) = IF MayEmitFin(c) THEN Result(x, <<z>>) ELSE Quietly(c)
  BY DEF EmitFin
<1>2. c \in Connection /\ c.snd_nxt \in Nat /\ c.snd_una \in Nat
  BY ConnTypes DEF ConnOK
<1>3. Emits(P, c, m, Quietly(c))
  BY <1>2, EmitsQuietly DEF SameHeld
<1>4. CASE MayEmitFin(c)
  <2>1. c.state \in {"Established", "CloseWait"} /\ c.snd_una <= c.snd_nxt
    BY <1>4, UnaBehind DEF MayEmitFin
  <2>2. /\ c1 \in Connection /\ c1.snd_una = c.snd_una /\ c1.snd_nxt = c.snd_nxt + 1
        /\ c1.rtq = c.rtq /\ c1.rcv_nxt = c.rcv_nxt /\ c1.ooo = c.ooo /\ c1.state = t
    <3>1. t \in TcpState
      BY DEF TcpState
    <3>2. TRUE \in BOOLEAN /\ c.snd_nxt + 1 \in Nat
      BY <1>2
    <3> HIDE DEF t
    <3>3. c1 \in Connection
      BY <1>2, <3>1, <3>2 DEF Connection
    <3> QED BY <1>2, <3>3 DEF Connection
  <2>3. e.seq = c.snd_nxt /\ e.end = c.snd_nxt + 1 /\ e.data = <<>> /\ ~e.sacked
    BY DEF RtqEntry
  <2> HIDE DEF c1, e
  <2>4. /\ x \in Connection /\ x.rtq = c.rtq \cup {e}
        /\ x.snd_una = c1.snd_una /\ x.snd_nxt = c1.snd_nxt /\ SameReceive(c1, x)
        /\ x.state = c1.state
    <3>1. c.state # "Closed"
      BY <2>1
    <3> QED BY <1>2, <2>2, <3>1, NumberedShape DEF e
  <2>5. z.data = <<>> /\ z.seq = c.snd_nxt /\ z.ack = c.rcv_nxt /\ z.sack = {}
    BY DEF AckSegment
  <2> HIDE DEF x, z
  <2>6. SameHeld(c, x)
    BY <2>2, <2>4 DEF SameHeld, SameReceive
  <2>7. z.seq \in Nat /\ z.seq <= x.snd_nxt /\ c.snd_nxt <= x.snd_nxt /\ c.snd_una < e.end
    BY <1>2, <2>1, <2>2, <2>3, <2>4, <2>5
  <2>8. Aligned(x, z) /\ Bears(x, z)
    BY <2>4, <2>5, <2>6, <2>7, PlainBears DEF SameHeld
  <2>9. Queued(x)
    BY <2>1, <2>2, <2>3, <2>4, <2>7 DEF Queued, Sized
  <2>10. Inherits(c, {}, x)
    BY <1>2, <2>3, <2>4 DEF Inherits
  <2>11. Emits(P, c, m, Result(x, <<z>>))
    BY <2>1, <2>2, <2>4, <2>6, <2>7, <2>8, <2>9, <2>10, EmitsOne
  <2> QED BY <1>1, <1>4, <2>11
<1> QED BY <1>1, <1>3, <1>4

\* Steps 1 and 5 of poll_output
LEMMA TransmitEmits ==
    ASSUME NEW P, NEW m, NEW h \in Host, NEW c, ConnOK(c), Sound(h, c), wrote[h] \in Nat,
           Queued(c), Gapped(c), c.state \notin {"Closed", "FinWait2", "TimeWait"},
           NEW n \in Nat \ {0}, n <= Len(c.tx), NEW size \in Nat \ {0}
    PROVE  Emits(P, c, m, Transmit(c, n, size))
<1> DEFINE s == c.snd_nxt
           starts == {o \in 0 .. (n - 1) : o % size = 0}
           Ch(o) == SubSeq(c.tx, o + 1, MinOf(o + size, n))
           Seg(o) == [AckSegment(c, s + o) EXCEPT !.data = Ch(o)]
           F(o) == RtqEntry(s + o, Len(Ch(o)), FALSE, TRUE, FALSE, Ch(o))
           E == {F(o) : o \in starts}
           q == c.rtq \cup E
           tx == SubSeq(c.tx, n + 1, Len(c.tx))
           cc == RecordSent(c.cc, n)
           k == s + n
           w == CurrentRcvWnd(c)
           x == [c EXCEPT !.tx = tx, !.snd_nxt = k, !.cc = cc, !.rtq = q,
                          !.last_advertised_wnd = w]
           N == Cardinality(starts)
           out == [i \in 1 .. N |-> Seg((i - 1) * size)]
           r == Transmit(c, n, size)
<1>1. r = Result(x, out) /\ r.c = x /\ r.out = out
  BY DEF Transmit, Result
<1>2. c \in Connection /\ s \in Nat /\ c.snd_una \in Nat /\ c.snd_una <= s
  BY ConnTypes, UnaBehind DEF ConnOK
<1>3. x \in Connection /\ Tracks(x) /\ x.state = c.state
  <2>1. Sends(h, c, r) /\ r.c.state = c.state
    BY TransmitSends
  <2> HIDE DEF x, out, r
  <2> QED BY <1>1, <2>1 DEF Sends, Steps, ConnOK, Sound, SendOK
<1>4. /\ x.rtq = q /\ x.snd_nxt = k /\ x.snd_una = c.snd_una /\ x.rcv_nxt = c.rcv_nxt
      /\ x.ooo = c.ooo
  <2> HIDE DEF q, k, cc, tx, w
  <2> QED BY <1>2 DEF Connection
<1>5. /\ N \in Nat
      /\ \A i \in 1 .. N : (i - 1) * size \in Nat /\ (i - 1) * size < n
  BY Starts
<1>6. \A i \in 1 .. N : (i - 1) * size \in starts
  <2> SUFFICES ASSUME NEW i \in 1 .. N PROVE (i - 1) * size \in starts
    OBVIOUS
  <2> HIDE DEF N
  <2>1. i - 1 \in Nat /\ (i - 1) * size = size * (i - 1)
    BY <1>5
  <2>2. (size * (i - 1)) % size = 0
    BY <2>1, Multiples
  <2>3. (i - 1) * size \in Nat /\ (i - 1) * size < n
    BY <1>5
  <2> DEFINE o == (i - 1) * size
  <2>4. o \in Nat /\ o < n /\ o % size = 0
    BY <2>1, <2>2, <2>3
  <2> HIDE DEF o
  <2>5. o \in starts
    BY <2>4
  <2> QED BY <2>5 DEF o
<1>7. \A o \in starts : o \in Nat
  OBVIOUS
<1>8. \A o \in starts : F(o).seq = s + o /\ F(o).end = s + o + Len(Ch(o)) /\ F(o).data = Ch(o)
                        /\ ~F(o).sacked
  BY DEF RtqEntry
<1>9. \A o \in starts : Seg(o).seq = s + o /\ Seg(o).data = Ch(o) /\ Seg(o).ack = c.rcv_nxt
                        /\ Seg(o).sack = {}
  BY DEF AckSegment
<1>10. \A i \in 1 .. Len(out) : i \in 1 .. N /\ out[i] = Seg((i - 1) * size)
  <2> HIDE DEF N, Seg
  <2>1. DOMAIN out = 1 .. N /\ Len(out) = N
    BY <1>5
  <2> QED BY <2>1
<1> HIDE DEF starts, F, Seg, N, x, out
<1>11. \A o \in starts : Aligned(x, Seg(o)) /\ Bears(x, Seg(o))
  <2> SUFFICES ASSUME NEW o \in starts PROVE Aligned(x, Seg(o)) /\ Bears(x, Seg(o))
    OBVIOUS
  <2>1. F(o) \in x.rtq
    BY <1>4
  <2>2. Seg(o).seq = F(o).seq /\ Seg(o).seq + Len(Seg(o).data) = F(o).end
    BY <1>8, <1>9
  <2>3. Aligned(x, Seg(o))
    BY <1>3, <2>1, <2>2, EntryAligned
  <2> QED BY <1>4, <1>9, <2>3 DEF Bears
<1>12. \A f \in x.rtq : f \in c.rtq \/ (s <= f.seq /\ ~f.sacked /\ Sized(f) /\ c.snd_una < f.end)
  <2> SUFFICES ASSUME NEW o \in starts
               PROVE  s <= F(o).seq /\ ~F(o).sacked /\ Sized(F(o)) /\ c.snd_una < F(o).end
    BY <1>4
  <2>1. F(o) \in x.rtq
    BY <1>4
  <2>2. F(o).seq < F(o).end /\ F(o).end \in Nat
    BY <1>3, <2>1, ConnTypes DEF Tracks, RetransmitSegment
  <2>3. o \in Nat /\ F(o).seq = s + o
    BY <1>7, <1>8
  <2>4. s <= F(o).seq /\ c.snd_una < F(o).end
    BY <1>2, <2>2, <2>3
  <2> QED BY <1>8, <2>4 DEF Sized
<1>13. Queued(x) /\ Inherits(c, {}, x)
  BY <1>3, <1>4, <1>12 DEF Queued, Inherits
<1>14. c.snd_nxt <= x.snd_nxt /\ SameHeld(c, x)
  BY <1>2, <1>4 DEF SameHeld
<1>15. \A i \in 1 .. Len(out) : Aligned(x, out[i]) /\ Bears(x, out[i])
  BY <1>6, <1>10, <1>11
<1>16. Emits(P, c, m, Result(x, out))
  BY <1>4, <1>13, <1>14, <1>15, EmitsMade
<1> QED BY <1>1, <1>16

\* Step 1 of poll_output
LEMMA SendQueuedEmits ==
    ASSUME NEW P, NEW m, NEW h \in Host, NEW c, ConnOK(c), Sound(h, c), wrote[h] \in Nat,
           Queued(c), Gapped(c)
    PROVE  Emits(P, c, m, SendQueued(c))
<1> DEFINE n == MinOf(Available(c), Len(c.tx))
<1>1. SendQueued(c) = IF Sending(c) /\ n > 0 THEN Transmit(c, n, c.peer_mss) ELSE Quietly(c)
  BY DEF SendQueued
<1>2. c \in Connection /\ Len(c.tx) \in Nat /\ c.peer_mss \in Nat \ {0}
  BY ConnTypes DEF ConnOK, Connection
<1>3. Emits(P, c, m, Quietly(c))
  BY <1>2, EmitsQuietly DEF SameHeld
<1>4. CASE Sending(c) /\ n > 0
  <2>1. Available(c) \in Nat
    BY <1>2 DEF Available, SendWindowAvailable, Connection, CongestionControl, MinOf, Monus
  <2>2. n \in Nat \ {0} /\ n <= Len(c.tx)
    <3>1. n \in Nat /\ n <= Len(c.tx)
      BY <1>2, <2>1, Saturating
    <3> HIDE DEF n
    <3> QED BY <1>4, <3>1
  <2>3. c.state \notin {"Closed", "FinWait2", "TimeWait"}
    BY <1>4 DEF Sending
  <2> HIDE DEF n
  <2>4. Emits(P, c, m, Transmit(c, n, c.peer_mss))
    BY <1>2, <2>2, <2>3, TransmitEmits
  <2> QED BY <1>1, <1>4, <2>4
<1> QED BY <1>1, <1>3, <1>4

\* Step 3 of poll_output
LEMMA TimeoutEmits ==
    ASSUME NEW P, NEW m, NEW h \in Host, NEW c, ConnOK(c), Sound(h, c), Queued(c), Gapped(c),
           c.state # "Closed"
    PROVE  Emits(P, c, m, Timeout(c))
<1> DEFINE cc == OnTimeout(c.cc)
           x == [c EXCEPT !.cc = cc]
<1>1. Timeout(c) = RetransmitOldest(x)
  BY DEF Timeout
<1>2. c \in Connection /\ c.cc \in CongestionControl /\ Tracks(c) /\ c.snd_nxt \in Nat
  BY DEF ConnOK, Connection, Sound, SendOK
<1>3. cc \in CongestionControl /\ cc.in_flight = c.cc.in_flight
  BY <1>2, OnTimeoutOK
<1> HIDE DEF cc
<1>4. /\ x \in Connection /\ x.rtq = c.rtq /\ x.state = c.state /\ x.cc = cc
      /\ x.snd_una = c.snd_una /\ x.snd_nxt = c.snd_nxt /\ SameReceive(c, x)
  BY <1>2, <1>3 DEF Connection, SameReceive
<1> HIDE DEF x
<1>5. ConnOK(x)
  BY <1>3, <1>4, SetOK
<1>6. Queued(x) /\ Gapped(x) /\ Tracks(x)
  BY <1>2, <1>4 DEF Queued, Gapped, Tracks, SameReceive
<1>7. Emits(P, x, m, RetransmitOldest(x))
  BY <1>4, <1>5, <1>6, RetransmitOldestEmits
<1>8. Emits(P, c, m, RetransmitOldest(x))
  BY <1>4, <1>7 DEF Emits, Hears, Inherits, SameHeld, SameReceive, Holds, Bears
<1> QED BY <1>1, <1>8

\* Step 5 of poll_output
LEMMA ProbeEmits ==
    ASSUME NEW P, NEW m, NEW h \in Host, NEW c, ConnOK(c), Sound(h, c), wrote[h] \in Nat,
           Queued(c), Gapped(c), NEW wasSending, NEW isDue,
           wasSending => c.state \notin {"Closed", "FinWait2", "TimeWait"}
    PROVE  Emits(P, c, m, Probe(c, wasSending, isDue))
<1> DEFINE x == [c EXCEPT !.persist = FALSE]
           y == [c EXCEPT !.persist = TRUE]
<1>1. Probe(c, wasSending, isDue) =
          IF ~(wasSending /\ Stalled(c)) THEN Quietly(x)
          ELSE IF c.persist /\ isDue THEN Transmit(c, 1, 1) ELSE Quietly(y)
  BY DEF Probe
<1>2. c \in Connection
  BY DEF ConnOK
<1>3. Emits(P, c, m, Quietly(x)) /\ Emits(P, c, m, Quietly(y))
  <2>1. /\ x.rtq = c.rtq /\ x.snd_nxt = c.snd_nxt /\ x.snd_una = c.snd_una /\ SameHeld(c, x)
        /\ x.state = c.state
        /\ y.rtq = c.rtq /\ y.snd_nxt = c.snd_nxt /\ y.snd_una = c.snd_una /\ SameHeld(c, y)
        /\ y.state = c.state
    BY <1>2 DEF Connection, SameHeld
  <2> HIDE DEF x, y
  <2> QED BY <1>2, <2>1, EmitsQuietly
<1>4. ASSUME wasSending, Stalled(c) PROVE Emits(P, c, m, Transmit(c, 1, 1))
  <2>1. c.tx # <<>> /\ c.tx \in Seq(Byte) /\ Len(c.tx) \in Nat
    BY <1>2, <1>4, ConnTypes DEF Stalled
  <2>2. Len(c.tx) # 0
    BY <2>1, EmptySeq
  <2>3. 1 <= Len(c.tx) /\ 1 \in Nat \ {0}
    BY <2>1, <2>2
  <2> QED BY <1>4, <2>3, TransmitEmits
<1> HIDE DEF x, y
<1> QED BY <1>1, <1>3, <1>4

\* poll_output, when the time-wait timer is due only in TimeWait
LEMMA PollOutputEmits ==
    ASSUME NEW P, NEW m, NEW h \in Host, NEW c, ConnOK(c), Sound(h, c), wrote[h] \in Nat,
           Queued(c), Gapped(c), NEW due, "timewait" \in due => c.state = "TimeWait"
    PROVE  Emits(P, c, m, PollOutput(c, due))
<1> DEFINE s1 == SendQueued(c)
           s2 == DeferredFin(s1.c)
           s3 == IF "rto" \in due THEN Timeout(s2.c) ELSE Quietly(s2.c)
           s4 == IF WindowReopened(s3.c) THEN BuildAck(s3.c) ELSE Quietly(s3.c)
           s5 == Probe(s4.c, Sending(c), "persist" \in due)
           c6 == IF "timewait" \in due THEN [s5.c EXCEPT !.state = "Closed"] ELSE s5.c
           a == Abort(s2.c)
           p2 == Result(s2.c, s1.out \o s2.out)
           p3 == Result(s3.c, p2.out \o s3.out)
           p4 == Result(s4.c, p3.out \o s4.out)
           p5 == Result(s5.c, p4.out \o s5.out)
           G(r) == ConnOK(r.c) /\ Sound(h, r.c) /\ r.c \in Connection /\ r.out \in Seq(Segment)
                   /\ r.c.state # "Closed"
           Q(x) == Queued(x) /\ Gapped(x)
<1>1. PollOutput(c, due) =
          IF c.aborted \/ c.state = "Closed" THEN Quietly(c)
          ELSE IF "rto" \in due /\ Exhausted(s2.c)
               THEN Result(a, s1.out \o s2.out)
               ELSE Result(c6, s1.out \o s2.out \o s3.out \o s4.out \o s5.out)
  BY DEF PollOutput
<1>2. c \in Connection
  BY DEF ConnOK
<1>3. \A x : ConnOK(x) /\ Sound(h, x) /\ Q(x) /\ x.state # "Closed" =>
        /\ Emits(P, x, m, Quietly(x)) /\ Sends(h, x, Quietly(x)) /\ Quietly(x).c = x
  BY EmitsQuietly, SendsNothing DEF SameHeld, ConnOK, Quietly, Result
<1>4. CASE c.aborted \/ c.state = "Closed"
  BY <1>1, <1>2, <1>4, EmitsQuietly DEF SameHeld
<1>5. CASE ~(c.aborted \/ c.state = "Closed")
  <2>1. Emits(P, c, m, s1) /\ G(s1) /\ s1.c.state = c.state
    BY <1>5, SendQueuedEmits, SendQueuedSends DEF Sends, Steps, ConnOK
  <2> HIDE DEF s1
  <2>2. Q(s1.c) /\ Tracks(s1.c)
    BY <2>1 DEF Emits, Hears, Sound, SendOK
  <2>3. Emits(P, s1.c, m, s2) /\ G(s2)
        /\ s2.c.state \in {c.state, "FinWait1", "LastAck"}
        /\ (c.state = "TimeWait" => s2.c.state = "TimeWait")
    <3>1. Emits(P, s1.c, m, s2)
      BY <1>3, <2>1, <2>2, EmitFinEmits DEF DeferredFin
    <3>2. Sends(h, s1.c, s2) /\ s2.c.state \in {s1.c.state, "FinWait1", "LastAck"}
      BY <2>1, DeferredFinSends
    <3>3. c.state = "TimeWait" => s2.c.state = "TimeWait"
      BY <2>1 DEF DeferredFin, EmitFin, MayEmitFin, Quietly, Result
    <3> HIDE DEF s2
    <3> QED BY <2>1, <1>5, <3>1, <3>2, <3>3 DEF Sends, Steps, ConnOK
  <2> HIDE DEF s2
  <2>4. Q(s2.c)
    BY <2>3 DEF Emits, Hears
  <2>5. Emits(P, c, m, p2) /\ p2.c = s2.c /\ p2.out = s1.out \o s2.out
        /\ p2.out \in Seq(Segment)
    BY <1>2, <2>1, <2>3, EmitsTwice, ConcatProperties DEF Result
  <2> HIDE DEF p2
  <2>6. CASE "rto" \in due /\ Exhausted(s2.c)
    <3>1. /\ a.rtq = {} /\ a.snd_nxt = s2.c.snd_nxt /\ a.snd_una = s2.c.snd_una
          /\ SameHeld(s2.c, a) /\ a.state = "Closed" /\ a \in Connection
      BY <2>3, AbortOK DEF Abort, Connection, SameHeld, ConnOK
    <3> HIDE DEF a
    <3>2. Emits(P, s2.c, m, Quietly(a)) /\ Quietly(a).c = a /\ Quietly(a).out = <<>>
      BY <2>3, <2>4, <3>1, EmitsQuietly DEF Quietly, Result
    <3>3. Emits(P, c, m, Result(a, p2.out))
      BY <1>2, <2>3, <2>5, <3>1, <3>2, ThenQuietly
    <3> QED BY <1>1, <1>5, <2>5, <2>6, <3>3
  <2>7. CASE ~("rto" \in due /\ Exhausted(s2.c))
    <3>1. Emits(P, s2.c, m, s3) /\ G(s3) /\ s3.c.state = s2.c.state
      <4>1. Sends(h, s2.c, Timeout(s2.c)) /\ Timeout(s2.c).c.state = s2.c.state
            /\ Emits(P, s2.c, m, Timeout(s2.c))
        BY <2>3, <2>4, TimeoutSends, TimeoutEmits
      <4> QED BY <1>3, <2>3, <2>4, <4>1 DEF Sends, Steps, ConnOK
    <3> HIDE DEF s3
    <3>2. Q(s3.c)
      BY <3>1 DEF Emits, Hears
    <3>3. Emits(P, s3.c, m, s4) /\ G(s4) /\ s4.c.state = s3.c.state
      <4>1. Sends(h, s3.c, BuildAck(s3.c)) /\ BuildAck(s3.c).c.state = s3.c.state
            /\ Emits(P, s3.c, m, BuildAck(s3.c))
        BY <3>1, <3>2, BuildAckSends, BuildAckEmits
      <4> QED BY <1>3, <3>1, <3>2, <4>1 DEF Sends, Steps, ConnOK
    <3> HIDE DEF s4
    <3>4. Q(s4.c)
      BY <3>3 DEF Emits, Hears
    <3>5. Emits(P, s4.c, m, s5) /\ s5.c \in Connection /\ s5.out \in Seq(Segment)
      <4>1. Sending(c) => s4.c.state \notin {"Closed", "FinWait2", "TimeWait"}
        BY <2>3, <3>1, <3>3 DEF Sending
      <4>2. Sends(h, s4.c, s5)
        BY <3>3, ProbeSends
      <4>3. Emits(P, s4.c, m, s5)
        BY <3>3, <3>4, <4>1, ProbeEmits
      <4> HIDE DEF s5
      <4> QED BY <4>2, <4>3 DEF Sends, Steps, ConnOK
    <3>6. c.state = "TimeWait" => s5.c.state = "TimeWait"
      BY <2>3, <3>1, <3>3 DEF Probe, Sending, Quietly, Result, Connection
    <3> HIDE DEF s5
    <3>7. Emits(P, c, m, p3) /\ p3.c = s3.c /\ p3.out = p2.out \o s3.out
          /\ p3.out \in Seq(Segment)
      BY <1>2, <2>3, <2>5, <3>1, EmitsTwice, ConcatProperties DEF Result
    <3> HIDE DEF p3
    <3>8. Emits(P, c, m, p4) /\ p4.c = s4.c /\ p4.out = p3.out \o s4.out
          /\ p4.out \in Seq(Segment)
      BY <1>2, <3>1, <3>3, <3>7, EmitsTwice, ConcatProperties DEF Result
    <3> HIDE DEF p4
    <3>9. Emits(P, c, m, p5) /\ p5.c = s5.c /\ p5.out = p4.out \o s5.out
          /\ p5.out \in Seq(Segment)
      BY <1>2, <3>3, <3>5, <3>8, EmitsTwice, ConcatProperties DEF Result
    <3> HIDE DEF p5
    <3>10. /\ c6.rtq = s5.c.rtq /\ c6.snd_nxt = s5.c.snd_nxt /\ c6.snd_una = s5.c.snd_una
           /\ SameHeld(s5.c, c6) /\ c6 \in Connection
           /\ c6.state = s5.c.state \/ (c6.state = "Closed" /\ s5.c.state = "TimeWait")
      BY <3>5, <3>6 DEF Connection, SameHeld, TcpState
    <3> HIDE DEF c6
    <3>11. Emits(P, s5.c, m, Quietly(c6)) /\ Quietly(c6).c = c6 /\ Quietly(c6).out = <<>>
      <4>1. Q(s5.c) /\ (s5.c.state = "TimeWait" => s5.c.rtq = {})
        BY <3>5 DEF Emits, Hears, Queued
      <4> QED BY <3>5, <3>10, <4>1, EmitsQuietly DEF Quietly, Result
    <3>12. Emits(P, c, m, Result(c6, p5.out))
      BY <1>2, <3>5, <3>9, <3>10, <3>11, ThenQuietly
    <3>13. p5.out = s1.out \o s2.out \o s3.out \o s4.out \o s5.out
      BY <2>5, <3>7, <3>8, <3>9
    <3> QED BY <1>1, <1>5, <2>7, <3>12, <3>13
  <2> QED BY <2>6, <2>7
<1> QED BY <1>4, <1>5

-----------------------------------------------------------------------------
(* Receiving *)

\* What c has parked, and the payload of m, are those of entries of P or of none.
Matches(P, c, m) ==
    /\ \A s \in c.ooo, e \in P :
         Meets(s.seq, EndOf(s), e) => s.seq = e.seq /\ EndOf(s) <= e.end
    /\ \A e \in P : Meets(m.seq, m.seq + Len(m.data), e)
                      => m.seq = e.seq /\ m.seq + Len(m.data) = e.end

\* drain_ooo closes the gap and gives up nothing.
LEMMA DrainHolds ==
    ASSUME NEW c \in Connection, ReceiveOK(c), \A s \in c.ooo : s.seq < EndOf(s)
    PROVE  LET x == DrainOoo(c)
           IN  /\ Gapped(x) /\ x.ooo \subseteq c.ooo
               /\ \A e \in RetransmitSegment : Holds(c, e) => Holds(x, e)
<1> DEFINE M == {c.rcv_nxt} \cup {EndOf(s) : s \in c.ooo}
           n == CHOOSE n \in M : ContiguousTo(c, n)
           x == DrainOoo(c)
<1>1. n \in M /\ ContiguousTo(c, n)
  BY ContiguousExists
<1>2. x.rcv_nxt = n /\ x.ooo = {s \in c.ooo : EndOf(s) > n}
  BY DEF DrainOoo, Connection
<1>3. c.rcv_nxt \in Nat /\ \A s \in c.ooo : s.seq \in Nat /\ EndOf(s) \in Nat
  BY LenProperties DEF Connection, OooSegment, EndOf
<1>4. n \in Nat
  BY <1>1, <1>3
<1> HIDE DEF n, x
<1>5. Gapped(x)
  BY <1>1, <1>2, <1>3, <1>4 DEF Gapped, ContiguousTo, Covers
<1>6. ASSUME NEW e \in RetransmitSegment, Holds(c, e) PROVE Holds(x, e)
  <2> SUFFICES ASSUME NEW k \in e.seq .. (e.end - 1)
               PROVE  k < x.rcv_nxt \/ \E s \in x.ooo : Covers(s, k)
    BY DEF Holds
  <2>1. k \in Int
    BY DEF RetransmitSegment
  <2>2. k < c.rcv_nxt \/ \E s \in c.ooo : Covers(s, k)
    BY <1>6 DEF Holds
  <2>3. c.rcv_nxt <= n
    BY <1>1 DEF ContiguousTo
  <2> QED BY <1>2, <1>3, <1>4, <2>1, <2>2, <2>3 DEF Covers
<1> QED BY <1>2, <1>5, <1>6 DEF x

\* buffer_ooo gives up nothing that has been reported, at its limit either: an entry
\* of the sender that is held whole is one parked segment, which contains whatever is
\* left of another copy of it.
LEMMA BufferHolds ==
    ASSUME NEW c \in Connection, Gapped(c), NEW P \in SUBSET RetransmitSegment,
           NEW m \in Segment, Matches(P, c, m), NEW data \in Seq(Byte), data # <<>>,
           Len(data) <= Len(m.data), c.rcv_nxt < m.seq
    PROVE  LET x == BufferOoo(c, m.seq, data)
           IN  /\ Gapped(x) /\ \A e \in P : Holds(c, e) => Holds(x, e)
               /\ \A s \in x.ooo : s \in c.ooo \/ Part(m, s)
<1> DEFINE new == [seq |-> m.seq, data |-> data]
           kept == {s \in c.ooo : ~(m.seq <= s.seq /\ EndOf(s) <= EndOf(new))}
           Inside == \E s \in c.ooo : s.seq <= m.seq /\ EndOf(new) <= EndOf(s)
           x == BufferOoo(c, m.seq, data)
<1>1. x.rcv_nxt = c.rcv_nxt
      /\ \/ x = c
         \/ ~Inside /\ x.ooo = kept
         \/ x.ooo = kept \cup {new}
  BY DEF BufferOoo, Connection
<1>2. /\ c.rcv_nxt \in Nat /\ m.seq \in Nat /\ Len(data) \in Nat /\ Len(m.data) \in Nat
      /\ \A s \in c.ooo : s.seq \in Nat /\ EndOf(s) \in Nat
      /\ \A e \in P : e.seq \in Nat /\ e.end \in Nat
  BY LenProperties DEF Connection, OooSegment, EndOf, Segment, RetransmitSegment
<1>3. new.seq = m.seq /\ EndOf(new) = m.seq + Len(data)
  BY DEF EndOf
<1>4. Len(data) # 0
  BY EmptySeq
<1>5. Part(m, new) /\ m.seq < EndOf(new) /\ EndOf(new) \in Nat
  BY <1>2, <1>3, <1>4 DEF Part
<1> HIDE DEF new
<1>6. \A s \in x.ooo : s \in c.ooo \/ Part(m, s)
  BY <1>1, <1>5
<1>7. Gapped(x)
  BY <1>1, <1>3, <1>5 DEF Gapped
<1>8. ASSUME NEW e \in P, Holds(c, e) PROVE Holds(x, e)
  <2> SUFFICES ASSUME NEW k \in e.seq .. (e.end - 1)
               PROVE  k < x.rcv_nxt \/ \E s \in x.ooo : Covers(s, k)
    BY DEF Holds
  <2>1. k \in Nat /\ e.seq <= k /\ k < e.end
    BY <1>2
  <2>2. CASE k < c.rcv_nxt
    BY <1>1, <2>2
  <2>3. ASSUME NEW s \in c.ooo, Covers(s, k) PROVE \E t \in x.ooo : Covers(t, k)
    <3>1. CASE s \in x.ooo
      BY <2>3, <3>1
    <3>2. CASE s \notin x.ooo
      <4>1. m.seq <= s.seq /\ EndOf(s) <= EndOf(new)
        BY <1>1, <3>2
      <4>2. Covers(new, k)
        BY <1>2, <1>3, <1>5, <2>1, <2>3, <4>1 DEF Covers
      <4>3. CASE new \in x.ooo
        BY <4>2, <4>3
      <4>4. CASE new \notin x.ooo
        <5>1. ~Inside
          BY <1>1, <3>2, <4>4
        <5>2. Meets(m.seq, m.seq + Len(m.data), e)
          BY <1>2, <1>3, <2>1, <4>2 DEF Meets, Covers
        <5>3. m.seq = e.seq /\ m.seq + Len(m.data) = e.end
          BY <5>2 DEF Matches
        <5>4. e.end - 1 \in e.seq .. (e.end - 1) /\ ~(e.end - 1 < c.rcv_nxt)
          BY <1>2, <2>1, <5>3
        <5>5. PICK t \in c.ooo : Covers(t, e.end - 1)
          BY <1>8, <5>4 DEF Holds
        <5>6. Meets(t.seq, EndOf(t), e)
          BY <1>2, <5>4, <5>5 DEF Meets, Covers
        <5>7. t.seq = e.seq /\ EndOf(t) = e.end
          BY <1>2, <5>5, <5>6 DEF Matches, Covers
        <5> QED BY <1>2, <1>3, <5>1, <5>3, <5>7
      <4> QED BY <4>3, <4>4
    <3> QED BY <3>1, <3>2
  <2> QED BY <1>8, <2>2, <2>3 DEF Holds
<1> QED BY <1>6, <1>7, <1>8

\* accept_data
LEMMA AcceptHolds ==
    ASSUME NEW c, ConnOK(c), c.state \notin {"Listen", "SynSent"}, Gapped(c),
           NEW P \in SUBSET RetransmitSegment, NEW m \in Segment, Matches(P, c, m)
    PROVE  LET x == AcceptData(c, m.seq, m.data)
           IN  /\ Gapped(x) /\ \A e \in P : Holds(c, e) => Holds(x, e)
               /\ \A s \in x.ooo : s \in c.ooo \/ Part(m, s)
<1> DEFINE n == Len(m.data)
           w == CurrentRcvWnd(c)
           lo == MaxOf(m.seq, c.rcv_nxt)
           hi == MinOf(m.seq + n, c.rcv_nxt + w)
           fresh == SubSeq(m.data, lo - m.seq + 1, hi - m.seq)
           y == c.rx \o fresh
           d == [c EXCEPT !.rx = y, !.rcv_nxt = hi]
           x == AcceptData(c, m.seq, m.data)
<1>1. c \in Connection /\ ReceiveOK(c) /\ m.seq \in Nat /\ m.data \in Seq(Byte)
  BY DEF ConnOK, Segment
<1>2. /\ c.rcv_nxt \in Nat /\ c.rx \in Seq(Byte) /\ n \in Nat /\ w \in Nat
      /\ Len(c.rx) \in Nat /\ Len(c.rx) + w = RcvCapacity
      /\ \A s \in c.ooo : s.seq \in Nat /\ EndOf(s) \in Nat
  BY <1>1, WindowOK, LenProperties DEF Connection, ReceiveOK, OooSegment, EndOf
<1>3. x = IF lo >= hi THEN c
          ELSE IF lo = c.rcv_nxt THEN DrainOoo(d) ELSE BufferOoo(c, lo, fresh)
  BY DEF AcceptData
<1> HIDE DEF x
<1>4. /\ lo \in Nat /\ hi \in Nat /\ lo >= m.seq /\ lo >= c.rcv_nxt
      /\ hi <= m.seq + n /\ hi <= c.rcv_nxt + w /\ lo \in {m.seq, c.rcv_nxt}
  <2> HIDE DEF n, w
  <2>1. m.seq + n \in Nat /\ c.rcv_nxt + w \in Nat
    BY <1>1, <1>2
  <2> QED BY <1>1, <1>2, <2>1, Saturating DEF MaxOf
<1> HIDE DEF lo, hi
<1>5. CASE lo >= hi
  BY <1>3, <1>5 DEF x
<1>6. ASSUME lo < hi PROVE fresh \in Seq(Byte) /\ Len(fresh) = hi - lo
  <2> DEFINE i == lo - m.seq + 1
             j == hi - m.seq
  <2>1. i \in Nat \ {0} /\ j \in Int /\ j <= n /\ i <= j /\ j - i + 1 = hi - lo
    <3> DEFINE q == m.seq
    <3>1. q \in Nat /\ n \in Nat /\ lo \in Nat /\ hi \in Nat /\ lo >= q /\ hi <= q + n
      BY <1>1, <1>2, <1>4
    <3> HIDE DEF n, q
    <3>2. /\ lo - q + 1 \in Nat \ {0} /\ hi - q \in Int /\ hi - q <= n
          /\ lo - q + 1 <= hi - q /\ (hi - q) - (lo - q + 1) + 1 = hi - lo
      BY <1>6, <3>1
    <3> QED BY <3>2 DEF q
  <2>2. j <= Len(m.data) BY <2>1
  <2> HIDE DEF i, j
  <2>3. /\ SubSeq(m.data, i, j) \in Seq(Byte)
        /\ Len(SubSeq(m.data, i, j)) = IF i <= j THEN j - i + 1 ELSE 0
    BY <1>1, <2>1, <2>2, Slice
  <2> QED BY <2>1, <2>3 DEF i, j
<1> HIDE DEF fresh
<1>7. CASE lo < hi /\ lo = c.rcv_nxt
  <2>1. y \in Seq(Byte) /\ Len(y) = Len(c.rx) + (hi - lo)
    BY <1>2, <1>6, <1>7, ConcatProperties
  <2>2. d \in Connection /\ d.rx = y /\ d.rcv_nxt = hi /\ d.ooo = c.ooo /\ d.state = c.state
    <3> HIDE DEF y
    <3> QED BY <1>1, <1>4, <2>1 DEF Connection
  <2> HIDE DEF d, y, w
  <2>3. ReceiveOK(d)
    <3> DEFINE v == CurrentRcvWnd(d)
    <3>1. Len(d.rx) <= RcvCapacity
      BY <1>2, <1>4, <1>7, <2>1, <2>2
    <3>2. Len(c.rx) + (hi - lo) + v = RcvCapacity /\ v \in Nat
      BY <2>1, <2>2, <3>1, WindowOK
    <3>3. Edge(d) = hi + v /\ Edge(c) = c.rcv_nxt + w
      BY <2>2 DEF Edge, w
    <3> HIDE DEF v
    <3>4. Edge(d) = Edge(c)
      <4> DEFINE a == Len(c.rx)
      <4>1. /\ a \in Nat /\ w \in Nat /\ v \in Nat /\ hi \in Nat /\ lo \in Nat
            /\ a + w = a + (hi - lo) + v
        BY <1>2, <1>4, <3>2
      <4> HIDE DEF a
      <4>2. hi + v = lo + w
        BY <4>1
      <4> QED BY <1>7, <3>3, <4>2
    <3> QED BY <1>1, <2>2, <3>1, <3>4 DEF ReceiveOK
  <2>4. /\ Gapped(DrainOoo(d)) /\ DrainOoo(d).ooo \subseteq d.ooo
        /\ \A e \in RetransmitSegment : Holds(d, e) => Holds(DrainOoo(d), e)
    BY <2>2, <2>3, DrainHolds DEF Gapped
  <2>5. ASSUME NEW e \in P, Holds(c, e) PROVE Holds(d, e)
    <3>1. \A k \in e.seq .. (e.end - 1) : k < c.rcv_nxt => k < hi
      BY <1>2, <1>4, <1>7 DEF RetransmitSegment
    <3> QED BY <2>2, <2>5, <3>1 DEF Holds
  <2>6. x = DrainOoo(d)
    BY <1>3, <1>4, <1>7
  <2> QED BY <2>2, <2>4, <2>5, <2>6 DEF x
<1>8. CASE lo < hi /\ lo # c.rcv_nxt
  <2>1. lo = m.seq /\ c.rcv_nxt < m.seq /\ x = BufferOoo(c, m.seq, fresh)
    BY <1>1, <1>2, <1>3, <1>4, <1>8
  <2>2. fresh # <<>> /\ Len(fresh) <= n
    <3>1. Len(<<>>) = 0
      OBVIOUS
    <3> HIDE DEF n
    <3> QED BY <1>1, <1>2, <1>4, <1>6, <1>8, <2>1, <3>1
  <2> QED BY <1>1, <1>6, <1>8, <2>1, <2>2, BufferHolds DEF x
<1> QED BY <1>4, <1>5, <1>7, <1>8 DEF x

-----------------------------------------------------------------------------
(* handle_segment *)

\* Host h, on connection c, takes segment m of a peer whose queue is P.
Ready(P, h, c, m) ==
    /\ P \in SUBSET RetransmitSegment /\ Arrives(h, m) /\ Matches(P, c, m)
    /\ ConnOK(c) /\ Sound(h, c) /\ Queued(c) /\ Gapped(c)

\* A handler that takes no payload.
LEMMA HearsMade ==
    ASSUME NEW P \in SUBSET RetransmitSegment, NEW c \in Connection, NEW x \in Connection,
           NEW B, NEW m, NEW out, Gapped(x), Queued(x), c.snd_nxt <= x.snd_nxt,
           Inherits(c, B, x), x.snd_una = c.snd_una \/ (m.isAck /\ x.snd_una = m.ack),
           x.ooo = c.ooo, c.rcv_nxt <= x.rcv_nxt,
           c.state = "Closed" => x.state = "Closed" /\ out = <<>>,
           \A i \in 1 .. Len(out) : Aligned(x, out[i]) /\ Bears(x, out[i])
    PROVE  Hears(P, c, B, m, Result(x, out))
<1>1. Result(x, out).c = x /\ Result(x, out).out = out
  BY DEF Result
<1>2. ASSUME NEW e \in P, Holds(c, e) PROVE Holds(x, e)
  <2>1. c.rcv_nxt \in Nat /\ x.rcv_nxt \in Nat /\ e.seq \in Nat /\ e.end \in Nat
    BY ConnTypes DEF RetransmitSegment
  <2>2. \A k \in e.seq .. (e.end - 1) : k < c.rcv_nxt => k < x.rcv_nxt
    BY <2>1
  <2> QED BY <1>2, <2>2 DEF Holds
<1> QED BY <1>1, <1>2 DEF Hears

\* A handler that takes no payload and emits one segment without payload.
LEMMA HearsReply ==
    ASSUME NEW P \in SUBSET RetransmitSegment, NEW c \in Connection, NEW x \in Connection,
           NEW m, NEW z, Gapped(x), Queued(x), c.snd_nxt <= x.snd_nxt,
           Inherits(c, {}, x), x.snd_una = c.snd_una \/ (m.isAck /\ x.snd_una = m.ack),
           x.ooo = c.ooo, c.rcv_nxt <= x.rcv_nxt, c.state # "Closed",
           z.data = <<>>, z.seq \in Nat, z.seq <= x.snd_nxt, z.ack = x.rcv_nxt, z.sack = {}
    PROVE  Hears(P, c, {}, m, Result(x, <<z>>))
<1>1. Aligned(x, z) /\ Bears(x, z)
  BY PlainBears
<1>2. Len(<<z>>) = 1 /\ <<z>>[1] = z
  OBVIOUS
<1>3. \A i \in 1 .. Len(<<z>>) : Aligned(x, <<z>>[i]) /\ Bears(x, <<z>>[i])
  BY <1>1, <1>2
<1> QED BY <1>3, HearsMade

\* A handler that takes no payload and emits nothing.
LEMMA HearsQuietly ==
    ASSUME NEW P \in SUBSET RetransmitSegment, NEW c \in Connection, NEW x \in Connection,
           NEW B, NEW m, Gapped(x), Queued(x), c.snd_nxt <= x.snd_nxt,
           Inherits(c, B, x), x.snd_una = c.snd_una \/ (m.isAck /\ x.snd_una = m.ack),
           x.ooo = c.ooo, c.rcv_nxt <= x.rcv_nxt, c.state = "Closed" => x.state = "Closed"
    PROVE  Hears(P, c, B, m, Quietly(x)) /\ Quietly(x).c = x /\ Quietly(x).out = <<>>
<1>1. \A i \in 1 .. Len(<<>>) : Aligned(x, <<>>[i]) /\ Bears(x, <<>>[i])
  OBVIOUS
<1>2. Hears(P, c, B, m, Result(x, <<>>))
  BY <1>1, HearsMade
<1> QED BY <1>2 DEF Quietly, Result

\* A step that emits nothing, and then one that does.
LEMMA QuietlyHears ==
    ASSUME NEW P, NEW c \in Connection, NEW x \in Connection, NEW r, r.c \in Connection,
           r.out \in Seq(Segment), NEW B, NEW m, Hears(P, c, B, m, Quietly(x)),
           Hears(P, x, {}, m, r), SameHeld(c, x) \/ SameHeld(x, r.c)
    PROVE  Hears(P, c, B, m, r)
<1> DEFINE a == Quietly(x)
           R == Result(r.c, a.out \o r.out)
<1>1. a.c = x /\ a.out = <<>> /\ a.out \in Seq(Segment)
  BY DEF Quietly, Result
<1> HIDE DEF a
<1>2. Hears(P, c, B, m, R)
  BY <1>1, HearsTwice DEF a
<1>3. <<>> \o r.out = r.out
  BY ConcatEmptySeq
<1>4. R.c = r.c /\ R.out = r.out
  BY <1>1, <1>3 DEF Result
<1> HIDE DEF R
<1> QED BY <1>2, <1>4 DEF Hears

\* A step that emits, and then one that does not.
LEMMA HearsThenQuietly ==
    ASSUME NEW P, NEW c \in Connection, NEW a, NEW x \in Connection, a.c \in Connection,
           a.out \in Seq(Segment), NEW B, NEW m, Hears(P, c, B, m, a),
           Hears(P, a.c, {}, m, Quietly(x)), SameHeld(c, a.c) \/ SameHeld(a.c, x)
    PROVE  Hears(P, c, B, m, Result(x, a.out))
<1> DEFINE r == Quietly(x)
<1>1. r.c = x /\ r.out = <<>> /\ <<>> \in Seq(Segment)
  BY DEF Quietly, Result
<1> HIDE DEF r
<1>2. Hears(P, c, B, m, Result(r.c, a.out \o r.out))
  BY <1>1, HearsTwice DEF r
<1>3. a.out \o <<>> = a.out
  BY ConcatEmptySeq
<1> QED BY <1>1, <1>2, <1>3

\* An acknowledgement of new data.
LEMMA SlideQueued ==
    ASSUME NEW c \in Connection, Queued(c), NEW y \in Connection, NEW ack \in Nat,
           y.rtq = RetireAcked(c.rtq, ack), y.snd_una = ack,
           y.state \in {"Closed", "FinWait2", "TimeWait"} => c.state = y.state \/ y.rtq = {}
    PROVE  Queued(y) /\ Inherits(c, {}, y)
<1>1. y.rtq \subseteq c.rtq /\ \A e \in y.rtq : ack < e.end
  BY ConnTypes DEF RetireAcked, RetransmitSegment
<1>2. Queued(y)
  BY <1>1 DEF Queued
<1> QED BY <1>1, <1>2, InheritsPart

\* The options
LEMMA ApplyOptionsHears ==
    ASSUME NEW P \in SUBSET RetransmitSegment, NEW c, ConnOK(c), Queued(c), Gapped(c),
           NEW m \in Segment
    PROVE  LET x == ApplyOptions(c, m)
           IN  Hears(P, c, m.sack, m, Quietly(x)) /\ SameHeld(c, x) /\ Queued(x) /\ Gapped(x)
<1> DEFINE x == ApplyOptions(c, m)
           G(e) == [e EXCEPT !.sacked =
                      e.sacked \/ \E b \in m.sack : b[1] <= e.seq /\ e.end <= b[2]]
<1>1. c \in Connection /\ x \in Connection
  BY ApplyOptionsOK DEF ConnOK
<1>2. /\ x.rtq = {G(e) : e \in c.rtq} /\ x.snd_una = c.snd_una /\ x.snd_nxt = c.snd_nxt
      /\ x.state = c.state /\ x.ooo = c.ooo /\ x.rcv_nxt = c.rcv_nxt
  BY <1>1 DEF ApplyOptions, Connection
<1>3. c.snd_nxt \in Nat /\ c.rcv_nxt \in Nat /\ c.rtq \in SUBSET RetransmitSegment
  BY <1>1, ConnTypes
<1>4. \A e \in c.rtq : /\ G(e).seq = e.seq /\ G(e).end = e.end /\ G(e).data = e.data
                       /\ G(e).sacked = (e.sacked \/ \E b \in m.sack : Within(e, b))
  BY <1>3 DEF RetransmitSegment, Within
<1> HIDE DEF x, G
<1>5. Inherits(c, m.sack, x)
  <2> SUFFICES ASSUME NEW e \in c.rtq
               PROVE  \E g \in c.rtq :
                        /\ G(e).seq = g.seq /\ G(e).end = g.end /\ G(e).data = g.data
                        /\ G(e).sacked => g.sacked \/ \E b \in m.sack : Within(g, b)
    BY <1>2, Zenon DEF Inherits
  <2> QED BY <1>4, Zenon
<1>6. Queued(x)
  BY <1>2, <1>4 DEF Queued, Sized
<1>7. Gapped(x) /\ SameHeld(c, x)
  BY <1>2 DEF Gapped, SameHeld
<1>8. Hears(P, c, m.sack, m, Quietly(x))
  BY <1>1, <1>2, <1>3, <1>5, <1>6, <1>7, HearsQuietly
<1> QED BY <1>6, <1>7, <1>8 DEF x

\* LISTEN
LEMMA OnListenHears ==
    ASSUME NEW P, NEW h \in Host, NEW c, NEW m, Ready(P, h, c, m), c.state = "Listen"
    PROVE  Hears(P, c, {}, m, OnListen(c, m))
<1> DEFINE k == c.snd_nxt + 1
           n == m.seq + 1
           c1 == [c EXCEPT !.rcv_nxt = n, !.snd_wnd = m.wnd, !.snd_nxt = k,
                           !.state = "SynReceived"]
           b == [AckSegment(c1, c.snd_nxt) EXCEPT
                   !.syn = TRUE, !.mss = c.local_mss, !.sackOk = c.sack_permitted]
           e == RtqEntry(c.snd_nxt, 1, TRUE, TRUE, FALSE, <<>>)
           x == TrackForRetransmit(c1, e)
<1>1. OnListen(c, m) = IF m.syn THEN Result(x, <<b>>) ELSE Quietly(c)
  BY DEF OnListen
<1>2. /\ c \in Connection /\ c.snd_nxt \in Nat /\ c.snd_una \in Nat /\ m.seq \in Nat
      /\ m.wnd \in Nat /\ Tracks(c) /\ P \in SUBSET RetransmitSegment
      /\ Queued(c) /\ Gapped(c)
  BY ConnTypes DEF Ready, ConnOK, Arrives, Segment, Sound, SendOK
<1>3. c.rcv_nxt = 0 /\ c.ooo = {} /\ c.snd_una <= c.snd_nxt
  BY UnaBehind DEF Ready, Sound, RecvOK, Blank, Synced
<1>4. Hears(P, c, {}, m, Quietly(c))
  BY <1>2, EmitsQuietly DEF Emits, SameHeld
<1>5. k \in Nat /\ n \in Nat
  BY <1>2
<1>6. /\ c1 \in Connection /\ c1.rcv_nxt = n /\ c1.snd_nxt = k /\ c1.state = "SynReceived"
      /\ c1.snd_una = c.snd_una /\ c1.rtq = c.rtq /\ c1.ooo = c.ooo
  <2> HIDE DEF k, n
  <2> QED BY <1>2, <1>5 DEF Connection, TcpState
<1>7. b.data = <<>> /\ b.seq = c.snd_nxt /\ b.ack = c1.rcv_nxt /\ b.sack = {}
  BY DEF AckSegment
<1>8. e.seq = c.snd_nxt /\ e.end = k /\ e.data = <<>> /\ ~e.sacked
  BY DEF RtqEntry
<1> HIDE DEF c1, b, e
<1>9. /\ x \in Connection /\ x.rtq = c.rtq \cup {e} /\ x.snd_una = c.snd_una
      /\ x.snd_nxt = k /\ x.rcv_nxt = n /\ x.ooo = {} /\ x.state = "SynReceived"
  <2>1. c.state # "Closed" /\ TRUE \in BOOLEAN /\ FALSE \in BOOLEAN
    OBVIOUS
  <2>2. /\ x \in Connection /\ x.rtq = c.rtq \cup {e} /\ x.snd_una = c1.snd_una
        /\ x.snd_nxt = c1.snd_nxt /\ SameReceive(c1, x) /\ x.state = c1.state
    BY <1>2, <1>6, <2>1, NumberedShape DEF e
  <2> QED BY <1>3, <1>6, <2>2 DEF SameReceive
<1> HIDE DEF x
<1>10. Queued(x) /\ Inherits(c, {}, x) /\ Gapped(x) /\ c.snd_nxt <= x.snd_nxt
  BY <1>2, <1>3, <1>8, <1>9 DEF Queued, Sized, Inherits, Gapped
<1>11. c.rcv_nxt <= x.rcv_nxt /\ b.seq \in Nat /\ b.seq <= x.snd_nxt /\ c.state # "Closed"
       /\ b.ack = x.rcv_nxt
  BY <1>2, <1>3, <1>5, <1>6, <1>7, <1>9
<1>12. Hears(P, c, {}, m, Result(x, <<b>>))
  BY <1>2, <1>3, <1>7, <1>9, <1>10, <1>11, HearsReply
<1> QED BY <1>1, <1>4, <1>12

\* SYN_SENT
LEMMA OnSynSentHears ==
    ASSUME NEW P, NEW h \in Host, NEW c, NEW m, Ready(P, h, c, m), c.state = "SynSent"
    PROVE  Hears(P, c, {}, m, OnSynSent(c, m))
<1> DEFINE y == SlideTo(c, m.ack)
           n == m.seq + 1
           x == [y EXCEPT !.rcv_nxt = n, !.snd_wnd = m.wnd, !.state = "Established"]
           a == AckSegment(x, x.snd_nxt)
           half == [c EXCEPT !.rcv_nxt = n, !.state = "SynReceived"]
           s == [AckSegment(half, half.snd_nxt) EXCEPT !.syn = TRUE]
<1>1. OnSynSent(c, m) =
        IF m.syn /\ m.isAck
        THEN IF m.ack = c.snd_nxt THEN Result(x, <<a>>) ELSE Quietly(c)
        ELSE IF m.syn THEN Result(half, <<s>>) ELSE Quietly(c)
  BY DEF OnSynSent
<1>2. /\ c \in Connection /\ c.snd_nxt \in Nat /\ m.seq \in Nat /\ m.ack \in Nat
      /\ m.wnd \in Nat /\ P \in SUBSET RetransmitSegment /\ Queued(c) /\ Gapped(c)
      /\ n \in Nat
  BY ConnTypes DEF Ready, ConnOK, Arrives, Segment
<1>3. c.rcv_nxt = 0 /\ c.ooo = {}
  BY DEF Ready, Sound, RecvOK, Blank, Synced
<1>4. Hears(P, c, {}, m, Quietly(c))
  BY <1>2, EmitsQuietly DEF Emits, SameHeld
<1>5. a.data = <<>> /\ a.seq = x.snd_nxt /\ a.ack = x.rcv_nxt /\ a.sack = {}
      /\ s.data = <<>> /\ s.seq = half.snd_nxt /\ s.ack = half.rcv_nxt /\ s.sack = {}
  BY DEF AckSegment
<1> HIDE DEF n, a, s
<1>6. ASSUME m.isAck PROVE Hears(P, c, {}, m, Result(x, <<a>>))
  <2>1. /\ y \in Connection /\ y.snd_una = m.ack /\ y.rtq = RetireAcked(c.rtq, m.ack)
        /\ y.snd_nxt = c.snd_nxt /\ SameReceive(c, y)
    BY <1>2, SlideShape
  <2> HIDE DEF y
  <2>2. x \in Connection
    BY <1>2, <2>1 DEF Connection, TcpState
  <2>3. /\ x.snd_una = m.ack /\ x.rtq = y.rtq /\ x.snd_nxt = c.snd_nxt /\ x.ooo = {}
        /\ x.rcv_nxt = n /\ x.state = "Established"
    BY <1>3, <2>1 DEF Connection, SameReceive
  <2> HIDE DEF x
  <2>4. Queued(x) /\ Inherits(c, {}, x) /\ Gapped(x)
    BY <1>2, <2>1, <2>2, <2>3, SlideQueued DEF Gapped
  <2>5. c.snd_nxt <= x.snd_nxt /\ c.rcv_nxt <= x.rcv_nxt /\ a.seq \in Nat /\ a.seq <= x.snd_nxt
    BY <1>2, <1>3, <1>5, <2>3
  <2> QED BY <1>2, <1>3, <1>5, <1>6, <2>2, <2>3, <2>4, <2>5, HearsReply
<1>7. Hears(P, c, {}, m, Result(half, <<s>>))
  <2>1. half \in Connection
    BY <1>2 DEF Connection, TcpState
  <2>2. /\ half.snd_una = c.snd_una /\ half.rtq = c.rtq /\ half.snd_nxt = c.snd_nxt
        /\ half.ooo = {} /\ half.rcv_nxt = n /\ half.state = "SynReceived"
    BY <1>2, <1>3 DEF Connection
  <2> HIDE DEF half
  <2>3. Queued(half) /\ Inherits(c, {}, half) /\ Gapped(half)
    BY <1>2, <2>2, InheritsPart DEF Gapped, Queued
  <2>4. c.snd_nxt <= half.snd_nxt /\ c.rcv_nxt <= half.rcv_nxt
        /\ s.seq \in Nat /\ s.seq <= half.snd_nxt
    BY <1>2, <1>3, <1>5, <2>2
  <2> QED BY <1>2, <1>3, <1>5, <2>1, <2>2, <2>3, <2>4, HearsReply
<1> HIDE DEF x, half
<1> QED BY <1>1, <1>4, <1>6, <1>7

\* The payload
LEMMA AcceptHears ==
    ASSUME TypeOK, NEW P, NEW h \in Host, NEW c, NEW m, Ready(P, h, c, m),
           c.state \in {"Established", "FinWait1", "FinWait2"}
    PROVE  Hears(P, c, {}, m, Quietly(AcceptData(c, m.seq, m.data)))
<1> DEFINE x == AcceptData(c, m.seq, m.data)
           o == Other(h)
           d == conn[o]
<1>1. /\ c \in Connection /\ ConnOK(c) /\ m \in Segment /\ m.seq \in Nat
      /\ m.data \in Seq(Byte) /\ Carries(o, m.seq, m.data, DataEnd(d)) /\ Sound(h, c)
      /\ P \in SUBSET RetransmitSegment /\ Gapped(c) /\ Queued(c) /\ Matches(P, c, m)
  BY DEF Ready, ConnOK, Arrives, Segment, Stamped
<1>2. o \in Host /\ d \in Connection /\ got[h] \in Seq(Byte)
  BY Context, TwoHosts
<1>3. c.state \notin {"Closed", "Listen", "SynSent"}
  OBVIOUS
<1>4. Synced(o, got[h] \o c.rx, d, c) /\ ~c.fin_received
  BY <1>1, <1>3, IsSynced DEF Synced
<1>5. SameOut(c, x) /\ x.state = c.state
  <2> HIDE DEF o, d
  <2> QED BY <1>1, <1>2, <1>4, AcceptSynced
<1>6. /\ Gapped(x) /\ \A e \in P : Holds(c, e) => Holds(x, e)
      /\ \A s \in x.ooo : s \in c.ooo \/ Part(m, s)
  BY <1>1, <1>3, AcceptHolds
<1>7. Quietly(x).c = x /\ Quietly(x).out = <<>>
  BY DEF Quietly, Result
<1> HIDE DEF x
<1>8. Queued(x) /\ Inherits(c, {}, x) /\ x.snd_una = c.snd_una /\ c.snd_nxt <= x.snd_nxt
  BY <1>1, <1>5, InheritsPart, ConnTypes DEF Queued, SameOut
<1>9. Hears(P, c, {}, m, Quietly(x))
  BY <1>6, <1>7, <1>8 DEF Hears
<1> QED BY <1>9 DEF x

\* SYN_RECEIVED
LEMMA OnSynReceivedHears ==
    ASSUME TypeOK, NEW P, NEW h \in Host, NEW c, NEW m, Ready(P, h, c, m),
           c.state = "SynReceived"
    PROVE  Hears(P, c, {}, m, OnSynReceived(c, m))
<1> DEFINE y == SlideTo(c, m.ack)
           x == [y EXCEPT !.snd_wnd = m.wnd, !.state = "Established"]
           n == [m EXCEPT !.data = <<>>]
           z == AcceptData(x, m.seq, m.data)
<1>1. OnSynReceived(c, m) = IF ~(m.isAck /\ m.ack = c.snd_nxt) THEN Quietly(c)
                            ELSE IF m.data = <<>> THEN Quietly(x) ELSE BuildAck(z)
  BY DEF OnSynReceived
<1>2. /\ c \in Connection /\ c.snd_nxt \in Nat /\ c.rcv_nxt \in Nat /\ m \in Segment
      /\ m.ack \in Nat /\ m.wnd \in Nat /\ P \in SUBSET RetransmitSegment
      /\ Queued(c) /\ Gapped(c) /\ ConnOK(c) /\ Sound(h, c) /\ Arrives(h, m)
      /\ Matches(P, c, m)
  BY ConnTypes DEF Ready, ConnOK, Arrives, Segment
<1>3. Hears(P, c, {}, m, Quietly(c))
  BY <1>2, EmitsQuietly DEF Emits, SameHeld
<1>4. CASE m.isAck /\ m.ack = c.snd_nxt
  <2>1. /\ y \in Connection /\ y.snd_una = m.ack /\ y.rtq = RetireAcked(c.rtq, m.ack)
        /\ y.snd_nxt = c.snd_nxt /\ SameReceive(c, y)
    BY <1>2, SlideShape
  <2>2. x \in Connection
    <3> HIDE DEF y
    <3> QED BY <1>2, <2>1 DEF Connection, TcpState
  <2>3. /\ x.snd_una = m.ack /\ x.rtq = y.rtq /\ x.snd_nxt = c.snd_nxt /\ SameHeld(c, x)
        /\ x.state = "Established"
    <3> HIDE DEF y
    <3> QED BY <2>1 DEF Connection, SameReceive, SameHeld
  <2>4. ConnOK(x) /\ Sound(h, x)
    <3>1. n \in Segment /\ n.data = <<>> /\ n.isAck = m.isAck /\ n.ack = m.ack /\ n.wnd = m.wnd
          /\ n.seq = m.seq /\ n.syn = m.syn /\ n.fin = m.fin
      <4>1. <<>> \in Seq(Byte)
        OBVIOUS
      <4> QED BY <1>2, <4>1 DEF Segment
    <3>2. Arrives(h, n)
      <4>1. Carries(Other(h), n.seq, <<>>, DataEnd(conn[Other(h)]))
        BY CarriesNothing
      <4>2. FinSeq(n) <= FinSeq(m) /\ FinSeq(n) \in Nat /\ FinSeq(m) \in Nat
        BY <1>2, <3>1, LenProperties DEF FinSeq, Segment
      <4>3. conn[Other(h)].snd_nxt \in Nat
        BY Context, ConnTypes
      <4> QED BY <1>2, <3>1, <4>1, <4>2, <4>3 DEF Arrives, Stamped, Bit
    <3>3. Moves(h, c, OnSynReceived(c, n))
      BY <1>2, <3>2, OnSynReceivedMoves
    <3> HIDE DEF n
    <3>4. OnSynReceived(c, n) = Quietly(x)
      BY <1>4, <3>1 DEF OnSynReceived
    <3> HIDE DEF x
    <3> QED BY <3>3, <3>4 DEF Moves, Steps, Quietly, Result
  <2> HIDE DEF x, y
  <2>5. Queued(x) /\ Inherits(c, {}, x) /\ Gapped(x) /\ c.snd_nxt <= x.snd_nxt
        /\ x.ooo = c.ooo /\ c.rcv_nxt <= x.rcv_nxt
    BY <1>2, <2>1, <2>2, <2>3, SlideQueued DEF Gapped, SameHeld
  <2>6. Hears(P, c, {}, m, Quietly(x))
    BY <1>2, <1>4, <2>2, <2>3, <2>5, HearsQuietly
  <2>7. Hears(P, c, {}, m, BuildAck(z))
    <3>1. Ready(P, h, x, m)
      BY <1>2, <2>3, <2>4, <2>5 DEF Ready, Matches, SameHeld
    <3>2. Hears(P, x, {}, m, Quietly(z)) /\ ConnOK(z) /\ z.state = x.state
      <4>1. z.state = x.state /\ ConnOK(z)
        BY <2>3, <2>4, <1>2, AcceptDataOK DEF SameSend, Segment
      <4> QED BY <2>3, <3>1, <4>1, AcceptHears
    <3> HIDE DEF z
    <3>3. z \in Connection /\ Queued(z) /\ Gapped(z) /\ z.state # "Closed"
      BY <2>3, <3>2 DEF Hears, Quietly, Result, ConnOK
    <3>4. Emits(P, z, m, BuildAck(z))
      BY <3>2, <3>3, BuildAckEmits
    <3>5. BuildAck(z).c \in Connection /\ BuildAck(z).out \in Seq(Segment)
      BY <3>2, BuildAckOK DEF Keeps, ConnOK
    <3>6. Hears(P, x, {}, m, BuildAck(z))
      BY <2>2, <3>2, <3>3, <3>4, <3>5, QuietlyHears DEF Emits
    <3> QED BY <1>2, <2>2, <2>3, <2>6, <3>5, <3>6, QuietlyHears
  <2> QED BY <1>1, <1>3, <2>6, <2>7
<1> QED BY <1>1, <1>3, <1>4

\* Step 1 of the synchronized arm
LEMMA ProcessAckHears ==
    ASSUME NEW P, NEW h \in Host, NEW c, NEW m, Ready(P, h, c, m),
           c.state \in {"Established", "FinWait1", "FinWait2"}
    PROVE  Hears(P, c, {}, m, ProcessAck(c, m)) /\ SameHeld(c, ProcessAck(c, m).c)
<1> DEFINE cw == [c EXCEPT !.snd_wnd = m.wnd]
           cc == OnDupAck(cw.cc)
           cd == [cw EXCEPT !.cc = cc]
           y == SlideTo(cw, m.ack)
           r == ProcessAck(c, m)
           G(s) == Hears(P, c, {}, m, s) /\ SameHeld(c, s.c)
<1>1. r = IF ~m.isAck THEN Quietly(c)
          ELSE IF m.ack > c.snd_una THEN Quietly(y)
          ELSE IF ~IsDupAck(c, m) THEN Quietly(cw)
          ELSE IF TriggersFastRetransmit(c.cc) THEN RetransmitOldest(cd)
          ELSE Quietly(cd)
  BY DEF ProcessAck
<1> HIDE DEF r
<1>2. /\ c \in Connection /\ c.snd_nxt \in Nat /\ c.rcv_nxt \in Nat /\ m.ack \in Nat
      /\ m.wnd \in Nat /\ P \in SUBSET RetransmitSegment /\ Queued(c) /\ Gapped(c)
      /\ ConnOK(c) /\ Tracks(c) /\ c.state # "Closed"
  BY ConnTypes DEF Ready, ConnOK, Arrives, Segment, Sound, SendOK
<1>3. /\ cw \in Connection /\ cw.rtq = c.rtq /\ cw.snd_una = c.snd_una /\ cw.state = c.state
      /\ cw.snd_nxt = c.snd_nxt /\ SameReceive(c, cw) /\ cw.cc = c.cc
  BY <1>2 DEF Connection, SameReceive
<1> HIDE DEF cw
<1>4. cc \in CongestionControl /\ cc.in_flight = c.cc.in_flight
  BY <1>2, <1>3, OnDupAckOK DEF Connection
<1> HIDE DEF cc
<1>5. /\ cd \in Connection /\ cd.rtq = c.rtq /\ cd.snd_una = c.snd_una /\ cd.state = c.state
      /\ cd.snd_nxt = c.snd_nxt /\ SameReceive(c, cd) /\ cd.cc = cc
  BY <1>3, <1>4 DEF Connection, SameReceive
<1> HIDE DEF cd
<1>6. /\ y \in Connection /\ y.snd_una = m.ack /\ y.rtq = RetireAcked(c.rtq, m.ack)
      /\ y.snd_nxt = c.snd_nxt /\ SameReceive(cw, y) /\ y.state = c.state
  <2>1. /\ y \in Connection /\ y.snd_una = m.ack /\ y.rtq = RetireAcked(cw.rtq, m.ack)
        /\ y.snd_nxt = cw.snd_nxt /\ SameReceive(cw, y) /\ y.state = cw.state
    BY <1>2, <1>3, SlideShape
  <2> HIDE DEF y
  <2> QED BY <1>3, <2>1
<1> HIDE DEF y
<1>7. \A x : x.rtq = c.rtq /\ x.snd_una = c.snd_una /\ x.state = c.state
             /\ x.snd_nxt = c.snd_nxt /\ SameReceive(c, x) => G(Quietly(x))
  BY <1>2, EmitsQuietly DEF Emits, SameHeld, SameReceive, Quietly, Result
<1>8. G(Quietly(c)) /\ G(Quietly(cw)) /\ G(Quietly(cd))
  BY <1>3, <1>5, <1>7 DEF SameReceive
<1>9. m.isAck => G(Quietly(y))
  <2>1. Queued(y) /\ Inherits(c, {}, y)
    BY <1>2, <1>6, SlideQueued
  <2>2. Gapped(y) /\ y.ooo = c.ooo /\ y.rcv_nxt = c.rcv_nxt /\ c.rcv_nxt <= y.rcv_nxt
        /\ c.snd_nxt <= y.snd_nxt
    BY <1>2, <1>3, <1>6 DEF SameReceive, Gapped
  <2> QED BY <1>2, <1>6, <2>1, <2>2, HearsQuietly DEF SameHeld
<1>10. G(RetransmitOldest(cd))
  <2>1. ConnOK(cd)
    BY <1>2, <1>4, <1>5, SetOK
  <2>2. Queued(cd) /\ Gapped(cd) /\ Tracks(cd)
    BY <1>2, <1>5 DEF Queued, Gapped, Tracks, SameReceive
  <2>3. Emits(P, cd, m, RetransmitOldest(cd))
    BY <1>2, <1>5, <2>1, <2>2, RetransmitOldestEmits
  <2> QED BY <1>5, <2>3 DEF Emits, Hears, Inherits, SameHeld, SameReceive, Holds, Bears
<1> HIDE DEF G
<1>11. G(r)
  BY <1>1, <1>8, <1>9, <1>10
<1> QED BY <1>11 DEF G, r

\* The FIN: nothing is parked behind it.
LEMMA ConsumeFinHears ==
    ASSUME TypeOK, NEW P, NEW h \in Host, NEW c, NEW m, Ready(P, h, c, m),
           c.state \in {"Established", "FinWait1", "FinWait2"}, ConsumesFin(c, m)
    PROVE  Hears(P, c, {}, m, Quietly(ConsumeFin(c)))
<1> DEFINE o == Other(h)
           d == conn[o]
           k == c.rcv_nxt + 1
           t == CASE c.state = "Established" -> "CloseWait"
                  [] c.state = "FinWait1" -> "Closing"
                  [] c.state = "FinWait2" -> "TimeWait"
                  [] OTHER -> c.state
           x == [c EXCEPT !.rcv_nxt = k, !.fin_received = TRUE, !.state = t]
<1>1. ConsumeFin(c) = x
  BY DEF ConsumeFin
<1>2. /\ c \in Connection /\ c.snd_nxt \in Nat /\ c.rcv_nxt \in Nat /\ m.seq \in Nat
      /\ P \in SUBSET RetransmitSegment /\ Queued(c) /\ Gapped(c) /\ ConnOK(c)
      /\ Stamped(o, d, m) /\ Sound(h, c) /\ c.ooo \in SUBSET OooSegment
  BY ConnTypes DEF Ready, ConnOK, Arrives, Segment
<1>3. Synced(o, got[h] \o c.rx, d, c)
  BY <1>2, IsSynced
<1>4. m.fin /\ FinSeq(m) = c.rcv_nxt
  BY DEF ConsumesFin
<1>5. m.data = <<>> /\ m.seq = DataEnd(d) /\ ~m.syn
  BY <1>2, <1>4 DEF Stamped
<1>6. c.rcv_nxt = DataEnd(d)
  <2>1. Len(<<>>) = 0
    OBVIOUS
  <2>2. FinSeq(m) = m.seq
    BY <1>2, <1>5, <2>1 DEF FinSeq
  <2> QED BY <1>4, <1>5, <2>2
<1>7. c.ooo = {}
  <2> SUFFICES ASSUME NEW s \in c.ooo PROVE FALSE
    OBVIOUS
  <2>1. s.seq \in Nat /\ Len(s.data) \in Nat
    BY <1>2, LenProperties DEF OooSegment
  <2>2. c.rcv_nxt < s.seq /\ s.seq < s.seq + Len(s.data)
    BY <1>2 DEF Gapped, EndOf
  <2>3. 1 \in 1 .. Len(s.data)
    BY <2>1, <2>2
  <2>4. s.seq + 1 - 1 < DataEnd(d)
    BY <1>3, <2>3 DEF Synced, Carries
  <2> QED BY <1>2, <1>6, <2>1, <2>2, <2>4
<1>8. x \in Connection
  BY <1>1, <1>2, ConsumeFinOK DEF ConnOK
<1>9. k \in Nat /\ c.rcv_nxt <= k /\ (t = "TimeWait" => c.state = "FinWait2")
      /\ t \in {"CloseWait", "Closing", "TimeWait"}
  BY <1>2
<1> HIDE DEF k, t
<1>10. /\ x.rtq = c.rtq /\ x.snd_una = c.snd_una /\ x.snd_nxt = c.snd_nxt /\ x.ooo = c.ooo
       /\ x.rcv_nxt = k /\ x.state = t
  BY <1>2 DEF Connection
<1> HIDE DEF x
<1>11. Queued(x) /\ Gapped(x) /\ Inherits(c, {}, x) /\ c.snd_nxt <= x.snd_nxt
       /\ c.rcv_nxt <= x.rcv_nxt /\ c.state # "Closed"
  BY <1>2, <1>7, <1>9, <1>10, InheritsPart DEF Queued, Gapped
<1>12. Hears(P, c, {}, m, Quietly(x))
  BY <1>2, <1>8, <1>10, <1>11, HearsQuietly
<1> QED BY <1>1, <1>12

\* Step 5 of the synchronized arm: all is acknowledged, so nothing is queued.
LEMMA AfterFinAckedEmits ==
    ASSUME NEW P, NEW m, NEW c, ConnOK(c), Tracks(c), Queued(c), Gapped(c)
    PROVE  Emits(P, c, m, Quietly(AfterFinAcked(c)))
<1> DEFINE t == CASE c.state = "FinWait1" -> "FinWait2"
                  [] c.state = "Closing" -> "TimeWait"
                  [] OTHER -> c.state
           x == [c EXCEPT !.state = t]
<1>1. AfterFinAcked(c) = IF c.fin_sent /\ c.snd_una >= c.snd_nxt THEN x ELSE c
  BY DEF AfterFinAcked
<1>2. c \in Connection
  BY DEF ConnOK
<1>3. Emits(P, c, m, Quietly(c))
  BY <1>2, EmitsQuietly DEF SameHeld
<1>4. CASE c.fin_sent /\ c.snd_una >= c.snd_nxt
  <2>1. c.rtq = {}
    <3> SUFFICES ASSUME NEW e \in c.rtq PROVE FALSE
      OBVIOUS
    <3>1. c.snd_una \in Nat /\ c.snd_nxt \in Nat /\ e.end \in Nat
      BY <1>2, ConnTypes DEF RetransmitSegment
    <3> QED BY <1>4, <3>1 DEF Tracks, Queued
  <2>2. c.state = "Closed" => t = "Closed"
    OBVIOUS
  <2> HIDE DEF t
  <2>3. /\ x.rtq = c.rtq /\ x.snd_una = c.snd_una /\ x.snd_nxt = c.snd_nxt /\ SameHeld(c, x)
        /\ x.state = t
    BY <1>2 DEF Connection, SameHeld
  <2> HIDE DEF x
  <2>4. Emits(P, c, m, Quietly(x))
    BY <1>2, <2>1, <2>2, <2>3, EmitsQuietly
  <2> QED BY <1>1, <1>4, <2>4
<1> QED BY <1>1, <1>3, <1>4

\* ESTABLISHED, FIN_WAIT_1 and FIN_WAIT_2
LEMMA OnSynchronizedHears ==
    ASSUME TypeOK, NEW P, NEW h \in Host, NEW c, NEW m, Ready(P, h, c, m),
           c.state \in {"Established", "FinWait1", "FinWait2"}
    PROVE  Hears(P, c, {}, m, OnSynchronized(c, m))
<1> DEFINE a == ProcessAck(c, m)
           y == AcceptData(a.c, m.seq, m.data)
           isFin == ConsumesFin(y, m)
           f == IF isFin THEN ConsumeFin(y) ELSE y
           b == (m.data # <<>> \/ isFin) /\ a.out = <<>>
           r == IF b THEN BuildAck(f) ELSE Result(f, a.out)
           z == AfterFinAcked(r.c)
           H(x, s) == Hears(P, x, {}, m, s)
<1>1. OnSynchronized(c, m) = IF m.isAck /\ m.ack > c.snd_nxt THEN BuildAck(c)
                             ELSE Result(z, r.out)
  BY DEF OnSynchronized
<1>2. /\ c \in Connection /\ ConnOK(c) /\ Sound(h, c) /\ Arrives(h, m) /\ Queued(c)
      /\ Gapped(c) /\ P \in SUBSET RetransmitSegment /\ Matches(P, c, m) /\ c.state # "Closed"
  BY DEF Ready, ConnOK
<1>3. CASE m.isAck /\ m.ack > c.snd_nxt
  BY <1>1, <1>2, <1>3, BuildAckEmits DEF Emits
<1>4. CASE ~(m.isAck /\ m.ack > c.snd_nxt)
  <2>1. Sends(h, c, a) /\ a.c.state = c.state /\ H(c, a) /\ SameHeld(c, a.c)
    BY <1>2, <1>4, ProcessAckSends, ProcessAckHears
  <2> HIDE DEF a
  <2>2. /\ ConnOK(a.c) /\ Sound(h, a.c) /\ a.c \in Connection /\ a.out \in Seq(Segment)
        /\ a.c.state \in {"Established", "FinWait1", "FinWait2"} /\ Ready(P, h, a.c, m)
    <3>1. ConnOK(a.c) /\ Sound(h, a.c) /\ a.c \in Connection /\ a.out \in Seq(Segment)
      BY <2>1 DEF Sends, Steps, ConnOK
    <3>2. Matches(P, a.c, m)
      BY <1>2, <2>1 DEF Matches, SameHeld
    <3>3. Queued(a.c) /\ Gapped(a.c)
      BY <2>1 DEF Hears
    <3> QED BY <1>2, <2>1, <3>1, <3>2, <3>3 DEF Ready
  <2>3. /\ Moves(h, a.c, Quietly(y)) /\ y.state = a.c.state /\ (m.data = <<>> => y = a.c)
        /\ H(a.c, Quietly(y))
    BY <2>2, AcceptMoves, AcceptHears DEF Ready
  <2> HIDE DEF y
  <2>4. /\ ConnOK(y) /\ Sound(h, y) /\ y \in Connection
        /\ y.state \in {"Established", "FinWait1", "FinWait2"}
    BY <2>2, <2>3 DEF Moves, Steps, Quietly, Result, ConnOK
  <2>5. Moves(h, a.c, Quietly(f)) /\ H(a.c, Quietly(f))
    <3>1. CASE isFin
      <4>1. Moves(h, y, Quietly(ConsumeFin(y))) /\ m.data = <<>>
        BY <1>2, <2>4, <3>1, ConsumeFinMoves
      <4>2. y = a.c
        BY <2>3, <4>1
      <4>3. H(y, Quietly(ConsumeFin(y)))
        BY <2>2, <2>4, <3>1, <4>2, ConsumeFinHears
      <4> QED BY <3>1, <4>1, <4>2, <4>3
    <3>2. CASE ~isFin
      BY <2>3, <3>2
    <3> QED BY <3>1, <3>2
  <2> HIDE DEF f, isFin
  <2>6. ConnOK(f) /\ Sound(h, f) /\ f \in Connection /\ Queued(f) /\ Gapped(f)
    BY <2>5 DEF Moves, Steps, Quietly, Result, ConnOK, Hears
  <2>7. f.state # "Closed"
    BY <2>4 DEF f, ConsumeFin, ConnOK, Connection
  <2>8. H(c, r) /\ ConnOK(r.c) /\ Sound(h, r.c) /\ r.out \in Seq(Segment)
    <3>1. CASE b
      <4>1. Emits(P, f, m, BuildAck(f)) /\ Sends(h, f, BuildAck(f))
        BY <2>6, <2>7, BuildAckEmits, BuildAckSends
      <4>2. ConnOK(BuildAck(f).c) /\ Sound(h, BuildAck(f).c) /\ BuildAck(f).out \in Seq(Segment)
            /\ BuildAck(f).c \in Connection
        BY <4>1 DEF Sends, Steps, ConnOK
      <4>3. H(c, Quietly(f))
        <5>1. H(c, Result(f, a.out))
          BY <1>2, <2>1, <2>2, <2>5, <2>6, HearsThenQuietly
        <5> QED BY <3>1, <5>1 DEF Quietly
      <4>4. H(c, BuildAck(f))
        BY <1>2, <2>6, <4>1, <4>2, <4>3, QuietlyHears DEF Emits
      <4> QED BY <3>1, <4>2, <4>4
    <3>2. CASE ~b
      <4>1. H(c, Result(f, a.out))
        BY <1>2, <2>1, <2>2, <2>5, <2>6, HearsThenQuietly
      <4>2. r = Result(f, a.out) /\ r.c = f /\ r.out = a.out
        BY <3>2 DEF Result
      <4> QED BY <2>2, <2>6, <4>1, <4>2
    <3> QED BY <3>1, <3>2
  <2> HIDE DEF r
  <2>9. r.c \in Connection /\ Tracks(r.c) /\ Queued(r.c) /\ Gapped(r.c)
    BY <2>8 DEF ConnOK, Sound, SendOK, Hears
  <2>10. Emits(P, r.c, m, Quietly(z)) /\ z \in Connection
    BY <2>8, <2>9, AfterFinAckedEmits, AfterFinAckedOK DEF ConnOK
  <2> HIDE DEF z
  <2>11. SameHeld(r.c, z)
    BY <2>10 DEF Emits, Quietly, Result
  <2>12. H(c, Result(z, r.out))
    BY <1>2, <2>8, <2>9, <2>10, <2>11, HearsThenQuietly DEF Emits
  <2> QED BY <1>1, <1>4, <2>12
<1> QED BY <1>3, <1>4

\* CLOSE_WAIT
LEMMA OnCloseWaitHears ==
    ASSUME TypeOK, NEW P, NEW h \in Host, NEW c, NEW m, Ready(P, h, c, m),
           c.state = "CloseWait"
    PROVE  Hears(P, c, {}, m, OnCloseWait(c, m))
<1> DEFINE g == m.isAck /\ c.snd_una < m.ack /\ m.ack <= c.snd_nxt
           cw == [c EXCEPT !.snd_wnd = m.wnd]
           y == SlideTo(cw, m.ack)
           x == IF g THEN y ELSE c
<1>1. OnCloseWait(c, m) = IF m.fin THEN BuildAck(x) ELSE Quietly(x)
  BY DEF OnCloseWait
<1>2. /\ c \in Connection /\ c.snd_nxt \in Nat /\ c.rcv_nxt \in Nat /\ c.snd_una \in Nat
      /\ m.ack \in Nat /\ m.wnd \in Nat /\ P \in SUBSET RetransmitSegment /\ Queued(c)
      /\ Gapped(c) /\ ConnOK(c) /\ Sound(h, c) /\ Arrives(h, m)
      /\ conn[Other(h)] \in Connection /\ (m.isAck => m.ack <= conn[Other(h)].rcv_nxt)
  BY ConnTypes, Context DEF Ready, ConnOK, Arrives, Segment
<1>3. Hears(P, c, {}, m, Quietly(x)) /\ ConnOK(x) /\ SameHeld(c, x) /\ x.state = c.state
  <2>1. CASE ~g
    <3>1. x = c
      BY <2>1
    <3> QED BY <1>2, <3>1, EmitsQuietly DEF Emits, SameHeld
  <2>2. CASE g
    <3>1. cw \in Connection /\ cw.rtq = c.rtq /\ cw.snd_nxt = c.snd_nxt /\ SameReceive(c, cw)
          /\ cw.state = c.state
      BY <1>2 DEF Connection, SameReceive
    <3>2. Turns(h, c, y)
      <4>1. c.snd_una <= m.ack /\ c.state \notin {"Closed", "TimeWait"}
        BY <1>2, <2>2
      <4> QED BY <1>2, <2>2, <4>1, SlideTurns
    <3> HIDE DEF cw
    <3>3. /\ y \in Connection /\ y.snd_una = m.ack /\ y.rtq = RetireAcked(cw.rtq, m.ack)
          /\ y.snd_nxt = cw.snd_nxt /\ SameReceive(cw, y) /\ y.state = cw.state
      BY <1>2, <3>1, SlideShape
    <3> HIDE DEF y
    <3>4. Queued(y) /\ Inherits(c, {}, y)
      BY <1>2, <3>1, <3>3, SlideQueued
    <3>5. Gapped(y) /\ SameHeld(c, y) /\ y.ooo = c.ooo /\ c.rcv_nxt <= y.rcv_nxt
          /\ c.snd_nxt <= y.snd_nxt
      BY <1>2, <3>1, <3>3 DEF SameReceive, Gapped, SameHeld
    <3>6. Hears(P, c, {}, m, Quietly(y))
      BY <1>2, <2>2, <3>1, <3>3, <3>4, <3>5, HearsQuietly
    <3> QED BY <2>2, <3>1, <3>2, <3>3, <3>5, <3>6 DEF Turns
  <2> QED BY <2>1, <2>2
<1> HIDE DEF x
<1>4. x \in Connection /\ Queued(x) /\ Gapped(x) /\ x.state # "Closed"
  BY <1>3 DEF ConnOK, Hears, Quietly, Result
<1>5. Emits(P, x, m, BuildAck(x)) /\ BuildAck(x).c \in Connection
      /\ BuildAck(x).out \in Seq(Segment)
  BY <1>3, <1>4, BuildAckEmits, BuildAckOK DEF Keeps, ConnOK
<1>6. Hears(P, c, {}, m, BuildAck(x))
  BY <1>2, <1>3, <1>4, <1>5, QuietlyHears DEF Emits
<1> QED BY <1>1, <1>3, <1>6

\* CLOSING and LAST_ACK
LEMMA OnFinalAckHears ==
    ASSUME NEW P, NEW h \in Host, NEW c, NEW m, Ready(P, h, c, m), c.state # "Closed",
           NEW next \in {"TimeWait", "Closed"}
    PROVE  Hears(P, c, {}, m, OnFinalAck(c, m, next))
<1> DEFINE y == SlideTo(c, m.ack)
           x == [y EXCEPT !.state = next]
<1>1. OnFinalAck(c, m, next) = IF m.isAck /\ m.ack >= c.snd_nxt THEN Quietly(x) ELSE Quietly(c)
  BY DEF OnFinalAck
<1>2. /\ c \in Connection /\ c.snd_nxt \in Nat /\ c.rcv_nxt \in Nat
      /\ m.ack \in Nat /\ P \in SUBSET RetransmitSegment /\ Queued(c)
      /\ Gapped(c) /\ Tracks(c)
  BY ConnTypes DEF Ready, ConnOK, Arrives, Segment, Sound, SendOK
<1>3. Hears(P, c, {}, m, Quietly(c))
  BY <1>2, EmitsQuietly DEF Emits, SameHeld
<1>4. CASE m.isAck /\ m.ack >= c.snd_nxt
  <2>1. /\ y \in Connection /\ y.snd_una = m.ack /\ y.rtq = RetireAcked(c.rtq, m.ack)
        /\ y.snd_nxt = c.snd_nxt /\ SameReceive(c, y)
    BY <1>2, SlideShape
  <2> HIDE DEF y
  <2>2. x \in Connection
    BY <2>1 DEF Connection, TcpState
  <2>3. /\ x.snd_una = m.ack /\ x.rtq = y.rtq /\ x.snd_nxt = c.snd_nxt /\ SameHeld(c, x)
    BY <2>1 DEF Connection, SameReceive, SameHeld
  <2> HIDE DEF x
  <2>4. x.rtq = {}
    BY <1>2, <1>4, <2>1, <2>3, ConnTypes DEF RetireAcked, Tracks, RetransmitSegment
  <2>5. Queued(x) /\ Inherits(c, {}, x)
    BY <1>2, <2>1, <2>2, <2>3, <2>4, SlideQueued
  <2>6. Gapped(x) /\ x.ooo = c.ooo /\ c.rcv_nxt <= x.rcv_nxt /\ c.snd_nxt <= x.snd_nxt
    BY <1>2, <2>3 DEF Gapped, SameHeld
  <2>7. Hears(P, c, {}, m, Quietly(x))
    BY <1>2, <1>4, <2>2, <2>3, <2>5, <2>6, HearsQuietly
  <2> QED BY <1>1, <1>4, <2>7
<1> QED BY <1>1, <1>3, <1>4

\* TIME_WAIT
LEMMA OnTimeWaitHears ==
    ASSUME NEW P, NEW h \in Host, NEW c, NEW m, Ready(P, h, c, m), c.state # "Closed"
    PROVE  Hears(P, c, {}, m, OnTimeWait(c, m))
<1> DEFINE z == AckSegment(c, c.snd_nxt)
<1>1. OnTimeWait(c, m) = IF m.fin THEN Result(c, <<z>>) ELSE Quietly(c)
  BY DEF OnTimeWait
<1>2. /\ c \in Connection /\ c.snd_nxt \in Nat /\ c.rcv_nxt \in Nat
      /\ P \in SUBSET RetransmitSegment /\ Queued(c) /\ Gapped(c)
  BY ConnTypes DEF Ready, ConnOK
<1>3. Hears(P, c, {}, m, Quietly(c))
  BY <1>2, EmitsQuietly DEF Emits, SameHeld
<1>4. z.data = <<>> /\ z.seq = c.snd_nxt /\ z.ack = c.rcv_nxt /\ z.sack = {}
  BY DEF AckSegment
<1> HIDE DEF z
<1>5. Inherits(c, {}, c) /\ c.snd_nxt <= c.snd_nxt /\ c.rcv_nxt <= c.rcv_nxt
  BY <1>2, InheritsPart
<1>6. Hears(P, c, {}, m, Result(c, <<z>>))
  BY <1>2, <1>4, <1>5, HearsReply
<1> QED BY <1>1, <1>3, <1>6

\* handle_segment, of a segment that is no reset
LEMMA HandleSegmentHears ==
    ASSUME OneOpener, TypeOK, NEW P, NEW h \in Host, NEW c, NEW m, Ready(P, h, c, m),
           Sound(Other(h), conn[Other(h)]), ~m.rst
    PROVE  Hears(P, c, m.sack, m, HandleSegment(c, m))
<1> DEFINE x == ApplyOptions(c, m)
           r == HandleSegment(c, m)
<1>1. /\ c \in Connection /\ ConnOK(c) /\ Sound(h, c) /\ Queued(c) /\ Gapped(c)
      /\ m \in Segment /\ Arrives(h, m) /\ P \in SUBSET RetransmitSegment /\ Matches(P, c, m)
  BY DEF Ready, ConnOK, Arrives
<1>2. r = CASE x.state = "Listen" -> OnListen(x, m)
            [] x.state = "SynSent" -> OnSynSent(x, m)
            [] x.state = "SynReceived" -> OnSynReceived(x, m)
            [] x.state \in {"Established", "FinWait1", "FinWait2"} -> OnSynchronized(x, m)
            [] x.state = "CloseWait" -> OnCloseWait(x, m)
            [] x.state = "Closing" -> OnFinalAck(x, m, "TimeWait")
            [] x.state = "LastAck" -> OnFinalAck(x, m, "Closed")
            [] x.state = "TimeWait" -> OnTimeWait(x, m)
            [] x.state = "Closed" -> Quietly(x)
  BY DEF HandleSegment
<1>3. r.c \in Connection /\ r.out \in Seq(Segment)
  BY <1>1, HandleSegmentOK DEF Keeps, ConnOK
<1>4. Hears(P, c, m.sack, m, Quietly(x)) /\ SameHeld(c, x) /\ Queued(x) /\ Gapped(x)
  BY <1>1, ApplyOptionsHears
<1>5. ConnOK(x) /\ Sound(h, x)
  BY <1>1, ApplyOptionsSound
<1> HIDE DEF x, r
<1>6. x \in Connection /\ Ready(P, h, x, m) /\ x.state \in TcpState
  BY <1>1, <1>4, <1>5, ConnTypes DEF Ready, ConnOK, Matches, SameHeld
<1>7. Hears(P, x, {}, m, r)
  <2>1. CASE x.state = "Listen"
    BY <1>2, <1>6, <2>1, OnListenHears
  <2>2. CASE x.state = "SynSent"
    BY <1>2, <1>6, <2>2, OnSynSentHears
  <2>3. CASE x.state = "SynReceived"
    BY <1>2, <1>6, <2>3, OnSynReceivedHears
  <2>4. CASE x.state \in {"Established", "FinWait1", "FinWait2"}
    BY <1>2, <1>6, <2>4, OnSynchronizedHears
  <2>5. CASE x.state = "CloseWait"
    BY <1>2, <1>6, <2>5, OnCloseWaitHears
  <2>6. CASE x.state \in {"Closing", "LastAck"}
    BY <1>2, <1>6, <2>6, OnFinalAckHears
  <2>7. CASE x.state = "TimeWait"
    BY <1>2, <1>6, <2>7, OnTimeWaitHears
  <2>8. CASE x.state = "Closed"
    BY <1>2, <1>4, <1>6, <2>8, EmitsQuietly DEF Emits, SameHeld
  <2> QED BY <1>6, <2>1, <2>2, <2>3, <2>4, <2>5, <2>6, <2>7, <2>8 DEF TcpState
<1>8. Hears(P, c, m.sack, m, r)
  BY <1>1, <1>3, <1>4, <1>6, <1>7, QuietlyHears
<1> QED BY <1>8 DEF r

-----------------------------------------------------------------------------
(* The two hosts *)

\* The sender's half of a step: its queue has moved on to that of x.
LEMMA SenderPair ==
    ASSUME NEW c \in Connection, NEW x \in Connection, NEW d \in Connection, NEW B,
           NEW M, NEW N \in SUBSET Segment, NEW M2 \in SUBSET Segment, NEW N2 \in SUBSET N,
           SackPair(c, d, M, N), Tracks(x), Inherits(c, B, x), c.snd_nxt <= x.snd_nxt,
           \A b \in B : \E m \in N : b \in m.sack,
           x.snd_una = c.snd_una \/ \E m \in N : ~m.rst /\ m.isAck /\ x.snd_una = m.ack,
           \A s \in d.ooo : EndOf(s) <= c.snd_nxt,
           \A m \in M2 : m \in M \/ m.rst \/ Aligned(x, m)
    PROVE  SackPair(x, d, M2, N2)
<1>1. /\ c.snd_nxt \in Nat /\ x.snd_nxt \in Nat /\ x.rtq \in SUBSET RetransmitSegment
      /\ d.ooo \in SUBSET OooSegment
  BY ConnTypes
<1>2. Vouched(c, d, N) /\ Fits(c, d)
      /\ \A m \in N : \A b \in m.sack : b[2] <= c.snd_nxt
  BY DEF SackPair
<1>3. \A f \in x.rtq : f.seq \in Nat /\ f.end \in Nat /\ f.seq < f.end
  BY <1>1 DEF Tracks, RetransmitSegment
<1>4. \A m \in N : \A b \in m.sack : b[2] \in Nat
  BY DEF Segment
<1>5. Vouched(x, d, N2)
  <2> SUFFICES ASSUME NEW f \in x.rtq, Reported(f, N2)
               PROVE  /\ 0 < d.rcv_nxt
                      /\ d.state # "Closed" => Holds(d, f)
                      /\ Clear(f, x.snd_una)
                      /\ \A m \in N2 : ~m.rst /\ m.isAck => Clear(f, m.ack)
    BY DEF Vouched
  <2>1. CASE c.snd_nxt <= f.seq /\ ~f.sacked
    <3>1. PICK m \in N2 : \E b \in m.sack : Within(f, b)
      BY <2>1 DEF Reported
    <3>2. PICK b \in m.sack : Within(f, b)
      BY <3>1
    <3>3. f.end <= b[2] /\ b[2] <= c.snd_nxt /\ b[2] \in Nat
      BY <1>2, <1>4, <3>2 DEF Within
    <3> QED BY <1>1, <1>3, <2>1, <3>3
  <2>2. ASSUME NEW e \in c.rtq, f.seq = e.seq, f.end = e.end,
               f.sacked => e.sacked \/ \E b \in B : Within(e, b)
        PROVE  /\ 0 < d.rcv_nxt
               /\ d.state # "Closed" => Holds(d, f)
               /\ Clear(f, x.snd_una)
               /\ \A m \in N2 : ~m.rst /\ m.isAck => Clear(f, m.ack)
    <3>1. Reported(e, N)
      BY <2>2 DEF Reported, Within
    <3>2. /\ 0 < d.rcv_nxt /\ (d.state # "Closed" => Holds(d, e)) /\ Clear(e, c.snd_una)
          /\ \A m \in N : ~m.rst /\ m.isAck => Clear(e, m.ack)
      BY <1>2, <3>1 DEF Vouched
    <3>3. Clear(e, x.snd_una)
      BY <3>2
    <3> QED BY <2>2, <3>2, <3>3 DEF Holds, Clear
  <2> QED BY <2>1, <2>2 DEF Inherits
<1>6. Fits(x, d)
  <2> SUFFICES ASSUME NEW s \in d.ooo, NEW f \in x.rtq, Meets(s.seq, EndOf(s), f)
               PROVE  s.seq = f.seq /\ EndOf(s) <= f.end
    BY DEF Fits
  <2>1. EndOf(s) \in Nat /\ EndOf(s) <= c.snd_nxt /\ f.seq < EndOf(s)
    BY <1>1, LenProperties DEF OooSegment, EndOf, Meets
  <2>2. ~(c.snd_nxt <= f.seq)
    BY <1>1, <1>3, <2>1
  <2>3. PICK e \in c.rtq : f.seq = e.seq /\ f.end = e.end
    BY <2>2 DEF Inherits
  <2> QED BY <1>2, <2>3 DEF Fits, Meets
<1>7. \A m \in N2 : \A b \in m.sack : b[2] <= x.snd_nxt
  BY <1>1, <1>2, <1>4
<1>8. \A m \in M2 : m.rst \/ Aligned(x, m)
  BY AlignedLater DEF SackPair
<1> QED BY <1>5, <1>6, <1>7, <1>8 DEF SackPair

\* Who has all of e and nothing parked at rcv_nxt does not acknowledge into e.
LEMMA HeldClear ==
    ASSUME NEW x \in Connection, NEW e \in RetransmitSegment, Gapped(x), Holds(x, e)
    PROVE  Clear(e, x.rcv_nxt)
<1>1. x.rcv_nxt \in Nat /\ e.seq \in Nat /\ e.end \in Nat /\ x.ooo \in SUBSET OooSegment
  BY ConnTypes DEF RetransmitSegment
<1> SUFFICES ASSUME e.seq <= x.rcv_nxt, x.rcv_nxt < e.end PROVE FALSE
  BY DEF Clear
<1>2. PICK s \in x.ooo : Covers(s, x.rcv_nxt)
  BY <1>1 DEF Holds
<1>3. s.seq \in Nat /\ x.rcv_nxt < s.seq /\ s.seq <= x.rcv_nxt
  BY <1>1, <1>2 DEF Gapped, Covers, OooSegment
<1> QED BY <1>1, <1>3

\* What lies in a block that x reports, x has; the block lies beyond rcv_nxt.
LEMMA BlockHeld ==
    ASSUME NEW x \in Connection, Gapped(x), NEW e \in RetransmitSegment,
           NEW b \in SackBlocks(x.ooo), Within(e, b)
    PROVE  /\ Holds(x, e) /\ x.rcv_nxt < e.seq /\ x.ooo # {}
           /\ \E s \in x.ooo : b[2] = EndOf(s)
<1>1. x.rcv_nxt \in Nat /\ e.seq \in Nat /\ e.end \in Nat /\ x.ooo \in SUBSET OooSegment
  BY ConnTypes DEF RetransmitSegment
<1>2. /\ \E s \in x.ooo : b[1] = s.seq
      /\ \E s \in x.ooo : b[2] = EndOf(s)
      /\ \A k \in Nat : b[1] <= k /\ k < b[2] => \E s \in x.ooo : Covers(s, k)
  BY <1>1, SackCovers
<1>3. PICK s \in x.ooo : b[1] = s.seq
  BY <1>2
<1>4. s.seq \in Nat /\ x.rcv_nxt < s.seq
  BY <1>1 DEF Gapped, OooSegment
<1>5. PICK t \in x.ooo : b[2] = EndOf(t)
  BY <1>2
<1>6. EndOf(t) \in Nat
  BY <1>1, LenProperties DEF OooSegment, EndOf
<1>7. ASSUME NEW k \in e.seq .. (e.end - 1) PROVE \E u \in x.ooo : Covers(u, k)
  <2>1. k \in Nat /\ b[1] <= k /\ k < b[2]
    BY <1>1, <1>3, <1>4, <1>5, <1>6 DEF Within
  <2> QED BY <1>2, <2>1
<1>8. x.rcv_nxt < e.seq
  BY <1>1, <1>3, <1>4 DEF Within
<1> QED BY <1>2, <1>3, <1>7, <1>8 DEF Holds

\* The receiver's half: c has become x, and M2 is what it has under way.
LEMMA ReceiverPair ==
    ASSUME NEW c \in Connection, NEW x \in Connection, NEW d \in Connection,
           NEW M \in SUBSET Segment, NEW N \in SUBSET Segment, NEW M2 \in SUBSET Segment,
           NEW N2 \in SUBSET N, SackPair(d, c, N, M),
           Gapped(c), Gapped(x), c.rcv_nxt <= x.rcv_nxt,
           \/ \A e \in d.rtq : Holds(c, e) => Holds(x, e)
           \/ x.state = "Closed" /\ \A n \in M2 : n \in M \/ (n.rst /\ n.sack = {}),
           \A s \in x.ooo : s \in c.ooo \/ \E m \in N : ~m.rst /\ Part(m, s),
           c.state = "Closed" =>
             \/ c.rcv_nxt = 0
             \/ x.state = "Closed" /\ \A n \in M2 : n \in M \/ (n.rst /\ n.sack = {}),
           \A s \in c.ooo \cup x.ooo : EndOf(s) <= d.snd_nxt,
           c.ooo # {} => 0 < c.rcv_nxt /\ d.snd_una <= c.rcv_nxt,
           x.ooo # {} => 0 < x.rcv_nxt /\ d.snd_una <= x.rcv_nxt,
           \A m \in M : ~m.rst /\ m.isAck => m.ack <= c.rcv_nxt,
           \A n \in M2 : n \in M \/ (n.rst /\ n.sack = {}) \/ Bears(c, n) \/ Bears(x, n)
    PROVE  SackPair(d, x, N2, M2)
<1>1. /\ c.rcv_nxt \in Nat /\ x.rcv_nxt \in Nat /\ d.snd_nxt \in Nat /\ d.snd_una \in Nat
      /\ d.rtq \in SUBSET RetransmitSegment
      /\ c.ooo \in SUBSET OooSegment /\ x.ooo \in SUBSET OooSegment
  BY ConnTypes
<1>2. /\ Vouched(d, c, M) /\ Fits(d, c)
      /\ \A m \in M : \A b \in m.sack : b[2] <= d.snd_nxt
      /\ \A m \in N : m.rst \/ Aligned(d, m)
  BY DEF SackPair
<1>3. \A e \in d.rtq : e.seq \in Nat /\ e.end \in Nat
  BY <1>1 DEF RetransmitSegment
<1>4. Vouched(d, x, M2)
  <2> SUFFICES ASSUME NEW e \in d.rtq, Reported(e, M2)
               PROVE  /\ 0 < x.rcv_nxt
                      /\ x.state # "Closed" => Holds(x, e)
                      /\ Clear(e, d.snd_una)
                      /\ \A n \in M2 : ~n.rst /\ n.isAck => Clear(e, n.ack)
    BY DEF Vouched
  <2>1. e \in RetransmitSegment /\ e.seq \in Nat /\ e.end \in Nat
    BY <1>1, <1>3
  <2>2. ASSUME Holds(c, e), NEW n \in M2, n \notin M, ~n.rst, n.isAck
        PROVE  Clear(e, n.ack)
    <3>1. Clear(e, c.rcv_nxt) /\ Clear(e, x.rcv_nxt)
      BY <2>1, <2>2, HeldClear
    <3> QED BY <2>2, <3>1 DEF Bears
  <2>3. CASE Reported(e, M)
    <3>1. /\ 0 < c.rcv_nxt /\ (c.state # "Closed" => Holds(c, e)) /\ Clear(e, d.snd_una)
          /\ \A m \in M : ~m.rst /\ m.isAck => Clear(e, m.ack)
      BY <1>2, <2>3 DEF Vouched
    <3>2. c.state = "Closed" => x.state = "Closed" /\ \A n \in M2 : n \in M \/ n.rst
      BY <1>1, <3>1
    <3> QED BY <1>1, <2>2, <3>1, <3>2
  <2>4. CASE ~Reported(e, M)
    <3>1. PICK n \in M2 : n \notin M /\ \E b \in n.sack : Within(e, b)
      BY <2>4 DEF Reported
    <3>2. PICK b \in n.sack : Within(e, b)
      BY <3>1
    <3>3. /\ b \in SackBlocks(c.ooo) \/ b \in SackBlocks(x.ooo)
          /\ Holds(c, e) => Holds(x, e)
      BY <3>1, <3>2 DEF Bears
    <3>4. CASE b \in SackBlocks(c.ooo)
      <4>1. Holds(c, e) /\ c.rcv_nxt < e.seq /\ c.ooo # {}
        BY <2>1, <3>2, <3>4, BlockHeld
      <4>2. Holds(x, e) /\ 0 < x.rcv_nxt /\ d.snd_una < e.seq
        BY <1>1, <2>1, <3>3, <4>1
      <4>3. ASSUME NEW k \in M, ~k.rst, k.isAck PROVE Clear(e, k.ack)
        <5>1. k.ack \in Nat /\ k.ack <= c.rcv_nxt
          BY <4>3 DEF Segment
        <5> QED BY <1>1, <2>1, <4>1, <5>1 DEF Clear
      <4>4. Clear(e, d.snd_una)
        BY <1>1, <2>1, <4>2 DEF Clear
      <4> QED BY <2>2, <4>1, <4>2, <4>3, <4>4
    <3>5. CASE b \in SackBlocks(x.ooo)
      <4>1. Holds(x, e) /\ x.rcv_nxt < e.seq /\ x.ooo # {}
        BY <2>1, <3>2, <3>5, BlockHeld
      <4>2. 0 < x.rcv_nxt /\ d.snd_una < e.seq
        BY <1>1, <2>1, <4>1
      <4>3. ASSUME NEW k \in M2, ~k.rst, k.isAck PROVE Clear(e, k.ack)
        <5>1. k.ack \in Nat
          BY DEF Segment
        <5>2. k.ack <= x.rcv_nxt
          BY <1>1, <4>3, <5>1 DEF Bears
        <5> QED BY <1>1, <2>1, <4>1, <5>1, <5>2 DEF Clear
      <4>4. Clear(e, d.snd_una)
        BY <1>1, <2>1, <4>2 DEF Clear
      <4> QED BY <4>1, <4>2, <4>3, <4>4
    <3> QED BY <3>3, <3>4, <3>5
  <2> QED BY <2>3, <2>4
<1>5. Fits(d, x)
  <2> SUFFICES ASSUME NEW s \in x.ooo, NEW e \in d.rtq, Meets(s.seq, EndOf(s), e)
               PROVE  s.seq = e.seq /\ EndOf(s) <= e.end
    BY DEF Fits
  <2>1. CASE s \in c.ooo
    BY <1>2, <2>1 DEF Fits
  <2>2. ASSUME NEW m \in N, ~m.rst, Part(m, s)
        PROVE  s.seq = e.seq /\ EndOf(s) <= e.end
    <3> DEFINE z == m.seq + Len(m.data)
               t == EndOf(s)
    <3>1. z \in Nat /\ m.seq \in Nat /\ t \in Nat /\ s.seq \in Nat
      BY <1>1, LenProperties DEF Segment, OooSegment, EndOf
    <3>2. s.seq = m.seq /\ s.seq < t /\ t <= z
      BY <2>2 DEF Part
    <3>3. Meets(m.seq, z, e) => m.seq = e.seq /\ z = e.end
      BY <1>2, <2>2 DEF Aligned
    <3> HIDE DEF z, t
    <3>4. Meets(s.seq, t, e)
      BY DEF t
    <3>5. Meets(m.seq, z, e)
      BY <1>3, <3>1, <3>2, <3>4 DEF Meets
    <3>6. s.seq = e.seq /\ t <= e.end
      BY <3>2, <3>3, <3>5
    <3> QED BY <3>6 DEF t
  <2> QED BY <2>1, <2>2
<1>6. ASSUME NEW n \in M2, NEW b \in n.sack PROVE b[2] <= d.snd_nxt
  <2>1. CASE n \in M
    BY <1>2, <2>1
  <2>2. CASE n \notin M
    <3>1. b \in SackBlocks(c.ooo) \/ b \in SackBlocks(x.ooo)
      BY <2>2 DEF Bears
    <3>2. (\E s \in c.ooo : b[2] = EndOf(s)) \/ \E s \in x.ooo : b[2] = EndOf(s)
      BY <1>1, <3>1, SackCovers
    <3> QED BY <3>2
  <2> QED BY <2>1, <2>2
<1>7. \A m \in N2 : m.rst \/ Aligned(d, m)
  BY <1>2
<1> QED BY <1>4, <1>5, <1>6, <1>7 DEF SackPair

\* What is parked was sent, and the peer takes nothing beyond rcv_nxt for acknowledged.
LEMMA ParkedSent ==
    ASSUME TypeOK, NEW h \in Host, NEW c \in Connection, Sound(h, c), Gapped(c),
           Acked(Other(h), c, conn[Other(h)])
    PROVE  /\ \A s \in c.ooo : EndOf(s) <= conn[Other(h)].snd_nxt
           /\ c.ooo # {} => 0 < c.rcv_nxt /\ conn[Other(h)].snd_una <= c.rcv_nxt
<1> DEFINE o == Other(h)
           d == conn[o]
           g == got[h] \o c.rx
           n == Len(g)
<1>1. /\ o \in Host /\ d \in Connection /\ got[h] \in Seq(Byte) /\ Isn[o] \in Nat
  BY Context, TwoHosts, HostData
<1>2. /\ c.rcv_nxt \in Nat /\ c.ooo \in SUBSET OooSegment /\ g \in Seq(Byte) /\ n \in Nat
      /\ d.snd_nxt \in Nat /\ d.snd_una \in Nat /\ DataEnd(d) \in Int
      /\ DataEnd(d) <= d.snd_nxt /\ Bit(c.fin_received) \in {0, 1}
  BY <1>1, ConnTypes, ConcatProperties, LenProperties
<1>3. RecvOK(o, got[h], d, c) /\ Acked(o, c, d)
  BY DEF Sound
<1> SUFFICES ASSUME c.ooo # {}
             PROVE  /\ \A s \in c.ooo : EndOf(s) <= d.snd_nxt
                    /\ 0 < c.rcv_nxt /\ d.snd_una <= c.rcv_nxt
  OBVIOUS
<1>4. Synced(o, g, d, c)
  BY <1>3 DEF RecvOK, Blank
<1>5. c.rcv_nxt = Isn[o] + 1 + n + Bit(c.fin_received)
      /\ \A s \in c.ooo : Carries(o, s.seq, s.data, DataEnd(d))
  BY <1>4 DEF Synced
<1> HIDE DEF n, d, o
<1>6. Isn[o] < c.rcv_nxt
  BY <1>1, <1>2, <1>5
<1>7. 0 < c.rcv_nxt /\ d.snd_una <= c.rcv_nxt
  BY <1>1, <1>2, <1>3, <1>6 DEF Acked
<1>8. ASSUME NEW s \in c.ooo PROVE EndOf(s) <= d.snd_nxt
  <2> DEFINE k == Len(s.data)
             q == s.seq
             z == DataEnd(d)
  <2>1. k \in Nat /\ q \in Nat /\ q < q + k /\ EndOf(s) = q + k
    BY <1>2, LenProperties DEF Gapped, OooSegment, EndOf
  <2>2. \A i \in 1 .. k : q + i - 1 < z
    BY <1>5 DEF Carries
  <2>3. z \in Int /\ z <= d.snd_nxt
    BY <1>2
  <2> HIDE DEF k, q, z
  <2>4. q + k - 1 < z
    BY <2>1, <2>2
  <2> QED BY <1>2, <2>1, <2>3, <2>4
<1> QED BY <1>7, <1>8

\* What is under way is made of segments, and what is not a reset acknowledges no more
\* than was received.
LEMMA UnderwaySegments ==
    ASSUME IInv, StreamInv, NEW h \in Host
    PROVE  /\ Underway(h) \in SUBSET Segment
           /\ \A m \in Underway(h) : SegOK(h, conn[h], m)
<1>1. Other(h) \in Host /\ wire[Other(h)] \in Seq(Segment) /\ txq[h] \in Seq(Segment)
  BY TwoHosts DEF IInv, TypeOK
<1>2. /\ \A i \in DOMAIN wire[Other(h)] : wire[Other(h)][i] \in Segment
      /\ \A i \in DOMAIN txq[h] : txq[h][i] \in Segment
  BY <1>1, ElementOfSeq, LenProperties
<1>3. Flight(h)
  BY DEF StreamInv
<1> QED BY <1>2, <1>3 DEF Underway, Members, Flight

\* A step that moves host h on to connection x; m may be the segment that it takes.
LEMMA SackStep ==
    ASSUME IInv, StreamInv, SackInv, TypeOK', NEW h \in Host, NEW x \in Connection, NEW B,
           NEW m, conn' = [conn EXCEPT ![h] = x], Sound(h, x), Advances(conn[h], x),
           Queued(x), Gapped(x), Inherits(conn[h], B, x),
           B = {} \/ (m \in Underway(Other(h)) /\ B = m.sack),
           \/ x.snd_una = conn[h].snd_una
           \/ m \in Underway(Other(h)) /\ ~m.rst /\ m.isAck /\ x.snd_una = m.ack,
           \/ \A e \in conn[Other(h)].rtq : Holds(conn[h], e) => Holds(x, e)
           \/ /\ x.state = "Closed"
              /\ \A n \in Underway(h)' : n \in Underway(h) \/ (n.rst /\ n.sack = {}),
           \A s \in x.ooo : \/ s \in conn[h].ooo
                            \/ m \in Underway(Other(h)) /\ ~m.rst /\ Part(m, s),
           conn[h].state = "Closed" =>
             \/ conn[h].rcv_nxt = 0
             \/ /\ x.state = "Closed"
                /\ \A n \in Underway(h)' : n \in Underway(h) \/ (n.rst /\ n.sack = {}),
           \A n \in Underway(h)' :
             \/ n \in Underway(h)
             \/ n.rst /\ n.sack = {}
             \/ Aligned(x, n) /\ (Bears(conn[h], n) \/ Bears(x, n)),
           \A n \in Underway(Other(h))' : n \in Underway(Other(h))
    PROVE  SackInv'
<1> DEFINE o == Other(h)
           c == conn[h]
           d == conn[o]
           M == Underway(h)
           N == Underway(o)
           M2 == Underway(h)'
           N2 == Underway(o)'
<1>1. /\ o \in Host /\ o # h /\ Other(o) = h /\ \A g \in Host : g = h \/ g = o
  BY TwoHosts
<1>2. /\ TypeOK /\ conn \in [Host -> Connection] /\ c \in Connection /\ d \in Connection
  BY <1>1 DEF IInv, TypeOK
<1>3. conn'[h] = x /\ conn'[o] = d
  BY <1>1, <1>2
<1>4. /\ Sound(h, c) /\ Sound(o, d) /\ Queued(d) /\ Gapped(d) /\ Gapped(c)
      /\ SackPair(c, d, M, N) /\ SackPair(d, c, N, M)
  BY <1>1 DEF StreamInv, SackInv
<1>5. M \in SUBSET Segment /\ N \in SUBSET Segment /\ \A n \in M : SegOK(h, c, n)
  BY <1>1, UnderwaySegments
<1>6. M2 \in SUBSET Segment /\ N2 \in SUBSET N
  <2>1. /\ wire'[o] \in Seq(Segment) /\ txq'[h] \in Seq(Segment)
    BY <1>1 DEF TypeOK
  <2>2. /\ \A i \in DOMAIN wire'[o] : wire'[o][i] \in Segment
        /\ \A i \in DOMAIN txq'[h] : txq'[h][i] \in Segment
    BY <2>1, ElementOfSeq, LenProperties
  <2>3. M2 \in SUBSET Segment
    BY <2>2 DEF Underway, Members
  <2> QED BY <2>3
<1>7. c.snd_nxt <= x.snd_nxt /\ c.rcv_nxt <= x.rcv_nxt /\ Tracks(x)
  BY DEF Advances, Sound, SendOK
<1>8. Acked(h, d, c) /\ Acked(o, c, d) /\ Acked(o, x, d)
  <2>1. Acked(h, conn[Other(h)], c) /\ Acked(o, conn[Other(o)], d)
    BY <1>4 DEF Sound
  <2> QED BY <1>1, <1>2, <2>1, AckedLater
<1>9. /\ \A s \in c.ooo : EndOf(s) <= d.snd_nxt
      /\ c.ooo # {} => 0 < c.rcv_nxt /\ d.snd_una <= c.rcv_nxt
      /\ \A s \in x.ooo : EndOf(s) <= d.snd_nxt
      /\ x.ooo # {} => 0 < x.rcv_nxt /\ d.snd_una <= x.rcv_nxt
  BY <1>2, <1>4, <1>8, ParkedSent
<1>10. \A s \in d.ooo : EndOf(s) <= c.snd_nxt
  <2>1. Acked(Other(o), d, conn[Other(o)])
    BY <1>1, <1>8
  <2>2. \A s \in d.ooo : EndOf(s) <= conn[Other(o)].snd_nxt
    BY <1>1, <1>2, <1>4, <2>1, ParkedSent
  <2> QED BY <1>1, <2>2
<1> HIDE DEF o, c, d, M, N, M2, N2
<1>11. SackPair(x, d, M2, N2)
  <2>1. /\ \A b \in B : \E n \in N : b \in n.sack
        /\ x.snd_una = c.snd_una \/ \E n \in N : ~n.rst /\ n.isAck /\ x.snd_una = n.ack
        /\ \A n \in M2 : n \in M \/ n.rst \/ Aligned(x, n)
    BY DEF o, c, M, N, M2
  <2>2. Inherits(c, B, x)
    BY DEF c
  <2> QED BY <1>2, <1>4, <1>5, <1>6, <1>7, <1>10, <2>1, <2>2, SenderPair
<1>12. SackPair(d, x, N2, M2)
  <2>1. /\ \/ \A e \in d.rtq : Holds(c, e) => Holds(x, e)
           \/ x.state = "Closed" /\ \A n \in M2 : n \in M \/ (n.rst /\ n.sack = {})
        /\ \A s \in x.ooo : s \in c.ooo \/ \E n \in N : ~n.rst /\ Part(n, s)
        /\ c.state = "Closed" =>
             \/ c.rcv_nxt = 0
             \/ x.state = "Closed" /\ \A n \in M2 : n \in M \/ (n.rst /\ n.sack = {})
        /\ \A n \in M2 : n \in M \/ (n.rst /\ n.sack = {}) \/ Bears(c, n) \/ Bears(x, n)
    BY DEF o, c, d, M, N, M2
  <2>2. \A n \in M : ~n.rst /\ n.isAck => n.ack <= c.rcv_nxt
    BY <1>5 DEF SegOK
  <2>3. \A s \in c.ooo \cup x.ooo : EndOf(s) <= d.snd_nxt
    BY <1>9
  <2> QED BY <1>2, <1>4, <1>5, <1>6, <1>7, <1>9, <2>1, <2>2, <2>3, ReceiverPair
<1>13. /\ SackPair(conn'[h], conn'[o], Underway(h)', Underway(o)')
       /\ SackPair(conn'[o], conn'[h], Underway(o)', Underway(h)')
       /\ Queued(conn'[h]) /\ Gapped(conn'[h]) /\ Queued(conn'[o]) /\ Gapped(conn'[o])
  BY <1>3, <1>4, <1>11, <1>12 DEF M2, N2
<1> SUFFICES ASSUME NEW g \in Host
             PROVE  (/\ Queued(conn[g]) /\ Gapped(conn[g])
                     /\ SackPair(conn[g], conn[Other(g)], Underway(g), Underway(Other(g))))'
  BY DEF SackInv
<1>14. CASE g = h
  BY <1>13, <1>14 DEF o
<1>15. CASE g = o
  <2>1. Other(g) = h /\ g = Other(h)
    BY <1>1, <1>15 DEF o
  <2> QED BY <1>13, <1>15, <2>1
<1> QED BY <1>1, <1>14, <1>15

-----------------------------------------------------------------------------
(* Queues *)

\* Two queues one after the other have the segments of both.
LEMMA MembersBoth ==
    ASSUME NEW s \in Seq(Segment), NEW t \in Seq(Segment)
    PROVE  Members(s \o t) \in SUBSET (Members(s) \cup Members(t))
<1> DEFINE n == Len(s)
           k == Len(t)
           p == s \o t
<1>1. n \in Nat /\ k \in Nat /\ DOMAIN s = 1 .. n /\ DOMAIN t = 1 .. k
  BY LenProperties
<1>2. /\ p \in Seq(Segment) /\ Len(p) = n + k
      /\ \A i \in 1 .. n + k : p[i] = IF i <= n THEN s[i] ELSE t[i - n]
  BY ConcatProperties
<1>3. DOMAIN p = 1 .. n + k
  BY <1>2, LenProperties
<1> HIDE DEF n, k, p
<1>4. ASSUME NEW i \in 1 .. n + k PROVE p[i] \in Members(s) \cup Members(t)
  <2>1. CASE i <= n
    <3>1. i \in DOMAIN s /\ p[i] = s[i]
      BY <1>1, <1>2, <2>1
    <3> QED BY <3>1 DEF Members
  <2>2. CASE ~(i <= n)
    <3>1. i - n \in DOMAIN t /\ p[i] = t[i - n]
      BY <1>1, <1>2, <2>2
    <3> QED BY <3>1 DEF Members
  <2> QED BY <2>1, <2>2
<1>5. Members(p) \in SUBSET (Members(s) \cup Members(t))
  BY <1>3, <1>4 DEF Members
<1> QED BY <1>5 DEF p

\* A part of a queue has some of its segments.
LEMMA MembersPart ==
    ASSUME NEW s \in Seq(Segment), NEW i \in Nat \ {0}, NEW j \in Int, j <= Len(s)
    PROVE  /\ Members(SubSeq(s, i, j)) \in SUBSET Members(s)
           /\ SubSeq(s, i, j) \in Seq(Segment)
<1> DEFINE p == SubSeq(s, i, j)
           n == Len(s)
<1>1. n \in Nat /\ DOMAIN s = 1 .. n /\ j <= n
  BY LenProperties
<1> HIDE DEF n
<1>2. \A k \in i .. j : k \in DOMAIN s
  BY <1>1
<1>3. \A k \in i .. j : s[k] \in Segment
  BY <1>1, <1>2, ElementOfSeq DEF n
<1>4. i \in Int
  OBVIOUS
<1>5. /\ p \in Seq(Segment) /\ Len(p) = IF i <= j THEN j - i + 1 ELSE 0
      /\ \A k \in 1 .. j - i + 1 : p[k] = s[i + k - 1]
  BY <1>3, <1>4, SubSeqProperties
<1>6. DOMAIN p = 1 .. Len(p)
  BY <1>5, LenProperties
<1> HIDE DEF p
<1>7. ASSUME NEW k \in DOMAIN p PROVE p[k] \in Members(s)
  <2>1. k \in 1 .. j - i + 1
    BY <1>5, <1>6
  <2>2. i + k - 1 \in i .. j
    BY <1>4, <2>1
  <2>3. p[k] = s[i + k - 1] /\ i + k - 1 \in DOMAIN s
    BY <1>2, <1>5, <2>1, <2>2
  <2> QED BY <2>3 DEF Members
<1> QED BY <1>5, <1>7 DEF Members, p

\* Taking a segment off a queue adds none.
LEMMA MembersWithout ==
    ASSUME NEW s \in Seq(Segment), NEW i \in DOMAIN s
    PROVE  Members(Without(s, i)) \in SUBSET Members(s)
<1> DEFINE n == Len(s)
<1>1. n \in Nat /\ i \in 1 .. n
  BY LenProperties
<1>2. /\ i - 1 \in Int /\ i - 1 <= n /\ i + 1 \in Nat \ {0} /\ n \in Int /\ 1 \in Nat \ {0}
      /\ n <= n
  <2> HIDE DEF n
  <2> QED BY <1>1
<1>3. /\ Members(SubSeq(s, 1, i - 1)) \in SUBSET Members(s) /\ SubSeq(s, 1, i - 1) \in Seq(Segment)
  BY <1>2, MembersPart
<1>4. /\ Members(SubSeq(s, i + 1, n)) \in SUBSET Members(s) /\ SubSeq(s, i + 1, n) \in Seq(Segment)
  BY <1>2, MembersPart
<1>5. Members(Without(s, i)) \in SUBSET
        (Members(SubSeq(s, 1, i - 1)) \cup Members(SubSeq(s, i + 1, n)))
  BY <1>3, <1>4, MembersBoth DEF Without
<1> QED BY <1>3, <1>4, <1>5

\* Host h puts out in tcp_tx.
LEMMA UnderwayMore ==
    ASSUME TypeOK, NEW h \in Host, NEW out \in Seq(Segment),
           txq' = [txq EXCEPT ![h] = @ \o out], wire' = wire
    PROVE  /\ \A n \in Underway(h)' : n \in Underway(h) \/ n \in Members(out)
           /\ \A n \in Underway(Other(h))' : n \in Underway(Other(h))
<1>1. /\ Other(h) \in Host /\ Other(h) # h /\ txq \in [Host -> Seq(Segment)]
      /\ txq[h] \in Seq(Segment)
  BY TwoHosts DEF TypeOK
<1>2. txq'[h] = txq[h] \o out /\ txq'[Other(h)] = txq[Other(h)]
  BY <1>1
<1>3. Members(txq'[h]) \in SUBSET (Members(txq[h]) \cup Members(out))
  BY <1>1, <1>2, MembersBoth
<1> QED BY <1>1, <1>2, <1>3 DEF Underway

\* Host h takes the i-th segment that has arrived, and answers with out.
LEMMA UnderwayExchange ==
    ASSUME TypeOK, NEW h \in Host, NEW i \in DOMAIN wire[h], NEW out \in Seq(Segment),
           Exchange(h, i, out), txq' = txq
    PROVE  /\ \A n \in Underway(h)' : n \in Underway(h) \/ n \in Members(out)
           /\ \A n \in Underway(Other(h))' : n \in Underway(Other(h))
           /\ wire[h][i] \in Underway(Other(h))
<1>1. /\ Other(h) \in Host /\ Other(h) # h /\ Other(Other(h)) = h
      /\ wire[h] \in Seq(Segment) /\ wire[Other(h)] \in Seq(Segment)
  BY TwoHosts DEF TypeOK
<1>2. wire'[h] = Without(wire[h], i) /\ wire'[Other(h)] = wire[Other(h)] \o out
  BY <1>1 DEF Exchange
<1>3. /\ Members(wire'[h]) \in SUBSET Members(wire[h])
      /\ Members(wire'[Other(h)]) \in SUBSET (Members(wire[Other(h)]) \cup Members(out))
  BY <1>1, <1>2, MembersWithout, MembersBoth
<1>4. wire[h][i] \in Members(wire[h])
  BY DEF Members
<1> QED BY <1>1, <1>3, <1>4 DEF Underway

-----------------------------------------------------------------------------
(* The steps *)

\* A step in which the handler of h leaves result r.
LEMMA HearsStep ==
    ASSUME IInv, StreamInv, SackInv, TypeOK', NEW h \in Host, NEW r, r.c \in Connection,
           r.out \in Seq(Segment), NEW B, NEW m,
           Hears(conn[Other(h)].rtq, conn[h], B, m, r),
           conn' = [conn EXCEPT ![h] = r.c], Sound(h, r.c), Advances(conn[h], r.c),
           B = {} \/ (m \in Underway(Other(h)) /\ B = m.sack),
           \/ m \in Underway(Other(h)) /\ ~m.rst
           \/ r.c.snd_una = conn[h].snd_una /\ r.c.ooo = conn[h].ooo,
           \A n \in Underway(h)' :
             n \in Underway(h) \/ (n.rst /\ n.sack = {}) \/ n \in Members(r.out),
           \A n \in Underway(Other(h))' : n \in Underway(Other(h))
    PROVE  SackInv'
<1> DEFINE c == conn[h]
           x == r.c
<1>1. /\ Queued(x) /\ Gapped(x) /\ Inherits(c, B, x)
      /\ x.snd_una = c.snd_una \/ (m.isAck /\ x.snd_una = m.ack)
      /\ \A e \in conn[Other(h)].rtq : Holds(c, e) => Holds(x, e)
      /\ \A s \in x.ooo : s \in c.ooo \/ Part(m, s)
      /\ c.state = "Closed" => x.state = "Closed" /\ r.out = <<>>
      /\ \A i \in 1 .. Len(r.out) :
           Aligned(x, r.out[i]) /\ (Bears(c, r.out[i]) \/ Bears(x, r.out[i]))
  BY DEF Hears
<1>2. DOMAIN r.out = 1 .. Len(r.out) /\ Len(<<>>) = 0
  BY LenProperties
<1>3. \A n \in Members(r.out) : Aligned(x, n) /\ (Bears(c, n) \/ Bears(x, n))
  BY <1>1, <1>2 DEF Members
<1>4. r.out = <<>> => Members(r.out) = {}
  BY <1>2 DEF Members
<1>5. /\ \/ x.snd_una = c.snd_una
         \/ m \in Underway(Other(h)) /\ ~m.rst /\ m.isAck /\ x.snd_una = m.ack
      /\ \A s \in x.ooo : s \in c.ooo \/ (m \in Underway(Other(h)) /\ ~m.rst /\ Part(m, s))
  BY <1>1
<1>6. c.state = "Closed" => /\ x.state = "Closed"
                            /\ \A n \in Underway(h)' : n \in Underway(h) \/ (n.rst /\ n.sack = {})
  BY <1>1, <1>4
<1>7. \A n \in Underway(h)' :
        \/ n \in Underway(h)
        \/ n.rst /\ n.sack = {}
        \/ Aligned(x, n) /\ (Bears(c, n) \/ Bears(x, n))
  BY <1>3
<1> QED BY <1>1, <1>5, <1>6, <1>7, SackStep

\* A step in which h takes nothing.
LEMMA EmitsStep ==
    ASSUME IInv, StreamInv, SackInv, TypeOK', NEW h \in Host, NEW r, r.c \in Connection,
           r.out \in Seq(Segment), NEW m,
           Emits(conn[Other(h)].rtq, conn[h], m, r),
           conn' = [conn EXCEPT ![h] = r.c], Sound(h, r.c), Advances(conn[h], r.c),
           \A n \in Underway(h)' :
             n \in Underway(h) \/ (n.rst /\ n.sack = {}) \/ n \in Members(r.out),
           \A n \in Underway(Other(h))' : n \in Underway(Other(h))
    PROVE  SackInv'
  BY HearsStep DEF Emits, SameHeld

\* c and x have the same queues.
SameQueues(c, x) ==
    /\ x.rtq = c.rtq /\ x.snd_una = c.snd_una /\ x.snd_nxt = c.snd_nxt /\ x.state = c.state
    /\ SameHeld(c, x)

\* A step that leaves the queues of both connections alone; nothing but a reset is sent.
LEMMA IdleStep ==
    ASSUME SackInv, \A h \in Host : SameQueues(conn[h], conn'[h]),
           \A h \in Host : \A n \in Underway(h)' : n \in Underway(h) \/ (n.rst /\ n.sack = {})
    PROVE  SackInv'
<1> SUFFICES ASSUME NEW h \in Host
             PROVE  (/\ Queued(conn[h]) /\ Gapped(conn[h])
                     /\ SackPair(conn[h], conn[Other(h)], Underway(h), Underway(Other(h))))'
  BY DEF SackInv
<1> DEFINE c == conn[h]
           d == conn[Other(h)]
           x == conn'[h]
           y == conn'[Other(h)]
           M == Underway(h)
           N == Underway(Other(h))
           M2 == Underway(h)'
           N2 == Underway(Other(h))'
<1>1. /\ Queued(c) /\ Gapped(c) /\ SackPair(c, d, M, N) /\ Other(h) \in Host
  BY TwoHosts DEF SackInv
<1>2. /\ \A n \in M2 : n \in M \/ (n.rst /\ n.sack = {})
      /\ \A n \in N2 : n \in N \/ (n.rst /\ n.sack = {})
      /\ SameQueues(c, x) /\ SameQueues(d, y)
  BY <1>1
<1>3. SackPair(x, y, M2, N2) /\ Queued(x) /\ Gapped(x)
  <2> HIDE DEF c, d, x, y, M, N, M2, N2
  <2>1. \A e \in c.rtq : Reported(e, N2) => Reported(e, N)
    BY <1>2 DEF Reported
  <2>2. Vouched(c, d, N) /\ Fits(c, d)
    BY <1>1 DEF SackPair
  <2>3. Vouched(x, y, N2)
    BY <1>2, <2>1, <2>2 DEF Vouched, SameQueues, SameHeld, Holds
  <2>4. Fits(x, y)
    BY <1>2, <2>2 DEF Fits, SameQueues, SameHeld
  <2>5. \A m \in M2 : m.rst \/ Aligned(x, m)
    BY <1>1, <1>2 DEF SackPair, SameQueues, Aligned
  <2>6. \A m \in N2 : \A b \in m.sack : b[2] <= x.snd_nxt
    BY <1>1, <1>2 DEF SackPair, SameQueues
  <2>7. Queued(x) /\ Gapped(x)
    BY <1>1, <1>2 DEF Queued, Gapped, SameQueues, SameHeld
  <2> QED BY <2>3, <2>4, <2>5, <2>6, <2>7 DEF SackPair
<1> QED BY <1>3

\* connect
LEMMA TcpConnectSacks ==
    ASSUME IInv, StreamInv, SackInv, TypeOK', NEW h \in Host, TcpConnect(h)
    PROVE  SackInv'
<1> DEFINE c == conn[h]
           syn == [AckSegment(c, c.snd_nxt) EXCEPT
                     !.ack = 0, !.isAck = FALSE, !.syn = TRUE,
                     !.mss = c.local_mss, !.sackOk = TRUE]
           k == c.snd_nxt + 1
           c1 == [c EXCEPT !.state = "SynSent", !.snd_nxt = k]
           e == RtqEntry(c.snd_nxt, 1, TRUE, FALSE, FALSE, <<>>)
           x == TrackForRetransmit(c1, e)
           r == InitiateSyn(c)
<1>1. r = Result(x, <<syn>>)
  BY DEF InitiateSyn
<1>2. /\ conn' = [conn EXCEPT ![h] = r.c] /\ txq' = [txq EXCEPT ![h] = @ \o r.out]
      /\ h \in Clients /\ slot[h] = "free" /\ wire' = wire
  BY DEF TcpConnect
<1>3. c = Fresh(h) /\ Sound(h, c) /\ wrote[h] = 0 /\ got[h] = <<>> /\ c \in Connection /\ TypeOK
  BY <1>2 DEF IInv, TypeOK, ConnInv, StreamInv
<1>4. Sends(h, c, r)
  BY <1>2, <1>3, InitiateSynSends
<1>5. r.c = x /\ r.out = <<syn>>
  BY <1>1 DEF Result
<1>6. /\ c.snd_una = c.snd_nxt /\ c.rcv_nxt = 0 /\ c.ooo = {} /\ c.rtq = {} /\ c.snd_nxt \in Nat
  BY <1>3, FreshShape, ConnTypes
<1>7. /\ x.rtq = c.rtq \cup {e} /\ x.snd_una = c.snd_una /\ x.snd_nxt = k /\ x.ooo = c.ooo
      /\ x.rcv_nxt = c.rcv_nxt /\ x.state = "SynSent"
  BY <1>3 DEF TrackForRetransmit, Connection
<1>8. e.seq = c.snd_nxt /\ e.end = k /\ e.data = <<>> /\ ~e.sacked
  BY DEF RtqEntry
<1>9. syn.seq = c.snd_nxt /\ syn.data = <<>> /\ ~syn.isAck /\ syn.sack = {}
  BY DEF AckSegment
<1>10. k \in Nat /\ c.snd_nxt < k /\ c.snd_nxt + 0 <= k
  BY <1>6
<1> HIDE DEF x, e, syn, k, r
<1>11. x \in Connection /\ Sound(h, x) /\ Advances(c, x) /\ <<syn>> \in Seq(Segment)
  BY <1>4, <1>5 DEF Sends, Steps, ConnOK
<1>12. Queued(x) /\ Gapped(x) /\ Inherits(c, {}, x)
  BY <1>6, <1>7, <1>8, <1>10 DEF Queued, Gapped, Inherits, Sized
<1>13. Aligned(x, syn) /\ Bears(x, syn)
  <2>1. Len(syn.data) = 0
    BY <1>9
  <2> QED BY <1>6, <1>7, <1>9, <1>10, <2>1 DEF Aligned, Bears, Meets
<1>14. Members(<<syn>>) = {syn}
  BY DEF Members
<1>15. /\ \A n \in Underway(h)' : n \in Underway(h) \/ n = syn
       /\ \A n \in Underway(Other(h))' : n \in Underway(Other(h))
  BY <1>2, <1>3, <1>5, <1>11, <1>14, UnderwayMore
<1>16. \A f \in conn[Other(h)].rtq : Holds(c, f) => Holds(x, f)
  BY <1>7 DEF Holds
<1> QED BY <1>2, <1>5, <1>6, <1>7, <1>11, <1>12, <1>13, <1>15, <1>16, SackStep

\* write
LEMMA TcpWriteSacks ==
    ASSUME IInv, SackInv, NEW h \in Host, NEW n \in Nat, TcpWrite(h, n)
    PROVE  SackInv'
<1> DEFINE x == Write(conn[h], SubSeq(AppData[h], wrote[h] + 1, wrote[h] + n))
<1>1. conn' = [conn EXCEPT ![h] = x] /\ txq' = txq /\ wire' = wire
  BY DEF TcpWrite
<1>2. conn \in [Host -> Connection]
  BY DEF IInv, TypeOK
<1>3. SameQueues(conn[h], x)
  BY <1>2 DEF Write, Connection, SameQueues, SameHeld
<1> HIDE DEF x
<1>4. \A g \in Host : SameQueues(conn[g], conn'[g])
  <2>1. conn'[h] = x /\ \A g \in Host : g # h => conn'[g] = conn[g]
    BY <1>1, <1>2
  <2> QED BY <1>3, <2>1 DEF SameQueues, SameHeld
<1>5. \A g \in Host : Underway(g)' = Underway(g)
  BY <1>1 DEF Underway
<1> QED BY <1>4, <1>5, IdleStep

\* read
LEMMA TcpReadSacks ==
    ASSUME IInv, SackInv, NEW h \in Host, NEW n \in Nat, TcpRead(h, n)
    PROVE  SackInv'
<1> DEFINE x == Read(conn[h], n)
<1>1. conn' = [conn EXCEPT ![h] = x] /\ txq' = txq /\ wire' = wire
  BY DEF TcpRead
<1>2. conn \in [Host -> Connection]
  BY DEF IInv, TypeOK
<1>3. SameQueues(conn[h], x)
  BY <1>2 DEF Read, Connection, SameQueues, SameHeld
<1> HIDE DEF x
<1>4. \A g \in Host : SameQueues(conn[g], conn'[g])
  <2>1. conn'[h] = x /\ \A g \in Host : g # h => conn'[g] = conn[g]
    BY <1>1, <1>2
  <2> QED BY <1>3, <2>1 DEF SameQueues, SameHeld
<1>5. \A g \in Host : Underway(g)' = Underway(g)
  BY <1>1 DEF Underway
<1> QED BY <1>4, <1>5, IdleStep

\* initiate_close
LEMMA InitiateCloseEmits ==
    ASSUME NEW P, NEW m, NEW h \in Host, NEW c, ConnOK(c), Sound(h, c), Queued(c), Gapped(c)
    PROVE  Emits(P, c, m, InitiateClose(c))
<1> DEFINE x == [c EXCEPT !.close_requested = TRUE]
           r == InitiateClose(c)
<1>1. r = IF c.state \notin {"Established", "CloseWait"} THEN Quietly(c)
          ELSE IF c.tx = <<>> THEN EmitFin(x) ELSE Quietly(x)
  BY DEF InitiateClose
<1>2. c \in Connection
  BY DEF ConnOK
<1>3. ConnOK(x) /\ Sound(h, x)
  BY CloseRequestSound
<1>4. SameQueues(c, x)
  BY <1>2 DEF Connection, SameQueues, SameHeld
<1> HIDE DEF x, r
<1>5. x \in Connection /\ Tracks(x) /\ Queued(x) /\ Gapped(x)
  BY <1>3, <1>4 DEF ConnOK, Sound, SendOK, SameQueues, SameHeld, Queued, Gapped
<1>6. Emits(P, c, m, Quietly(c)) /\ Emits(P, c, m, Quietly(x))
  BY <1>2, <1>4, EmitsQuietly DEF SameQueues, SameHeld
<1>7. Emits(P, x, m, EmitFin(x))
  BY <1>3, <1>5, EmitFinEmits
<1>8. Emits(P, c, m, EmitFin(x))
  BY <1>4, <1>7 DEF Emits, Hears, SameQueues, SameHeld, Inherits, Holds, Bears
<1>9. Emits(P, c, m, r)
  BY <1>1, <1>6, <1>8
<1> QED BY <1>9 DEF r

\* close and shutdown
LEMMA TcpCloseSacks ==
    ASSUME IInv, StreamInv, SackInv, TypeOK', NEW h \in Host, TcpClose(h)
    PROVE  SackInv'
<1> DEFINE r == InitiateClose(conn[h])
<1>1. /\ conn' = [conn EXCEPT ![h] = r.c] /\ txq' = [txq EXCEPT ![h] = @ \o r.out]
      /\ wire' = wire
  BY DEF TcpClose
<1>2. /\ ConnOK(conn[h]) /\ Sound(h, conn[h]) /\ wrote[h] \in Nat /\ TypeOK
      /\ Queued(conn[h]) /\ Gapped(conn[h])
  BY DEF IInv, TypeOK, ConnInv, StreamInv, SackInv
<1>3. Sound(h, r.c) /\ Advances(conn[h], r.c) /\ ConnOK(r.c) /\ r.out \in Seq(Segment)
  BY <1>2, InitiateCloseSends, InitiateCloseOK DEF Keeps
<1>4. Emits(conn[Other(h)].rtq, conn[h], 0, r)
  BY <1>2, InitiateCloseEmits
<1> HIDE DEF r
<1>5. r.c \in Connection
  BY <1>3 DEF ConnOK
<1>6. /\ \A n \in Underway(h)' : n \in Underway(h) \/ n \in Members(r.out)
      /\ \A n \in Underway(Other(h))' : n \in Underway(Other(h))
  BY <1>1, <1>2, <1>3, UnderwayMore
<1> QED BY <1>1, <1>3, <1>4, <1>5, <1>6, EmitsStep

\* tcp_abort
LEMMA TcpAbortSacks ==
    ASSUME IInv, StreamInv, SackInv, TypeOK', NEW h \in Host, TcpAbort(h)
    PROVE  SackInv'
<1>1. /\ ConnOK(conn[h]) /\ Sound(h, conn[h]) /\ wrote[h] \in Nat /\ TypeOK
      /\ Queued(conn[h]) /\ Gapped(conn[h]) /\ txq[h] \in Seq(Segment)
  BY DEF IInv, TypeOK, ConnInv, StreamInv, SackInv
<1>2. PICK due \in SUBSET ArmedAt(h) :
        LET r   == PollOutput(conn[h], due)
            rst == [AckSegment(r.c, r.c.snd_nxt) EXCEPT !.rst = TRUE, !.wnd = 0]
        IN  /\ h \in MayAbort /\ slot[h] = "live"
            /\ Elapse(h, due, 0)
            /\ conn' = [conn EXCEPT ![h] = r.c]
            /\ slot' = [slot EXCEPT ![h] = "released"]
            /\ txq' = [txq EXCEPT ![h] = @ \o r.out \o
                         (IF r.c.state = "Closed" THEN <<>> ELSE <<rst>>)]
            /\ UNCHANGED <<wire, wrote, got>>
  BY DEF TcpAbort
<1> DEFINE r == PollOutput(conn[h], due)
           a == AckSegment(r.c, r.c.snd_nxt)
           rst == [a EXCEPT !.rst = TRUE, !.wnd = 0]
           last == IF r.c.state = "Closed" THEN <<>> ELSE <<rst>>
           out == r.out \o last
<1>3. /\ conn' = [conn EXCEPT ![h] = r.c]
      /\ txq' = [txq EXCEPT ![h] = (txq[h] \o r.out) \o last] /\ wire' = wire
  BY <1>2
<1>4. "timewait" \in due => conn[h].state = "TimeWait"
  BY DEF ArmedAt, Armed
<1>5. Sends(h, conn[h], r) /\ Emits(conn[Other(h)].rtq, conn[h], 0, r)
  BY <1>1, <1>4, PollOutputSends, PollOutputEmits
<1> HIDE DEF r
<1>6. /\ r.c \in Connection /\ Sound(h, r.c) /\ Advances(conn[h], r.c)
      /\ r.out \in Seq(Segment) /\ r.c.snd_nxt \in Nat
  BY <1>5, ConnTypes DEF Sends, Steps, ConnOK
<1>7. last \in Seq(Segment) /\ \A n \in Members(last) : n.rst /\ n.sack = {}
  <2>1. a \in Segment /\ a.sack = {}
    BY <1>6, AckSegmentOK DEF AckSegment
  <2> HIDE DEF a
  <2>2. rst \in Segment /\ rst.rst /\ rst.sack = {}
    BY <2>1 DEF Segment
  <2> HIDE DEF rst
  <2>3. <<rst>> \in Seq(Segment) /\ <<>> \in Seq(Segment)
    BY <2>2, EmptySeq
  <2>4. \A n \in Members(<<rst>>) : n = rst
    BY DEF Members
  <2>5. Members(<<>>) = {}
    BY DEF Members
  <2> QED BY <2>2, <2>3, <2>4, <2>5
<1> HIDE DEF last
<1>8. out \in Seq(Segment) /\ Members(out) \in SUBSET (Members(r.out) \cup Members(last))
  BY <1>6, <1>7, ConcatProperties, MembersBoth
<1>9. txq' = [txq EXCEPT ![h] = @ \o out]
  <2>1. (txq[h] \o r.out) \o last = txq[h] \o (r.out \o last)
    BY <1>1, <1>6, <1>7, QueuesJoin
  <2> QED BY <1>3, <2>1
<1> HIDE DEF out
<1>10. /\ \A n \in Underway(h)' : n \in Underway(h) \/ n \in Members(out)
       /\ \A n \in Underway(Other(h))' : n \in Underway(Other(h))
  BY <1>1, <1>3, <1>8, <1>9, UnderwayMore
<1>11. \A n \in Underway(h)' :
         n \in Underway(h) \/ (n.rst /\ n.sack = {}) \/ n \in Members(r.out)
  BY <1>7, <1>8, <1>10
<1> QED BY <1>3, <1>5, <1>6, <1>10, <1>11, EmitsStep

\* step_timers
LEMMA StepTimersSacks ==
    ASSUME IInv, StreamInv, SackInv, TypeOK', NEW h \in Host, StepTimers(h)
    PROVE  SackInv'
<1> DEFINE o == Other(h)
<1>1. /\ ConnOK(conn[h]) /\ Sound(h, conn[h]) /\ wrote[h] \in Nat /\ TypeOK
      /\ Queued(conn[h]) /\ Gapped(conn[h]) /\ txq \in [Host -> Seq(Segment)]
      /\ wire \in [Host -> Seq(Segment)] /\ conn[h] \in Connection
  BY DEF IInv, TypeOK, ConnInv, StreamInv, SackInv
<1>2. PICK due \in SUBSET ArmedAt(h) :
        LET r == IF slot[h] = "live" THEN PollOutput(conn[h], due) ELSE Quietly(conn[h])
        IN  /\ Elapse(h, due, 0)
            /\ conn' = [conn EXCEPT ![h] = r.c]
            /\ slot' = [slot EXCEPT ![h] = IF @ = "live" /\ Reapable(r.c) THEN "reaped" ELSE @]
            /\ txq' = [txq EXCEPT ![h] = <<>>]
            /\ wire' = [wire EXCEPT ![Other(h)] = @ \o txq[h] \o r.out]
            /\ UNCHANGED <<wrote, got>>
  BY DEF StepTimers
<1> DEFINE p == PollOutput(conn[h], due)
           r == IF slot[h] = "live" THEN p ELSE Quietly(conn[h])
<1>3. /\ conn' = [conn EXCEPT ![h] = r.c] /\ txq' = [txq EXCEPT ![h] = <<>>]
      /\ wire' = [wire EXCEPT ![o] = (wire[o] \o txq[h]) \o r.out]
  BY <1>2
<1>4. "timewait" \in due => conn[h].state = "TimeWait"
  BY DEF ArmedAt, Armed
<1>5. Sends(h, conn[h], p) /\ Emits(conn[o].rtq, conn[h], 0, p)
  BY <1>1, <1>4, PollOutputSends, PollOutputEmits
<1>6. /\ Sends(h, conn[h], Quietly(conn[h])) /\ Emits(conn[o].rtq, conn[h], 0, Quietly(conn[h]))
  BY <1>1, SendsNothing, EmitsQuietly DEF SameHeld
<1> HIDE DEF p
<1>7. Sends(h, conn[h], r) /\ Emits(conn[o].rtq, conn[h], 0, r)
  BY <1>5, <1>6
<1> HIDE DEF r
<1>8. /\ r.c \in Connection /\ Sound(h, r.c) /\ Advances(conn[h], r.c) /\ r.out \in Seq(Segment)
  BY <1>7 DEF Sends, Steps, ConnOK
<1>9. o \in Host /\ o # h /\ Other(o) = h
  BY TwoHosts
<1>10. /\ wire'[o] = (wire[o] \o txq[h]) \o r.out /\ wire'[h] = wire[h]
       /\ txq'[h] = <<>> /\ txq'[o] = txq[o]
  <2> HIDE DEF o
  <2> QED BY <1>1, <1>3, <1>9
<1>11. Members(wire'[o]) \in SUBSET (Members(wire[o]) \cup Members(txq[h]) \cup Members(r.out))
  <2> DEFINE q == wire[o] \o txq[h]
  <2>1. wire[o] \in Seq(Segment) /\ txq[h] \in Seq(Segment)
    BY <1>1, <1>9
  <2>2. q \in Seq(Segment) /\ Members(q) \in SUBSET (Members(wire[o]) \cup Members(txq[h]))
    BY <2>1, ConcatProperties, MembersBoth
  <2>3. wire'[o] = q \o r.out
    BY <1>10
  <2> HIDE DEF q
  <2>4. Members(q \o r.out) \in SUBSET (Members(q) \cup Members(r.out))
    BY <1>8, <2>2, MembersBoth
  <2> QED BY <2>2, <2>3, <2>4
<1>12. Members(<<>>) = {}
  BY DEF Members
<1>13. /\ \A n \in Underway(h)' : n \in Underway(h) \/ n \in Members(r.out)
       /\ \A n \in Underway(o)' : n \in Underway(o)
  BY <1>9, <1>10, <1>11, <1>12 DEF Underway
<1> QED BY <1>3, <1>7, <1>8, <1>13, EmitsStep

\* A segment that arrives fits what is parked and what its sender has queued.
LEMMA ArrivingReady ==
    ASSUME IInv, StreamInv, SackInv, NEW h \in Host, NEW i \in DOMAIN wire[h],
           ~wire[h][i].rst
    PROVE  Ready(conn[Other(h)].rtq, h, conn[h], wire[h][i])
<1> DEFINE o == Other(h)
           c == conn[h]
           d == conn[o]
           m == wire[h][i]
<1>1. o \in Host /\ Other(o) = h
  BY TwoHosts
<1>2. m \in Segment /\ SegOK(o, d, m) /\ ~m.rst
  BY ArrivingGood
<1>3. /\ ConnOK(c) /\ Sound(h, c) /\ Queued(c) /\ Gapped(c) /\ d \in Connection
      /\ SackPair(d, c, Underway(o), Underway(h))
  BY <1>1 DEF IInv, TypeOK, ConnInv, StreamInv, SackInv
<1>4. m \in Underway(o)
  BY <1>1 DEF Underway, Members
<1>5. Fits(d, c) /\ Aligned(d, m)
  BY <1>2, <1>3, <1>4 DEF SackPair
<1>6. d.rtq \in SUBSET RetransmitSegment
  BY <1>3, ConnTypes
<1>7. Arrives(h, m)
  BY <1>2 DEF Arrives, SegOK
<1> HIDE DEF m, c, d
<1>8. Matches(d.rtq, c, m)
  BY <1>5 DEF Fits, Aligned, Matches
<1>9. Ready(d.rtq, h, c, m)
  BY <1>3, <1>6, <1>7, <1>8 DEF Ready
<1> QED BY <1>9 DEF m, c, d

\* A reset that is taken: both queues are given up and nothing is sent any more.
LEMMA ResetStep ==
    ASSUME IInv, StreamInv, SackInv, TypeOK', NEW h \in Host, NEW x \in Connection,
           conn' = [conn EXCEPT ![h] = x], Sound(h, x), Advances(conn[h], x),
           x.state = "Closed", x.rtq = {}, x.ooo = {}, x.snd_una = conn[h].snd_una,
           \A n \in Underway(h)' : n \in Underway(h),
           \A n \in Underway(Other(h))' : n \in Underway(Other(h))
    PROVE  SackInv'
<1>1. Queued(x) /\ Gapped(x) /\ Inherits(conn[h], {}, x)
  BY DEF Queued, Gapped, Inherits
<1> QED BY <1>1, SackStep

\* dispatch_tcp_segment to a connection: handle_segment, then poll_output
LEMMA DispatchToConnectionSacks ==
    ASSUME OneOpener, IInv, StreamInv, SackInv, TypeOK', NEW h \in Host,
           NEW i \in DOMAIN wire[h], DispatchToConnection(h, i)
    PROVE  SackInv'
<1> DEFINE o == Other(h)
           c == conn[h]
           P == conn[o].rtq
           m == wire[h][i]
           a == HandleSegment(c, m)
<1>1. /\ TypeOK /\ ConnOK(c) /\ Sound(h, c) /\ wrote[h] \in Nat /\ c \in Connection
      /\ Sound(o, conn[o]) /\ m \in Segment /\ SegOK(o, conn[o], m)
      /\ Queued(c) /\ Gapped(c) /\ P \in SUBSET RetransmitSegment
  <2>1. o \in Host
    BY TwoHosts
  <2>2. m \in Segment /\ SegOK(o, conn[o], m)
    BY ArrivingGood
  <2>3. /\ ConnOK(c) /\ Sound(h, c) /\ Sound(o, conn[o]) /\ Queued(c) /\ Gapped(c)
    BY <2>1 DEF IInv, ConnInv, StreamInv, SackInv
  <2>4. TypeOK /\ wrote[h] \in Nat /\ c \in Connection /\ conn[o] \in Connection
    BY <2>1 DEF IInv, TypeOK
  <2> QED BY <2>2, <2>3, <2>4, ConnTypes
<1>2. Moves(h, c, a)
  BY <1>1, HandleSegmentMoves
<1>3. txq' = txq
  BY DEF DispatchToConnection
<1>4. PICK due \in SUBSET Armed(a.c, c) :
        LET r == PollOutput(a.c, due)
        IN  /\ Elapse(h, due, Overtakes(i))
            /\ conn' = [conn EXCEPT ![h] = r.c]
            /\ Exchange(h, i, a.out \o r.out)
  BY DEF DispatchToConnection
<1> DEFINE r == PollOutput(a.c, due)
           out == a.out \o r.out
           R == Result(r.c, out)
<1>5. conn' = [conn EXCEPT ![h] = r.c] /\ Exchange(h, i, out)
  BY <1>4
<1>6. "timewait" \in due => a.c.state = "TimeWait"
  BY DEF Armed
<1>7. ~m.rst => Hears(P, c, m.sack, m, a)
  BY <1>1, ArrivingReady, HandleSegmentHears
<1>8. m.rst => a = Quietly(OnRst(ApplyOptions(c, m), m))
  BY DEF HandleSegment
<1> HIDE DEF a
<1>9. /\ ConnOK(a.c) /\ Sound(h, a.c) /\ a.c \in Connection /\ a.out \in Seq(Segment)
  BY <1>2 DEF Moves, Steps, ConnOK
<1>10. Sends(h, a.c, r)
  BY <1>1, <1>9, PollOutputSends
<1>11. Queued(a.c) /\ Gapped(a.c) => Emits(P, a.c, m, r)
  BY <1>1, <1>6, <1>9, PollOutputEmits
<1>12. a.c.state = "Closed" => r = Quietly(a.c)
  BY DEF PollOutput
<1> HIDE DEF r
<1>13. r.c \in Connection /\ r.out \in Seq(Segment) /\ out \in Seq(Segment)
  BY <1>9, <1>10, ConcatProperties DEF Sends, Steps, ConnOK
<1>14. R.c = r.c /\ R.out = out
  BY DEF Result
<1>15. Sound(h, r.c) /\ Advances(c, r.c)
  <2>1. Moves(h, c, R)
    BY <1>1, <1>2, <1>10, MovesThenSends
  <2> QED BY <1>14, <2>1 DEF Moves, Steps
<1>16. /\ \A n \in Underway(h)' : n \in Underway(h) \/ n \in Members(out)
       /\ \A n \in Underway(o)' : n \in Underway(o)
       /\ m \in Underway(o)
  <2> HIDE DEF out
  <2> QED BY <1>1, <1>3, <1>5, <1>13, UnderwayExchange
<1>17. Hears(P, c, m.sack, m, a) => Hears(P, c, m.sack, m, R)
  <2> SUFFICES ASSUME Hears(P, c, m.sack, m, a) PROVE Hears(P, c, m.sack, m, R)
    OBVIOUS
  <2>1. Emits(P, a.c, m, r)
    BY <1>11 DEF Hears
  <2>2. Hears(P, a.c, {}, m, r) /\ SameHeld(a.c, r.c)
    BY <2>1 DEF Emits
  <2> HIDE DEF P, c, m
  <2> QED BY <1>1, <1>9, <1>13, <2>2, HearsTwice
<1>18. ASSUME Hears(P, c, m.sack, m, a),
              ~m.rst \/ (r.c.snd_una = c.snd_una /\ r.c.ooo = c.ooo)
       PROVE  SackInv'
  <2>1. Hears(P, c, m.sack, m, R)
    BY <1>17, <1>18
  <2> HIDE DEF out, R
  <2>2. R.c \in Connection /\ R.out \in Seq(Segment) /\ conn' = [conn EXCEPT ![h] = R.c]
        /\ Sound(h, R.c) /\ Advances(conn[h], R.c)
    BY <1>5, <1>13, <1>14, <1>15
  <2>3. \A n \in Underway(h)' :
          n \in Underway(h) \/ (n.rst /\ n.sack = {}) \/ n \in Members(R.out)
    BY <1>14, <1>16
  <2>4. \/ m \in Underway(Other(h)) /\ ~m.rst
        \/ R.c.snd_una = conn[h].snd_una /\ R.c.ooo = conn[h].ooo
    BY <1>14, <1>16, <1>18
  <2> QED BY <1>16, <2>1, <2>2, <2>3, <2>4, HearsStep
<1>19. CASE ~m.rst
  BY <1>7, <1>18, <1>19
<1>20. CASE m.rst
  <2> DEFINE x == ApplyOptions(c, m)
             y == [x EXCEPT !.state = "Closed", !.rtq = {}, !.tx = <<>>, !.ooo = {}]
  <2>1. /\ Hears(P, c, m.sack, m, Quietly(x)) /\ SameHeld(c, x) /\ Queued(x) /\ Gapped(x)
        /\ x \in Connection
    BY <1>1, ApplyOptionsHears, ApplyOptionsSound DEF ConnOK
  <2>2. x.snd_una = c.snd_una
    BY <1>1 DEF ApplyOptions, Connection
  <2>3. a = IF RstAcceptable(x, m) THEN Quietly(y) ELSE Quietly(x)
    BY <1>8, <1>20 DEF OnRst
  <2> HIDE DEF x
  <2>4. CASE ~RstAcceptable(x, m)
    <3>1. a = Quietly(x) /\ a.c = x
      BY <2>3, <2>4 DEF Quietly, Result
    <3>2. Emits(P, x, m, r)
      BY <1>11, <2>1, <3>1
    <3>3. r.c.snd_una = c.snd_una /\ r.c.ooo = c.ooo
      BY <2>1, <2>2, <3>2 DEF Emits, SameHeld
    <3> QED BY <1>18, <2>1, <3>1, <3>3
  <2>5. CASE RstAcceptable(x, m)
    <3>1. a = Quietly(y) /\ a.c = y /\ a.out = <<>>
      BY <2>3, <2>5 DEF Quietly, Result
    <3>2. y.state = "Closed" /\ y.rtq = {} /\ y.ooo = {} /\ y.snd_una = x.snd_una
      BY <2>1 DEF Connection
    <3> HIDE DEF y
    <3>3. r.c = y /\ r.out = <<>>
      BY <1>12, <3>1, <3>2 DEF Quietly, Result
    <3>4. out = <<>>
      BY <1>9, <3>1, <3>3
    <3>5. Members(<<>>) = {}
      BY DEF Members
    <3>6. \A n \in Underway(h)' : n \in Underway(h)
      BY <1>16, <3>4, <3>5
    <3> QED BY <1>5, <1>13, <1>15, <1>16, <2>2, <3>2, <3>3, <3>6, ResetStep
  <2> QED BY <2>4, <2>5
<1> QED BY <1>19, <1>20

\* dispatch_tcp_segment to a listener
LEMMA DispatchToListenerSacks ==
    ASSUME OneOpener, IInv, StreamInv, SackInv, TypeOK', NEW h \in Host,
           NEW i \in DOMAIN wire[h], DispatchToListener(h, i)
    PROVE  SackInv'
<1> DEFINE o == Other(h)
           c == conn[h]
           P == conn[o].rtq
           m == wire[h][i]
           r == HandleSegment(c, m)
<1>1. /\ TypeOK /\ ConnOK(c) /\ Sound(h, c) /\ c \in Connection
      /\ Sound(o, conn[o]) /\ m \in Segment /\ SegOK(o, conn[o], m)
      /\ Queued(c) /\ Gapped(c) /\ P \in SUBSET RetransmitSegment
  <2>1. o \in Host
    BY TwoHosts
  <2>2. m \in Segment /\ SegOK(o, conn[o], m)
    BY ArrivingGood
  <2>3. /\ ConnOK(c) /\ Sound(h, c) /\ Sound(o, conn[o]) /\ Queued(c) /\ Gapped(c)
    BY <2>1 DEF IInv, ConnInv, StreamInv, SackInv
  <2>4. TypeOK /\ c \in Connection /\ conn[o] \in Connection
    BY <2>1 DEF IInv, TypeOK
  <2> QED BY <2>2, <2>3, <2>4, ConnTypes
<1>2. Moves(h, c, r)
  BY <1>1, HandleSegmentMoves
<1>3. conn' = [conn EXCEPT ![h] = r.c] /\ Exchange(h, i, r.out) /\ txq' = txq
      /\ ToListener(h, m)
  BY DEF DispatchToListener
<1>4. c.state = "Listen" /\ c.ooo = {}
  <2>1. slot[h] = "free" /\ h \notin Clients
    BY <1>3 DEF ToListener
  <2>2. c = Fresh(h)
    BY <2>1 DEF IInv, ConnInv
  <2> QED BY <2>1, <2>2, FreshShape
<1>5. ~m.rst => Hears(P, c, m.sack, m, r)
  BY <1>1, ArrivingReady, HandleSegmentHears
<1>6. m.rst => Hears(P, c, m.sack, m, r) /\ r.c.snd_una = c.snd_una /\ r.c.ooo = c.ooo
  <2> SUFFICES ASSUME m.rst
               PROVE  Hears(P, c, m.sack, m, r) /\ r.c.snd_una = c.snd_una /\ r.c.ooo = c.ooo
    OBVIOUS
  <2> DEFINE x == ApplyOptions(c, m)
  <2>1. Hears(P, c, m.sack, m, Quietly(x)) /\ SameHeld(c, x)
    BY <1>1, ApplyOptionsHears
  <2>2. x.snd_una = c.snd_una /\ x.state = "Listen"
    BY <1>1, <1>4 DEF ApplyOptions, Connection
  <2>3. r = Quietly(OnRst(x, m))
    BY DEF HandleSegment
  <2> HIDE DEF x
  <2>4. ~RstAcceptable(x, m)
    BY <2>2 DEF RstAcceptable
  <2>5. r = Quietly(x) /\ r.c = x
    BY <2>3, <2>4 DEF OnRst, Quietly, Result
  <2> QED BY <2>1, <2>2, <2>5 DEF SameHeld
<1> HIDE DEF r
<1>7. /\ r.c \in Connection /\ Sound(h, r.c) /\ Advances(c, r.c) /\ r.out \in Seq(Segment)
  BY <1>2 DEF Moves, Steps, ConnOK
<1>8. /\ \A n \in Underway(h)' : n \in Underway(h) \/ n \in Members(r.out)
      /\ \A n \in Underway(o)' : n \in Underway(o)
      /\ m \in Underway(o)
  BY <1>1, <1>3, <1>7, UnderwayExchange
<1>9. Hears(P, c, m.sack, m, r)
  BY <1>5, <1>6
<1>10. \/ m \in Underway(o) /\ ~m.rst
       \/ r.c.snd_una = conn[h].snd_una /\ r.c.ooo = conn[h].ooo
  BY <1>6, <1>8
<1> QED BY <1>3, <1>7, <1>8, <1>9, <1>10, HearsStep

\* tcp_release
LEMMA TcpReleaseSacks ==
    ASSUME SackInv, NEW h \in Host, TcpRelease(h)
    PROVE  SackInv'
<1>1. conn' = conn /\ txq' = txq /\ wire' = wire
  BY DEF TcpRelease
<1>2. \A g \in Host : SameQueues(conn[g], conn'[g]) /\ Underway(g)' = Underway(g)
  BY <1>1 DEF SameQueues, SameHeld, Underway
<1> QED BY <1>2, IdleStep

\* dispatch_tcp_segment to nobody: at most a reset is sent
LEMMA DispatchToNobodySacks ==
    ASSUME IInv, StreamInv, SackInv, NEW h \in Host, NEW i \in DOMAIN wire[h],
           DispatchToNobody(h, i)
    PROVE  SackInv'
<1> DEFINE m == wire[h][i]
           out == BuildReset(m)
<1>1. Exchange(h, i, out) /\ conn' = conn /\ txq' = txq
  BY DEF DispatchToNobody
<1>2. TypeOK /\ m \in Segment
  BY ArrivingGood DEF IInv
<1>3. out \in Seq(Segment)
  BY <1>2, BuildResetOK
<1>4. \A n \in Members(out) : n.rst /\ n.sack = {}
  <2> HIDE DEF m
  <2> DEFINE s == IF m.isAck THEN m.ack ELSE 0
             a == FinSeq(m) + (IF m.fin THEN 1 ELSE 0)
             b == ~m.isAck
             x == [seq |-> s, ack |-> a, syn |-> FALSE, isAck |-> b, fin |-> FALSE,
                   rst |-> TRUE, wnd |-> 0, mss |-> 0, sackOk |-> FALSE, sack |-> {},
                   data |-> <<>>]
  <2>1. out = IF m.rst THEN <<>> ELSE <<x>>
    BY DEF BuildReset
  <2> HIDE DEF out, s, a, b
  <2>2. x.rst /\ x.sack = {}
    OBVIOUS
  <2> HIDE DEF x
  <2>3. Members(<<>>) = {} /\ \A n \in Members(<<x>>) : n = x
    BY DEF Members
  <2> QED BY <2>1, <2>2, <2>3
<1> HIDE DEF out
<1>5. /\ \A n \in Underway(h)' : n \in Underway(h) \/ n \in Members(out)
      /\ \A n \in Underway(Other(h))' : n \in Underway(Other(h))
  BY <1>1, <1>2, <1>3, UnderwayExchange
<1>6. \A g \in Host : g = h \/ g = Other(h)
  BY TwoHosts
<1>7. \A g \in Host : SameQueues(conn[g], conn'[g])
  BY <1>1 DEF SameQueues, SameHeld
<1>8. \A g \in Host : \A n \in Underway(g)' : n \in Underway(g) \/ (n.rst /\ n.sack = {})
  <2> SUFFICES ASSUME NEW g \in Host
               PROVE  \A n \in Underway(g)' : n \in Underway(g) \/ (n.rst /\ n.sack = {})
    OBVIOUS
  <2>1. CASE g = h
    BY <1>4, <1>5, <2>1
  <2>2. CASE g = Other(h)
    BY <1>5, <2>2
  <2> QED BY <1>6, <2>1, <2>2
<1> QED BY <1>7, <1>8, IdleStep

\* The network loses or repeats a segment.
LEMMA NetworkSacks ==
    ASSUME IInv, SackInv, NEW h \in Host, NEW i \in DOMAIN wire[h],
           Lose(h, i) \/ Duplicate(h, i)
    PROVE  SackInv'
<1>1. conn' = conn /\ txq' = txq
  BY DEF Lose, Duplicate
<1>2. wire \in [Host -> Seq(Segment)] /\ wire[h] \in Seq(Segment)
  BY DEF IInv, TypeOK
<1>3. /\ Members(wire'[h]) \in SUBSET Members(wire[h])
      /\ \A g \in Host : g # h => wire'[g] = wire[g]
  <2>1. CASE Lose(h, i)
    <3>1. wire' = [wire EXCEPT ![h] = Without(wire[h], i)]
      BY <2>1 DEF Lose
    <3> QED BY <1>2, <3>1, MembersWithout
  <2>2. CASE Duplicate(h, i)
    <3> DEFINE m == wire[h][i]
    <3>1. wire' = [wire EXCEPT ![h] = Append(wire[h], m)]
      BY <2>2 DEF Duplicate
    <3>2. m \in Segment /\ m \in Members(wire[h])
      BY <1>2, ElementOfSeq, LenProperties DEF Members
    <3> HIDE DEF m
    <3>3. Append(wire[h], m) = wire[h] \o <<m>> /\ <<m>> \in Seq(Segment)
      BY <1>2, <3>2, AppendIsConcat
    <3>4. \A n \in Members(<<m>>) : n = m
      BY DEF Members
    <3>5. Members(wire[h] \o <<m>>) \in SUBSET (Members(wire[h]) \cup Members(<<m>>))
      BY <1>2, <3>3, MembersBoth
    <3> QED BY <1>2, <3>1, <3>2, <3>3, <3>4, <3>5
  <2> QED BY <2>1, <2>2
<1>4. \A g \in Host : SameQueues(conn[g], conn'[g])
  BY <1>1 DEF SameQueues, SameHeld
<1>5. \A g \in Host : Underway(g)' \in SUBSET Underway(g)
  <2> SUFFICES ASSUME NEW g \in Host PROVE Underway(g)' \in SUBSET Underway(g)
    OBVIOUS
  <2>1. Other(g) \in Host
    BY TwoHosts
  <2>2. Members(wire'[Other(g)]) \in SUBSET Members(wire[Other(g)])
    BY <1>3, <2>1
  <2> QED BY <1>1, <2>2 DEF Underway
<1> QED BY <1>4, <1>5, IdleStep

\* Every step of the two hosts and the network.
LEMMA NextSacks ==
    ASSUME OneOpener, IInv, StreamInv, SackInv, [Next]_vars
    PROVE  SackInv'
<1>1. TypeOK'
  BY NextOK DEF IInv
<1>2. CASE Next
  <2>1. PICK h \in Host :
          \/ TcpConnect(h)
          \/ \E n \in 1 .. Len(AppData[h]) : TcpWrite(h, n)
          \/ \E n \in 1 .. Len(conn[h].rx) : TcpRead(h, n)
          \/ TcpClose(h)
          \/ TcpAbort(h)
          \/ TcpRelease(h)
          \/ StepTimers(h)
          \/ \E i \in DOMAIN wire[h] : DispatchToConnection(h, i)
          \/ \E i \in DOMAIN wire[h] : DispatchToListener(h, i)
          \/ \E i \in DOMAIN wire[h] : DispatchToNobody(h, i)
          \/ \E i \in DOMAIN wire[h] : Lose(h, i)
          \/ \E i \in DOMAIN wire[h] : Duplicate(h, i)
    BY <1>2 DEF Next
  <2>2. conn[h] \in Connection
    BY DEF IInv, TypeOK
  <2>3. /\ \A n \in 1 .. Len(AppData[h]) : n \in Nat
        /\ \A n \in 1 .. Len(conn[h].rx) : n \in Nat
    BY <2>2, HostData, ConnTypes
  <2>4. CASE \E n \in 1 .. Len(AppData[h]) : TcpWrite(h, n)
    BY <2>3, <2>4, TcpWriteSacks
  <2>5. CASE \E n \in 1 .. Len(conn[h].rx) : TcpRead(h, n)
    BY <2>3, <2>5, TcpReadSacks
  <2> QED
    BY <1>1, <2>1, <2>4, <2>5, TcpConnectSacks, TcpCloseSacks, TcpAbortSacks,
       TcpReleaseSacks, StepTimersSacks, DispatchToConnectionSacks,
       DispatchToListenerSacks, DispatchToNobodySacks, NetworkSacks
<1>3. CASE UNCHANGED vars
  <2>1. \A g \in Host : SameQueues(conn[g], conn'[g]) /\ Underway(g)' = Underway(g)
    BY <1>3 DEF vars, SameQueues, SameHeld, Underway
  <2> QED BY <2>1, IdleStep
<1> QED BY <1>2, <1>3

\* Nothing has been sent.
LEMMA InitSacks == Init => SackInv
<1> SUFFICES ASSUME Init, NEW h \in Host
             PROVE  /\ Queued(conn[h]) /\ Gapped(conn[h])
                    /\ SackPair(conn[h], conn[Other(h)], Underway(h), Underway(Other(h)))
  BY DEF SackInv
<1>1. Other(h) \in Host /\ Other(Other(h)) = h
  BY TwoHosts
<1>2. conn = [g \in Host |-> Fresh(g)]
  BY DEF Init, Fresh
<1>3. \A g \in Host : conn[g].rtq = {} /\ conn[g].ooo = {}
  BY <1>2, FreshShape
<1>4. Members(<<>>) = {}
  BY DEF Members
<1>5. Underway(h) = {} /\ Underway(Other(h)) = {}
  BY <1>1, <1>4 DEF Init, Underway
<1> QED BY <1>1, <1>3, <1>5 DEF Queued, Gapped, SackPair, Vouched, Fits

\* SackInv holds, with the invariants of the streams, in every reachable state.
THEOREM SackInductive == OneOpener => (Spec => [](IInv /\ StreamInv /\ SackInv))
<1> SUFFICES ASSUME OneOpener PROVE Spec => [](IInv /\ StreamInv /\ SackInv)
  OBVIOUS
<1>1. Init => IInv /\ StreamInv /\ SackInv
  BY InitOK, InitStreams, InitSacks
<1>2. (IInv /\ StreamInv /\ SackInv) /\ [Next]_vars => (IInv /\ StreamInv /\ SackInv)'
  BY NextOK, NextStreams, NextSacks
<1> QED BY <1>1, <1>2, PTL DEF Spec

\* The first entry starts before every other.
LEMMA FirstLeast ==
    ASSUME NEW q \in SUBSET RetransmitSegment, q # {}
    PROVE  First(q) \in q /\ \A f \in q : First(q).seq <= f.seq
<1> DEFINE T == {e.seq : e \in q}
<1>1. T \in SUBSET Nat /\ T # {}
  BY DEF RetransmitSegment
<1>2. PICK x \in T : \A y \in T : x <= y
  BY <1>1, NatMinimum
<1>3. \E e \in q : \A f \in q : e.seq <= f.seq
  BY <1>2
<1> QED BY <1>3 DEF First

\* An entry that carries snd_una is in the queue and no block covers it: the first entry
\* is not marked.
LEMMA OldestUnmarked ==
    ASSUME NEW c \in Connection, NEW d, NEW N, Tracks(c), Queued(c), Vouched(c, d, N),
           c.rtq # {}
    PROVE  ~First(c.rtq).sacked
<1> DEFINE f == First(c.rtq)
<1>1. c.rtq \in SUBSET RetransmitSegment /\ c.snd_una \in Nat /\ c.snd_nxt \in Nat
  BY ConnTypes
<1>2. f \in c.rtq /\ \A e \in c.rtq : f.seq <= e.seq
  BY <1>1, FirstLeast
<1> HIDE DEF f
<1>3. f.seq \in Nat /\ f.end \in Nat /\ c.snd_una < f.end /\ f.end <= c.snd_nxt
      /\ c.state # "Closed"
  BY <1>1, <1>2 DEF RetransmitSegment, Queued, Tracks
<1>4. c.snd_una \in c.snd_una .. (c.snd_nxt - 1)
  BY <1>1, <1>3
<1>5. PICK e \in c.rtq : e.seq <= c.snd_una
  BY <1>3, <1>4 DEF Tracks
<1>6. f.seq <= c.snd_una
  <2>1. e.seq \in Nat /\ f.seq <= e.seq
    BY <1>1, <1>2 DEF RetransmitSegment
  <2> QED BY <1>1, <1>3, <1>5, <2>1
<1>7. ~Clear(f, c.snd_una)
  BY <1>3, <1>6 DEF Clear
<1>8. ~f.sacked
  BY <1>2, <1>7 DEF Vouched, Reported
<1> QED BY <1>8 DEF f

\* Selective acknowledgement is sound, whatever is lost, repeated or delivered out of
\* order: what a sender has marked and will not resend, an open peer holds, and the entry
\* whose timer poll_output watches is the one that retransmit_oldest resends.
THEOREM SackAlwaysSound == OneOpener => (Spec => []SackSound)
<1>1. IInv /\ StreamInv /\ SackInv => SackSound
  <2> SUFFICES ASSUME IInv, StreamInv, SackInv, NEW h \in Host
               PROVE  /\ Open(Other(h)) =>
                           \A e \in conn[h].rtq : e.sacked =>
                             \A k \in e.seq .. (e.end - 1) :
                               \/ k < conn[Other(h)].rcv_nxt
                               \/ \E s \in conn[Other(h)].ooo : Covers(s, k)
                      /\ conn[h].rtq # {} => ~First(conn[h].rtq).sacked
    BY DEF SackSound, SackedIsHeld, OldestNotSacked
  <2> DEFINE c == conn[h]
             d == conn[Other(h)]
             N == Underway(Other(h))
  <2>1. Queued(c) /\ Vouched(c, d, N) /\ Tracks(c) /\ c \in Connection
    BY DEF SackInv, SackPair, StreamInv, Sound, SendOK, IInv, TypeOK
  <2>2. c.rtq # {} => ~First(c.rtq).sacked
    BY <2>1, OldestUnmarked
  <2>3. Open(Other(h)) => d.state # "Closed"
    BY DEF Open
  <2> HIDE DEF c, d, N
  <2>4. d.state # "Closed" => \A e \in c.rtq : e.sacked => Holds(d, e)
    BY <2>1 DEF Vouched, Reported
  <2>5. Open(Other(h)) =>
          \A e \in c.rtq : e.sacked =>
            \A k \in e.seq .. (e.end - 1) : k < d.rcv_nxt \/ \E s \in d.ooo : Covers(s, k)
    BY <2>3, <2>4 DEF Holds
  <2> QED BY <2>2, <2>5 DEF c, d
<1> QED BY <1>1, SackInductive, PTL
==============================================================================
