----------------------------- MODULE EvpnFabric -----------------------------
(***************************************************************************)
(* An EVPN fabric: VTEPs that learn the hosts on their access ports        *)
(* (src/evpn_vtep.rs), advertise them over BGP (the EVPN side of           *)
(* src/bgp_router.rs) and program their tunnels from what they hear, in    *)
(* the order of LabRouter::step_timers (src/lab.rs).                       *)
(*                                                                         *)
(* Every two leaves have an iBGP session, a reliable queue in each         *)
(* direction (BgpPair models how a session comes up and fails).  Its ends  *)
(* go down one by one, and an end whose transport failed retains what it   *)
(* heard (Graceful Restart, on by default).  A leaf that announces a       *)
(* restart of its own (begin_graceful_restart, with its Restart State and  *)
(* End-of-RIB) and ROUTE-REFRESH are left to BgpPair.  There is one tenant *)
(* instance, with one access port on each leaf.  A route's key begins with *)
(* the Route Distinguisher of its leaf, so a leaf is a number, in the      *)
(* order of the Distinguishers, and each key has one advertiser.  The host *)
(* IP of a route is left out.                                              *)
(***************************************************************************)
EXTENDS Naturals, Sequences, FiniteSets, FiniteSetsExt, Functions

CONSTANTS
    Leaf,           \* leaves, in the order of their Route Distinguishers
    Mac,            \* MAC addresses of hosts
    MoveLimit,      \* MAX_MAC_MOVES, 5 in the code
    MaxLocal,       \* MAX_LOCAL_MACS_PER_INSTANCE
    MaxMoves, MaxLosses     \* bounds on the moves of all hosts and the losses of sessions

Imet == "imet"      \* the Type 3 route of a leaf

ASSUME FabricAssumption ==
    /\ Leaf \subseteq Nat /\ IsFiniteSet(Leaf) /\ IsFiniteSet(Mac) /\ Imet \notin Mac
    /\ {MoveLimit, MaxLocal, MaxMoves, MaxLosses} \subseteq Nat

Item == Mac \cup {Imet}
None == [m \in {} |-> 0]

VARIABLES
    leaf,       \* per leaf: local_macs, remote_macs, remote_vteps, duplicate_macs, Adj-RIBs
    channel,    \* UPDATEs between two leaves, by <<sender, receiver>>
    up,         \* the ends <<l, p>> at which the session of l with p is Established
    where,      \* per MAC, the leaves with an active host of that address
    moves,      \* per MAC, how often its host has moved
    losses      \* sessions lost

vars == <<leaf, channel, up, where, moves, losses>>

Ends == {e \in Leaf \X Leaf : e[1] # e[2]}
Peers(l) == {p \in Leaf \ {l} : <<l, p>> \in up}

NewLeaf(l) ==
    [local |-> None, remote |-> None, flood |-> {}, dup |-> {},
     ribIn |-> [p \in Leaf \ {l} |-> None], ribOut |-> [p \in Leaf \ {l} |-> None]]

Init ==
    /\ leaf = [l \in Leaf |-> NewLeaf(l)]
    /\ channel = [c \in Leaf \X Leaf |-> <<>>]
    /\ up = Ends
    /\ where \in [Mac -> {{l} : l \in Leaf}]
    /\ moves = [m \in Mac |-> 0]
    /\ losses = 0

Without(f, S) == Restrict(f, DOMAIN f \ S)
With(f, S, v) == [k \in DOMAIN f \cup S |-> IF k \in S THEN v ELSE f[k]]

-----------------------------------------------------------------------------
(* The VTEP.                                                               *)

\* The sequence number learn_local gives: above what is claimed elsewhere, never
\* below what this leaf has claimed.  ClimbsAlways counts every frame;
\* IgnoresRemote starts afresh on every leaf.
ClimbsAlways(v, m) == IF m \in DOMAIN v.local THEN v.local[m] + 1 ELSE 0
IgnoresRemote(v, m) == IF m \in DOMAIN v.local THEN v.local[m] ELSE 0
SequenceFor(v, m) ==
    Max((IF m \in DOMAIN v.local THEN {v.local[m]} ELSE {0}) \cup
        (IF m \in DOMAIN v.remote THEN {v.remote[m].seq + 1} ELSE {0}))

\* learn_local past the move limit: the MAC is declared duplicate and no longer
\* advertised.  StartsAgain lets the number wrap.
StartsAgain(v, m) == [v EXCEPT !.local = With(@, {m}, 0)]
Declare(v, m) == [v EXCEPT !.dup = @ \cup {m}, !.local = Without(@, {m})]

\* learn_local.  LimitMissed compares the limit one too late.
LimitMissed(v, m) ==
    LET sequence == SequenceFor(v, m)
    IN  IF m \in v.dup \/ sequence > MoveLimit + 1 THEN v
        ELSE [v EXCEPT !.local = With(@, {m}, sequence)]
LearnLocal(v, m) ==
    LET sequence == SequenceFor(v, m)
        full == m \notin DOMAIN v.local /\ Cardinality(DOMAIN v.local) >= MaxLocal
    IN  CASE m \in v.dup -> v
          [] m \notin v.dup /\ sequence > MoveLimit -> Declare(v, m)
          [] m \notin v.dup /\ sequence <= MoveLimit /\ full -> v
          [] OTHER -> [v EXCEPT !.local = With(@, {m}, sequence)]

\* program_from_rib: the tables are rebuilt from the Loc-RIB, in the order of the
\* keys, so of several claims to a MAC the last one stays; a local binding goes
\* when the one that stayed has a higher number.
Program(v) ==
    LET claims(m) == {p \in DOMAIN v.ribIn : m \in DOMAIN v.ribIn[p]}
        remote == [m \in {m \in Mac : claims(m) # {}} |->
                      [vtep |-> Max(claims(m)), seq |-> v.ribIn[Max(claims(m))][m]]]
        moved == {m \in DOMAIN v.local \cap DOMAIN remote : remote[m].seq > v.local[m]}
    IN  [v EXCEPT !.remote = remote, !.flood = {p \in DOMAIN v.ribIn : DOMAIN v.ribIn[p] # {}},
                  !.local = Without(@, moved)]

\* forward, and access_ports_for at the other end: the leaves on whose ports a
\* frame of leaf l for m appears.
Reached(l, m) ==
    {l} \cup CASE m \in DOMAIN leaf[l].local -> {}
               [] m \notin DOMAIN leaf[l].local /\ m \in DOMAIN leaf[l].remote -> {leaf[l].remote[m].vtep}
               [] OTHER -> leaf[l].flood

-----------------------------------------------------------------------------
(* The BGP speaker.                                                        *)

\* advertise_evpn_to_peer: of what differs from the Adj-RIB-Out, a withdrawal and
\* one UPDATE for each sequence number, in their order (groups is a BTreeMap).
\* NeverWithdraws sends no MP_UNREACH.
Update(withdraw, announce, seq) == [withdraw |-> withdraw, announce |-> announce, seq |-> seq]

Nth(S, i) == CHOOSE n \in S : Cardinality({x \in S : x <= n}) = i
Changed(desired, out) == {k \in DOMAIN desired : k \in DOMAIN out => out[k] # desired[k]}
Withdrawal(desired, out) ==
    LET gone == DOMAIN out \ DOMAIN desired
    IN  IF gone = {} THEN <<>> ELSE <<Update(gone, {}, 0)>>
Announcements(desired, out) ==
    LET changed == Changed(desired, out)
        numbers == {desired[k] : k \in changed}
        group(n) == Update({}, {k \in changed : desired[k] = n}, n)
    IN  [i \in 1 .. Cardinality(numbers) |-> group(Nth(numbers, i))]

NeverWithdraws(desired, out) == Announcements(desired, out)
Updates(desired, out) == Withdrawal(desired, out) \o Announcements(desired, out)

\* import_evpn_update, for one UPDATE and for those read from a session.
Imported(rib, u) == With(Without(rib, u.withdraw), u.announce, u.seq)
ImportAll(rib, updates) ==
    LET after[n \in 0 .. Len(updates)] ==
            IF n = 0 THEN rib ELSE Imported(after[n - 1], updates[n])
    IN  after[Len(updates)]

\* The neighbours of whom leaf l retains routes although their session is down.
Retained(l) == {p \in (Leaf \ {l}) \ Peers(l) : leaf[l].ribIn[p] # None}

\* step_timers of leaf l when taken[p] UPDATEs of each peer have arrived and the
\* Restart Time of the neighbours in expired is over (or a new session with them
\* failed before it was up): what is known locally is
\* offered to BGP, which reads its sessions, drops what it retained for too long,
\* decides and advertises; then the tunnels are programmed.
Heard(l, taken, expired) ==
    [leaf[l] EXCEPT !.ribIn = [p \in Leaf \ {l} |->
        IF p \in expired THEN None ELSE ImportAll(@[p], SubSeq(channel[<<p, l>>], 1, taken[p]))]]
Desired(l) == With(leaf[l].local, {Imet}, 0)
Stepped(l, taken, expired) ==
    Program([Heard(l, taken, expired) EXCEPT !.ribOut = [p \in Leaf \ {l} |-> IF p \in Peers(l) THEN Desired(l) ELSE @[p]]])

Sent(l, p) == IF p \in Peers(l) THEN Updates(Desired(l), leaf[l].ribOut[p]) ELSE <<>>

\* What is sent to an end that is down already goes nowhere.
StepTimers(l, taken, expired) ==
    /\ leaf' = [leaf EXCEPT ![l] = Stepped(l, taken, expired)]
    /\ channel' = [c \in Leaf \X Leaf |->
                      CASE c[1] = l /\ l \in Peers(c[2]) -> channel[c] \o Sent(l, c[2])
                        [] c[2] = l /\ c[1] # l -> SubSeq(channel[c], taken[c[1]] + 1, Len(channel[c]))
                        [] OTHER -> channel[c]]
    /\ UNCHANGED <<up, where, moves, losses>>

-----------------------------------------------------------------------------
(* Hosts and sessions.                                                     *)

\* evpn_access_ingress: a frame of a host with address m.
Frame(l, m) ==
    /\ l \in where[m]
    /\ leaf' = [leaf EXCEPT ![l] = LearnLocal(@, m)]
    /\ UNCHANGED <<channel, up, where, moves, losses>>

\* The host is unplugged and plugged in again at leaf l.
Move(l, m) ==
    /\ FoldFunction(+, 0, moves) < MaxMoves /\ Cardinality(where[m]) = 1 /\ l \notin where[m]
    /\ where' = [where EXCEPT ![m] = {l}]
    /\ moves' = [moves EXCEPT ![m] = @ + 1]
    /\ UNCHANGED <<leaf, channel, up, losses>>

\* A second host has the same address.
Clone(l, m) ==
    /\ Cardinality(where[m]) = 1 /\ l \notin where[m]
    /\ where' = [where EXCEPT ![m] = @ \cup {l}]
    /\ UNCHANGED <<leaf, channel, up, moves, losses>>

\* forget_local: the host went away.
ForgetLocal(l, m) ==
    /\ l \notin where[m] /\ m \in DOMAIN leaf[l].local
    /\ leaf' = [leaf EXCEPT ![l].local = Without(@, {m})]
    /\ UNCHANGED <<channel, up, where, moves, losses>>

\* teardown at leaf v of its session with p.  The Adj-RIB-Out goes; what was heard
\* is retained if the transport failed, and goes with a protocol error or a
\* NOTIFICATION.  KeepsOut forgets that the neighbour has to be told afresh.
KeepsOut(v, p, retain) == [v EXCEPT !.ribIn[p] = IF retain THEN @ ELSE None]
TornDown(v, p, retain) ==
    [v EXCEPT !.ribOut[p] = None, !.ribIn[p] = IF retain THEN @ ELSE None]

\* The end of leaf l goes down, and what it has not read is lost.  The other end
\* follows: the reset or the NOTIFICATION reaches it, or its hold timer runs out.
SessionDown(l, p, retain) ==
    /\ <<l, p>> \in up
    /\ IF <<p, l>> \in up THEN losses < MaxLosses /\ losses' = losses + 1 ELSE losses' = losses
    /\ up' = up \ {<<l, p>>}
    /\ leaf' = [leaf EXCEPT ![l] = TornDown(@, p, retain)]
    /\ channel' = [channel EXCEPT ![<<p, l>>] = <<>>]
    /\ UNCHANGED <<where, moves>>

\* reconcile_graceful_restart_open: the OPEN of a neighbour that announces no restart
\* ends what was retained of it.  KeepsRetained leaves that to the deadline.
KeepsRetained(v, p) == v
Flushed(v, p) == [v EXCEPT !.ribIn[p] = None]

\* OPENs are exchanged and the session is Established at both ends.
SessionUp(l, p) ==
    /\ <<l, p>> \in Ends \ up /\ <<p, l>> \notin up
    /\ up' = up \cup {<<l, p>>, <<p, l>>}
    /\ leaf' = [leaf EXCEPT ![l] = Flushed(@, p), ![p] = Flushed(@, l)]
    /\ UNCHANGED <<channel, where, moves, losses>>

Arrived(l) == {t \in [Leaf \ {l} -> 0 .. Max({Len(channel[c]) : c \in Leaf \X Leaf})] :
                  \A p \in Leaf \ {l} : t[p] <= Len(channel[<<p, l>>])}

Next ==
    \/ \E l \in Leaf : \E taken \in Arrived(l), expired \in SUBSET Retained(l) : StepTimers(l, taken, expired)
    \/ \E l \in Leaf, m \in Mac : Frame(l, m) \/ Move(l, m) \/ Clone(l, m) \/ ForgetLocal(l, m)
    \/ \E l, p \in Leaf, retain \in BOOLEAN : SessionDown(l, p, retain)
    \/ \E l, p \in Leaf : SessionUp(l, p)

Spec == Init /\ [][Next]_vars

\* A call of step_timers, a frame, the end of a half-open session or a new one would
\* change something.
Busy ==
    \/ up # Ends
    \/ \E l \in Leaf :
          \/ \E p \in Leaf \ {l} : channel[<<p, l>>] # <<>> \/ Sent(l, p) # <<>>
          \/ Program(leaf[l]) # leaf[l]
          \/ \E m \in Mac : l \in where[m] /\ LearnLocal(leaf[l], m) # leaf[l]

\* Weak fairness of those together: while one of them has something to do,
\* the fabric does not stand still.  The other actions are finitely many.
FairSpec == Spec /\ ([]<>~Busy \/ []<><<TRUE>>_vars)

-----------------------------------------------------------------------------
(* Properties.                                                             *)

Partial(K, V) == UNION {[D -> V] : D \in SUBSET K}
Seqs == 0 .. MoveLimit

\* Type invariant.
TypeOK ==
    /\ \A l \in Leaf :
          /\ leaf[l].local \in Partial(Mac, Seqs)
          /\ leaf[l].remote \in Partial(Mac, [vtep : Leaf \ {l}, seq : Seqs])
          /\ leaf[l].flood \subseteq Leaf \ {l} /\ leaf[l].dup \subseteq Mac
          /\ leaf[l].ribIn \in [Leaf \ {l} -> Partial(Item, Seqs)]
          /\ leaf[l].ribOut \in [Leaf \ {l} -> Partial(Item, Seqs)]
    /\ channel \in [Leaf \X Leaf -> Seq([withdraw : SUBSET Item, announce : SUBSET Item, seq : Seqs])]
    /\ up \subseteq Ends /\ where \in [Mac -> SUBSET Leaf]
    /\ moves \in [Mac -> Nat] /\ losses \in 0 .. MaxLosses

\* While a session is Established at both ends, what a leaf has been told, with what
\* is still under way to it, is what the other end believes it told: the differences
\* of advertise_evpn_to_peer add up over moves and withdrawals, and after a loss
\* nothing retained from the session before is left among them.
RibsAgree ==
    \A l \in Leaf : \A p \in Peers(l) : l \in Peers(p) =>
        ImportAll(leaf[l].ribIn[p], channel[<<p, l>>]) = leaf[p].ribOut[l]

\* The state of the fabric has its type, its numbers within the limit of moves, and
\* the Adj-RIBs at the two ends of a session agree (advertise_evpn_to_peer, teardown,
\* reconcile_graceful_restart_open).
RibsSound == TypeOK /\ RibsAgree

\* A MAC is declared duplicate only if its host moved more often than the limit, or
\* there really are two: no order of frames, advertisements and lost sessions makes
\* the numbers run ahead of the moves.
NoFalseDuplicate ==
    \A m \in Mac : Cardinality(where[m]) = 1 =>
        \A l \in Leaf : m \in leaf[l].dup => moves[m] > MoveLimit

\* Leaf l programmed a claim to m although it knows a higher one (the claim that
\* stays in program_from_rib is the last, not the highest).
Masked(l, m) ==
    m \in DOMAIN leaf[l].remote /\ \E p \in Leaf \ {l} :
        m \in DOMAIN leaf[l].ribIn[p] /\ leaf[l].ribIn[p][m] > leaf[l].remote[m].seq

\* Leaf l does not learn m: it was declared duplicate, or the table is full.
NotLearnt(l, m) ==
    m \in leaf[l].dup \/ (m \notin DOMAIN leaf[l].local /\ Cardinality(DOMAIN leaf[l].local) >= MaxLocal)

\* A host that no longer moves is followed: in the end frames for it reach it from
\* every leaf, and no other leaf claims it; unless its leaf does not learn it, or a
\* higher claim stays masked.
SettledHostFollowed ==
    \A m \in Mac :
        <>[](\/ Cardinality(where[m]) # 1
             \/ \E l \in Leaf : Masked(l, m) \/ (l \in where[m] /\ NotLearnt(l, m))
             \/ \A l \in Leaf :
                   where[m] \subseteq Reached(l, m) /\ (l \notin where[m] => m \notin DOMAIN leaf[l].local))

\* Two hosts with one address do not make their leaves outbid each other for ever:
\* in the end the claims stay as they are (MAX_MAC_MOVES).
BiddingEnds == <>[][\A l \in Leaf : leaf'[l].local = leaf[l].local]_vars
====
