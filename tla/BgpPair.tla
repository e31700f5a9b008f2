------------------------------- MODULE BgpPair -------------------------------
(***************************************************************************)
(* Two BGP speakers that are each other's neighbour, the network between   *)
(* their TCP stacks, and their operators.  Between two polls of a speaker  *)
(* any number of segments arrive; segments of one connection stay in order *)
(* (TCP), those of different connections do not.                           *)
(***************************************************************************)
EXTENDS BgpSpeaker, FiniteSets

CONSTANT Setups  \* what is looked at: the speakers that dial, and how much goes wrong.
                 \* faults bounds what costs a session, be it the network, a timer or
                 \* an operator; commands bounds the operators' other commands.

ASSUME SetupAssumption ==
    Setups \subseteq [dialers: SUBSET Speaker, faults: Nat, commands: Nat]

VARIABLES speaker, conn, left
vars == <<speaker, conn, left>>

Init ==
    \E setup \in Setups :
        /\ speaker = [s \in Speaker |-> NewSpeaker(IF s \in setup.dialers THEN "Active" ELSE "Passive")]
        /\ conn = [i \in Conn |-> NoConn]
        /\ left = [faults |-> setup.faults, commands |-> setup.commands]

Spend(what) == left[what] > 0 /\ left' = [left EXCEPT ![what] = @ - 1]

\* A four-tuple that has no end left and that nobody refers to can be used again; what
\* is still under way for it finds nobody.
InUse(sp, c, i) ==
    \/ \E s \in Speaker : c[i].end[s] # "gone"
    \/ \E s \in Speaker : i \in {sp[s].stream, sp[s].collision} \cup ToSet(sp[s].accept_queue)

Become(sp, c) ==
    /\ speaker' = sp
    /\ conn' = [i \in Conn |-> IF InUse(sp, c, i) THEN Settled(c[i]) ELSE NoConn]

World(s) == [p |-> speaker[s], c |-> conn]
Adopt(s, w) == Become([speaker EXCEPT ![s] = w.p], w.c)
-----------------------------------------------------------------------------
(* The timers of a speaker.  A handshake or a session that still has          *)
(* something under way, or someone at the other end, is not late yet: its     *)
(* timer running out is one of the faults.                                    *)

Silent(s) ==
    LET i == speaker[s].stream
        t == Peer(s)
    IN  /\ conn[i].wire[s] = <<>> /\ conn[i].wire[t] = <<>> /\ conn[i].received[s] = <<>>
        /\ i \notin {speaker[t].stream, speaker[t].collision} \cup ToSet(speaker[t].accept_queue)

Armed(s) ==
    LET p == speaker[s]
    IN  (IF p.retry THEN {"retry"} ELSE {}) \cup (IF p.state \in Session THEN {"hold"} ELSE {}) \cup
        (IF p.stale THEN {"restart"} ELSE {}) \cup (IF p.restarting THEN {"local"} ELSE {})

Early(s) == IF speaker[s].stream # None /\ ~Silent(s) THEN {"retry", "hold"} ELSE {}

Elapsed(s) == Armed(s) \ Early(s)

\* poll, with the timers of due run out.
Poll(s, due) ==
    /\ due \subseteq Elapsed(s)
    /\ Adopt(s, Polled(World(s), s, due))
    /\ UNCHANGED left

\* poll, with a timer run out that the network could still have beaten.
LatePoll(s, due) ==
    /\ due \subseteq Armed(s)
    /\ due \cap Early(s) # {}
    /\ Spend("faults")
    /\ Adopt(s, Polled(World(s), s, due))

\* The next segment of connection i reaches s.
Deliver(i, s) ==
    LET k == conn[i]
        r == Arrive(k, s, speaker[s].listening)
        queued == k.end[s] = "none" /\ r.end[s] = "syn"
        sp == IF queued THEN [speaker EXCEPT ![s].accept_queue = Append(@, i)] ELSE speaker
    IN  /\ k.wire[s] # <<>>
        /\ Become(sp, [conn EXCEPT ![i] = r])
        /\ UNCHANGED left

\* The stack of s gives a connection up: no RST is sent for it.
TransportFails(i, s) ==
    /\ Live(conn[i], s)
    /\ Spend("faults")
    /\ Become(speaker, [conn EXCEPT ![i] = Gone(@, s)])

\* A RST is lost; nothing sends it again.
LoseReset(i, s) ==
    /\ conn[i].wire[s] # <<>> /\ Head(conn[i].wire[s]) = "RST"
    /\ Spend("faults")
    /\ Become(speaker, [conn EXCEPT ![i].wire[s] = Tail(@)])
-----------------------------------------------------------------------------
(* What the operator of a speaker does between two polls.                     *)

\* begin_graceful_restart
BeginGracefulRestart(s) ==
    LET p == speaker[s]
        w == [World(s) EXCEPT !.p.restarting = TRUE, !.p.recovery_pending = TRUE, !.p.eor_pending = FALSE]
    IN  /\ ~p.restarting
        /\ Spend("faults")
        /\ Adopt(s, IF p.stream # None \/ p.state # "Idle" THEN Teardown(w, s, "transport") ELSE w)

\* mark_graceful_restart_family_recovered
FamilyRecovered(s) ==
    LET p == speaker[s]
    IN  /\ p.restarting /\ p.recovery_pending
        /\ Adopt(s, [World(s) EXCEPT !.p = FinishRestart(
               [p EXCEPT !.recovery_pending = FALSE, !.eor_pending = p.admin_up])])
        /\ UNCHANGED left

\* Mutant: a shutdown that counts as the loss of the transport.
ShutdownAsLoss(s) ==
    /\ speaker[s].admin_up
    /\ Spend("faults")
    /\ LET w == Teardown([World(s) EXCEPT !.p.admin_up = FALSE], s, "transport")
       IN  Adopt(s, [w EXCEPT !.p.retry = FALSE])

\* shutdown_peer
ShutdownPeer(s) ==
    /\ speaker[s].admin_up
    /\ Spend("faults")
    /\ LET w == Teardown([World(s) EXCEPT !.p.admin_up = FALSE], s, "CEASE")
       IN  Adopt(s, [w EXCEPT !.p.retry = FALSE])

\* enable_peer
EnablePeer(s) ==
    /\ ~speaker[s].admin_up
    /\ Adopt(s, [World(s) EXCEPT !.p.admin_up = TRUE, !.p.retry = FALSE])
    /\ UNCHANGED left

\* originate and withdraw
ToggleOrigin(s) ==
    /\ Spend("commands")
    /\ Adopt(s, [World(s) EXCEPT !.p.originated = ~@])

\* request_route_refresh
RequestRouteRefresh(s) ==
    /\ speaker[s].state = "Established"
    /\ Spend("commands")
    /\ Adopt(s, SendPdu(World(s), s, "REFRESH"))

Timers == {"retry", "hold", "restart", "local"}

Next ==
    \/ \E s \in Speaker : \E due \in SUBSET Timers : Poll(s, due) \/ LatePoll(s, due)
    \/ \E i \in Conn, s \in Speaker : Deliver(i, s) \/ TransportFails(i, s) \/ LoseReset(i, s)
    \/ \E s \in Speaker :
          \/ BeginGracefulRestart(s) \/ FamilyRecovered(s) \/ ShutdownPeer(s)
          \/ EnablePeer(s) \/ ToggleOrigin(s) \/ RequestRouteRefresh(s)

Spec == Init /\ [][Next]_vars

\* A poll of s, after every timer that has nothing left to wait for has run out, would
\* change something: ENABLED <<Poll(s, Elapsed(s))>>_vars.
PollIsDue(s) == Polled(World(s), s, Elapsed(s)) # World(s)

\* Weak fairness.  Every speaker is polled again and again, also after its timers have
\* run out, and TCP delivers what a connection carries.
Fairness ==
    /\ \A s \in Speaker : []<>~PollIsDue(s) \/ []<><<Poll(s, Elapsed(s))>>_vars
    /\ \A i \in Conn : WF_vars(\E s \in Speaker : Deliver(i, s))

FairSpec == Spec /\ Fairness
-----------------------------------------------------------------------------
\* Type invariant.
TypeOK ==
    /\ speaker \in [Speaker -> SpeakerState]
    /\ conn \in [Conn -> ConnState]
    /\ left \in [faults: Nat, commands: Nat]

Up(s) == speaker[s].state = "Established"

\* Whatever is still under way to s in its session, in the order it will be read.
Pending(s) ==
    LET k == conn[speaker[s].stream] IN k.received[s] \o SelectSeq(k.wire[s], LAMBDA m: m \in Message)

\* No connection is left behind: one that is alive at a speaker is its session, its
\* collision candidate or still to be accepted, whatever collided, was refused or torn
\* down (accept_inbound, resolve_collision, teardown).
LiveIsServed ==
    \A i \in Conn, s \in Speaker :
        Live(conn[i], s) => i \in {speaker[s].stream, speaker[s].collision} \cup ToSet(speaker[s].accept_queue)

\* The comment on teardown: a transport loss "retains negotiated-family routes until its
\* Restart Time expires".  So the neighbour's route is held only while a session or a
\* graceful restart accounts for it.  The code does not keep to it when the transport
\* is lost again before the End-of-RIB of a restart (teardown keeps the old cutoff,
\* flush_graceful_restart spares what came after it).
RouteAccountedFor == \A s \in Speaker : speaker[s].route # "none" => Up(s) \/ speaker[s].stale

\* In a session, what Adj-RIB-In holds as new, once everything under way is read, is
\* what the neighbour's Adj-RIB-Out says it told, and what it retained from before the
\* session is there only until the restart of the neighbour is over (advertise_to_peer,
\* import_update, the refresh and End-of-RIB purges, flush_graceful_restart).
RibsAgree ==
    \A s \in Speaker :
        LET t == Peer(s)
            i == speaker[t].stream
            final == FoldLeft(Import, speaker[s], Pending(s))
        IN  Up(t) /\ Up(s) /\ speaker[s].stream = i /\ Live(conn[i], s) /\ Live(conn[i], t)
               => /\ (final.route = "new") = speaker[t].adj_rib_out
                  /\ final.route = "old" => speaker[s].stale

\* Two speakers that both follow the code never see a message their state forbids
\* (handle_pdu's last arm).
NoFsmError ==
    \A i \in Conn, s \in Speaker : "FSM_ERROR" \notin ToSet(conn[i].wire[s]) \cup ToSet(conn[i].received[s])

\* A neighbour that is shut down leaves nothing behind and nothing revives it
\* (shutdown_peer, accept_inbound).
DownMeansEmpty ==
    \A s \in Speaker :
        LET p == speaker[s]
        IN  ~p.admin_up => p.state = "Idle" /\ p.stream = None /\ p.collision = None /\ p.route = "none" /\ ~p.stale

\* Whatever happened to the sessions, no connection is left behind, and nothing at all
\* of a neighbour that is shut down (teardown, shutdown_peer, resolve_collision).
NothingLeftBehind == TypeOK /\ LiveIsServed /\ DownMeansEmpty

\* The two speakers understand each other: their RIBs agree, and neither sends what the
\* other's state forbids (advertise_to_peer, import_update, handle_pdu,
\* flush_graceful_restart).
SpeakersAgree == RibsAgree /\ NoFsmError

\* Routes retained for a neighbour that restarts do not stay: they are refreshed,
\* or purged when the Restart Time runs out (expire_graceful_restarts).
StaleEnds == \A s \in Speaker : speaker[s].stale ~> ~speaker[s].stale

\* Once the faults are over, two neighbours that are not shut down get a session and
\* keep it, when it takes no collision to get there (start_peer, progress_transport,
\* accept_inbound, run_timers).
Establishes ==
    (\E s \in Speaker : speaker[s].mode = "Passive") /\ <>[](\A s \in Speaker : speaker[s].admin_up)
        => <>[](\A s \in Speaker : Up(s))

\* The comment on resolve_collision: both ends pick the same connection, "which is what
\* makes the outcome a single session rather than a reconnect loop".
CollisionEndsInSession ==
    <>[](\A s \in Speaker : speaker[s].admin_up) => <>[](\A s \in Speaker : Up(s))
==============================================================================
