------------------------------ MODULE Ipv6Host ------------------------------
(***************************************************************************)
(* The IPv6 side of a host (src/stack.rs, with the neighbour cache of      *)
(* src/icmpv6.rs): router discovery, the Default Router List, the routes   *)
(* of RFC 4191, neighbour unreachability detection, address                *)
(* autoconfiguration with duplicate address detection, and redirects.      *)
(*                                                                         *)
(* The host reads the clock in step_timers only, so a deadline is kept as  *)
(* the time left until it, counted down there.  The routers advertise one  *)
(* autonomous prefix, which gives one address, and two scopes: the default *)
(* route and one more specific prefix, in which the one destination of the *)
(* host's packets lies.  A link-layer address is not kept: an option says  *)
(* whether it repeats or changes the one that is known.  The Prefix List,  *)
(* MTUs and DNS options share no state with what is here.                  *)
(***************************************************************************)
EXTENDS Naturals, Sequences, FiniteSets, SequencesExt, FiniteSetsExt, SeqFilter

CONSTANTS
    Router,         \* routers on the link, numbers in the order of their addresses
    MaxLife,        \* longest finite lifetime in an advertisement, in ticks
    TwoHours,       \* IPV6_SLAAC_TWO_HOURS_MS
    Reachable, Delay, Retrans,  \* ReachableTime, DELAY_FIRST_PROBE_TIME, RetransTimer
    MaxProbes,      \* NDP_MAX_UNICAST_SOLICIT, 3 in the code
    MaxSolicits,    \* IPV6_MAX_RTR_SOLICITATIONS, 3 in the code
    Interval,       \* IPV6_RTR_SOLICITATION_INTERVAL_MS
    DadTime,        \* IPV6_DAD_RETRANS_TIMER_MS
    Jumps,          \* ticks between two calls of step_timers
    Adverts,        \* what each router advertises
    MaxEvents       \* bound on the frames and calls the host handles

Inf == MaxLife + 1
Life == 0 .. Inf
None == 0
Scope == {"default", "inner"}
Advert == [lifetime : 0 .. MaxLife, pref : 0 .. 2, slla : {"absent", "same", "changed"},
           rio : [Scope -> Seq([until : Life, pref : 0 .. 2])], valid : Seq(Life)]

ASSUME HostAssumption ==
    /\ Router \subseteq Nat \ {0} /\ IsFiniteSet(Router)
    /\ {MaxLife, TwoHours, MaxEvents} \subseteq Nat
    /\ {Reachable, Delay, Retrans, MaxProbes, Interval, DadTime} \subseteq Nat \ {0}
    /\ MaxSolicits \in Nat \ {0, 1}
    /\ Jumps \subseteq Nat \ {0}
    /\ DOMAIN Adverts = Router /\ \A r \in Router : Adverts[r] \subseteq Advert

\* The rest of a time after d has passed.
Passed(n, d) == IF n = Inf THEN Inf ELSE IF n > d THEN n - d ELSE 0

Unknown == [state |-> "none", due |-> Inf, probes |-> 0]
NoDad == [due |-> Inf, valid |-> 0, gateway |-> None, until |-> None, on |-> FALSE]
NoSlaac == [on |-> FALSE, valid |-> Inf]
NoRedirect == [router |-> None, target |-> None]
Idle == [status |-> "idle", sent |-> 0, due |-> Inf]

VARIABLES
    host,           \* what NetStack keeps: a record, its fields below
    heard,          \* history: somebody else used the address since it was last probed
    events          \* frames and calls handled

vars == <<host, heard, events>>

NewHost ==
    [gateway |-> None,          \* ipv6_gateway
     static |-> None,           \* the default route in ipv6_routing_table
     raRoute |-> None,          \* the RaRoute of the inner prefix there
     routers |-> <<>>,          \* ipv6_default_routers: router, until, pref
     rio |-> [s \in Scope |-> [r \in Router |-> <<>>]],     \* ipv6_ra_routes, <<>> or one entry
     failed |-> {},             \* ipv6_failed_rio_routers
     ndp |-> [r \in Router |-> Unknown],                    \* ndp_table
     parked |-> {},             \* next hops with packets in pending_ndp_packets
     redirect |-> NoRedirect,   \* ipv6_redirect_cache of the destination
     discovery |-> Idle,        \* ipv6_router_discovery and .._exhausted
     address |-> "none",        \* config.ipv6
     dad |-> NoDad,             \* ipv6_dad
     duplicate |-> FALSE,       \* ipv6_dad_duplicate
     slaac |-> NoSlaac]         \* ipv6_slaac_lifetimes

Init == host = NewHost /\ heard = FALSE /\ events = 0

-----------------------------------------------------------------------------
(* Default routers.  order is the order in which the hash map of RFC 4191  *)
(* routes yields the routers.                                              *)

Listed(h, r) == {i \in DOMAIN h.routers : h.routers[i].router = r}
Unlisted(h, r) == [h EXCEPT !.routers = Retain(@, DOMAIN @ \ Listed(h, r))]

\* ipv6_default_route_candidates: a route to ::/0 overrides the header's values.
Candidate(h, r) == Listed(h, r) # {} \/ h.rio["default"][r] # <<>>
Terms(h, r) ==
    IF h.rio["default"][r] # <<>> THEN Head(h.rio["default"][r]) ELSE h.routers[Max(Listed(h, r))]
Usable(h) == {r \in Router : Candidate(h, r) /\ Terms(h, r).until > 0}

\* default_router_reachability_rank
ReachabilityRank(h, r) ==
    CASE h.ndp[r].state = "reachable" -> 2 [] h.ndp[r].state = "none" -> 0 [] OTHER -> 1

\* Reachability first, then preference.  PreferenceOnly forgets what is known of
\* reachability.
PreferenceOnly(h, r, pref) == pref
Score(h, r, pref) == 3 * ReachabilityRank(h, r) + pref

\* set_ipv6_default_gateway.  LeavesRoute forgets the table when the last one goes.
LeavesRoute(h, g) ==
    [h EXCEPT !.gateway = g, !.redirect = IF g # h.gateway THEN NoRedirect ELSE @,
              !.static = IF g # None THEN g ELSE @]
SetGateway(h, g) ==
    [h EXCEPT !.gateway = g,
              !.redirect = IF g # h.gateway THEN NoRedirect ELSE @,
              !.static = IF g # None \/ h.gateway # None THEN g ELSE @]

\* select_ipv6_default_router
SelectDefault(h, order) ==
    LET score(r) == Score(h, r, Terms(h, r).pref)
        best == {r \in Usable(h) : \A q \in Usable(h) : score(q) <= score(r)}
        sequence == [i \in DOMAIN h.routers |-> h.routers[i].router] \o order
        chosen == IF best = {} THEN None
                  ELSE IF h.gateway \in best THEN h.gateway
                  ELSE sequence[Min({i \in DOMAIN sequence : sequence[i] \in best})]
        set == IF chosen = h.gateway THEN h ELSE SetGateway(h, chosen)
        until == IF chosen = None THEN None ELSE Terms(h, chosen).until
    IN  IF ~h.dad.on THEN set
        ELSE [set EXCEPT !.dad.gateway = chosen, !.dad.until = IF until = Inf THEN None ELSE until]

\* refresh_slaac_default_router
RefreshDefault(h, r, lifetime, pref, order) ==
    LET e == [router |-> r, until |-> lifetime, pref |-> pref]
        new == CASE lifetime = 0 -> Unlisted(h, r)
                 [] lifetime > 0 /\ Listed(h, r) # {} -> [h EXCEPT !.routers[Max(Listed(h, r))] = e]
                 [] OTHER -> [h EXCEPT !.routers = Append(@, e)]
    IN  SelectDefault(new, order)

\* expire_ipv6_default_routers
ExpireDefault(h, order) ==
    SelectDefault([h EXCEPT !.routers = Retain(@, {i \in DOMAIN @ : @[i].until > 0})], order)

-----------------------------------------------------------------------------
(* Routes of RFC 4191.                                                     *)

Inner(h) == {r \in Router : h.rio["inner"][r] # <<>> /\ Head(h.rio["inner"][r]).until > 0}

\* The routers that may be chosen: one that stopped answering only when there is
\* no other.  AnyAdvertiser takes them all.
AnyAdvertiser(h) == Inner(h)
Allowed(h) == IF Inner(h) \subseteq h.failed THEN Inner(h) ELSE Inner(h) \ h.failed

\* select_ipv6_ra_route for the inner prefix; the tie goes to the lowest address.
SelectInner(h) ==
    LET score(r) == Score(h, r, Head(h.rio["inner"][r]).pref)
        best == {r \in Allowed(h) : \A q \in Allowed(h) : score(q) <= score(r)}
    IN  [h EXCEPT !.raRoute = IF best = {} THEN None ELSE IF @ \in best THEN @ ELSE Min(best)]

\* reselect_ipv6_ra_routes
Reselect(h) == IF \E r \in Router : h.rio["inner"][r] # <<>> THEN SelectInner(h) ELSE h

Select(h, scope, order) == IF scope = "inner" THEN SelectInner(h) ELSE SelectDefault(h, order)

\* refresh_ipv6_ra_route for the option of one scope, when the RA has it.
RefreshRoute(h, r, scope, option, order) ==
    IF option = <<>> THEN h
    ELSE Select([h EXCEPT !.rio[scope][r] = IF Head(option).until = 0 THEN <<>> ELSE option], scope, order)

-----------------------------------------------------------------------------
(* The interface.                                                          *)

\* configure_ipv6_interface
Configured(h, address, g) ==
    [h EXCEPT !.address = address, !.gateway = g,
              !.static = IF g # None \/ h.gateway # None THEN g ELSE @,
              !.dad = NoDad, !.duplicate = FALSE, !.slaac = NoSlaac, !.failed = {}, !.raRoute = None,
              !.rio = NewHost.rio, !.redirect = NoRedirect]

\* clear_ipv6_interface.  KeepsLifetimes does not forget the address's lifetimes.
KeepsLifetimes(h) ==
    [Configured(h, "none", None) EXCEPT !.routers = <<>>, !.parked = {}, !.slaac = h.slaac]
Cleared(h) ==
    [Configured(h, "none", None) EXCEPT !.routers = <<>>, !.parked = {}]

\* start_router_discovery
Soliciting(h) == [h EXCEPT !.discovery = [status |-> "soliciting", sent |-> 1, due |-> Interval]]

\* refreshed_ipv6_valid_deadline: an advertisement does not bring a valid lifetime
\* below two hours at once.  TakesAny believes it.
TakesAny(current, advertised) == advertised
Refreshed(current, advertised) ==
    IF advertised > TwoHours \/ advertised > current THEN advertised
    ELSE IF current <= TwoHours THEN current ELSE TwoHours

\* The prefix option: an address in use is refreshed or adopted, any other is
\* probed first (start_ipv6_dad); lifetime is the router lifetime of the RA.
Autoconfigured(h, valid, lifetime) ==
    LET until == IF lifetime > 0 THEN lifetime ELSE None
    IN  CASE h.address = "auto" ->
               [h EXCEPT !.slaac = [on |-> TRUE, valid |-> IF @.on THEN Refreshed(@.valid, valid) ELSE valid]]
          [] h.address # "auto" /\ valid = 0 -> h
          [] h.address # "auto" /\ valid # 0 /\ h.dad.on ->
               [h EXCEPT !.dad.gateway = h.gateway, !.dad.until = until, !.dad.valid = Refreshed(@, valid)]
          [] OTHER ->
               [h EXCEPT !.duplicate = FALSE,
                         !.dad = [on |-> TRUE, due |-> DadTime, valid |-> valid,
                                  gateway |-> h.gateway, until |-> until]]

-----------------------------------------------------------------------------
(* The neighbour cache.                                                    *)

\* learn_stale
LearnStale(n, option) ==
    IF option = "absent" \/ (option = "same" /\ n.state # "none") THEN n
    ELSE [state |-> "stale", due |-> Inf, probes |-> 0]

\* lookup_for_transmit: the first use of what is stale starts the probing.
Used(n) == IF n.state = "stale" THEN [state |-> "delay", due |-> Delay, probes |-> 0] ELSE n

Confirmed == [state |-> "reachable", due |-> Reachable, probes |-> 0]

\* step_nud for one neighbour.
StepNud(n) ==
    CASE n.state = "reachable" /\ n.due = 0 -> [state |-> "stale", due |-> Inf, probes |-> 0]
      [] n.state = "delay" /\ n.due = 0 -> [state |-> "probe", due |-> Retrans, probes |-> 1]
      [] n.state = "probe" /\ n.due = 0 ->
           IF n.probes < MaxProbes THEN [state |-> "probe", due |-> Retrans, probes |-> n.probes + 1]
           ELSE Unknown
      [] OTHER -> n

-----------------------------------------------------------------------------
(* step_timers, in the order of the code.                                  *)

\* Time passes.
Older(entry, d) == [entry EXCEPT !.until = Passed(@, d)]
Waited(n, d) == [n EXCEPT !.due = Passed(@, d)]
Aged(h, d) ==
    [h EXCEPT !.routers = [i \in DOMAIN @ |-> Older(@[i], d)],
              !.rio = [s \in Scope |-> [r \in Router |-> [i \in DOMAIN @[s][r] |-> Older(@[s][r][i], d)]]],
              !.ndp = [r \in Router |-> Waited(@[r], d)],
              !.discovery.due = Passed(@, d),
              !.dad.due = Passed(@, d), !.dad.valid = Passed(@, d), !.dad.until = Passed(@, d),
              !.slaac.valid = Passed(@, d)]

\* The next solicitation, or the end of them.  SolicitsOnceMore is off by one.
SolicitsOnceMore(h) ==
    IF h.discovery.status # "soliciting" \/ h.discovery.due > 0 THEN h
    ELSE IF h.discovery.sent + 1 > MaxSolicits THEN [h EXCEPT !.discovery = [Idle EXCEPT !.status = "exhausted"]]
    ELSE [h EXCEPT !.discovery.sent = @ + 1, !.discovery.due = Interval]
Discovered(h) ==
    IF h.discovery.status # "soliciting" \/ h.discovery.due > 0 THEN h
    ELSE IF h.discovery.sent + 1 >= MaxSolicits THEN [h EXCEPT !.discovery = [Idle EXCEPT !.status = "exhausted"]]
    ELSE [h EXCEPT !.discovery.sent = @ + 1, !.discovery.due = Interval]

\* The routers NUD has just given up lose their inner routes, and the rest is
\* chosen from again.
WithoutFailed(h, gone) ==
    LET affected == \E r \in gone : h.rio["inner"][r] # <<>>
        less == [h EXCEPT !.failed = @ \cup gone,
                          !.rio["inner"] = [r \in Router |-> IF r \in gone THEN <<>> ELSE @[r]]]
    IN  Reselect(IF affected THEN SelectInner(less) ELSE less)

\* step_nud, and what it means for routers that advertised routes and for the
\* default router in use.  GatewayStays waits for its lifetime.
Probed(h) ==
    LET n == [h EXCEPT !.ndp = [r \in Router |-> StepNud(@[r])]]
        lost(r) == h.ndp[r].state # "none" /\ n.ndp[r].state = "none"
        gone == {r \in Router : lost(r) /\ \E s \in Scope : h.rio[s][r] # <<>>}
    IN  WithoutFailed(n, gone)

GatewayStays(h, n, order) == n
GatewayProbed(h, n, order) ==
    LET g == h.gateway
    IN  IF g # None /\ Candidate(h, g) /\ h.ndp[g].state # "none" /\ n.ndp[g].state = "none"
        THEN SelectDefault([Unlisted(n, g) EXCEPT !.rio["default"][g] = <<>>], order) ELSE n

\* RFC 4191 routes whose lifetime is over.
RoutesExpired(h, order) ==
    LET over(s) == {r \in Router : h.rio[s][r] # <<>> /\ Head(h.rio[s][r]).until = 0}
        less == [h EXCEPT !.rio = [s \in Scope |-> [r \in Router |-> IF r \in over(s) THEN <<>> ELSE @[s][r]]]]
        inner == IF over("inner") = {} THEN less ELSE SelectInner(less)
    IN  IF over("default") = {} THEN inner ELSE SelectDefault(inner, order)

\* A tentative address nobody objected to is taken.
DadDone(h) ==
    LET g == IF h.dad.until > 0 THEN h.dad.gateway ELSE None
        valid == h.dad.valid
    IN  IF ~h.dad.on \/ h.dad.due > 0 THEN h
        ELSE IF valid = 0 THEN [h EXCEPT !.dad = NoDad]
        ELSE [Configured(h, "auto", g) EXCEPT !.slaac = [on |-> TRUE, valid |-> valid]]

\* Whether the host goes looking for routers again after the last one is lost.
\* SolicitsOnExpiry forgets the ones lost to NUD.
SolicitsOnExpiry(started, nud, rio, expired) == rio \/ expired
Restarts(started, nud, rio, expired) == ~started /\ (nud \/ rio \/ expired)

Stepped(h0, d, order) ==
    LET h == Aged(h0, d)
        discovered == Discovered(h)
        probed == GatewayProbed(discovered, Probed(discovered), order)
        expired == RoutesExpired(probed, order)
        taken == DadDone(expired)
        final == ExpireDefault(taken, order)
        lost(a, b) == a.gateway # None /\ b.gateway = None
    IN  IF taken.slaac.on /\ taken.slaac.valid = 0 THEN Cleared(taken)
        ELSE IF Restarts(h.discovery.status = "soliciting", lost(discovered, probed),
                         lost(probed, expired), lost(taken, final)) THEN Soliciting(final)
        ELSE final

-----------------------------------------------------------------------------
(* Actions: a call of step_timers, a frame from the link, or a call of the *)
(* application.                                                            *)

Orders == SetToSeqs(Router)

Event == events < MaxEvents /\ events' = events + 1

StepTimers(d) ==
    /\ \E order \in Orders : host' = Stepped(host, d, order)
    /\ UNCHANGED <<heard, events>>

\* A Router Advertisement.
ReceiveAdvert(r, ra) ==
    \E order \in Orders :
        LET n == LearnStale(host.ndp[r], ra.slla)
            learnt == [host EXCEPT !.ndp[r] = IF ra.slla # "absent" /\ r \in host.failed THEN Used(n) ELSE n,
                                   !.discovery = Idle]
            header == IF ra.rio["default"] # <<>> THEN SelectDefault(Unlisted(learnt, r), order)
                      ELSE RefreshDefault(learnt, r, ra.lifetime, ra.pref, order)
            routed == RefreshRoute(RefreshRoute(header, r, "default", ra.rio["default"], order),
                                   r, "inner", ra.rio["inner"], order)
        IN  /\ Event
            /\ host' = IF ra.valid = <<>> THEN routed ELSE Autoconfigured(routed, Head(ra.valid), ra.lifetime)
            /\ heard' = (heard /\ (host'.dad.on => host.dad.on))

\* A Neighbour Advertisement of a router: solicited or not, with the Router and
\* the Override flag, and a link-layer address option.
Advertised(h, r, na, order) ==
    LET cached == h.ndp[r].state # "none"
        stale == [state |-> "stale", due |-> Inf, probes |-> 0]
        entry == CASE cached /\ na.tlla = "changed" /\ ~na.override ->
                        IF h.ndp[r].state = "reachable" THEN stale ELSE h.ndp[r]
                   [] cached /\ ~(na.tlla = "changed" /\ ~na.override) /\ ~na.solicited ->
                        IF na.tlla = "changed" THEN stale ELSE h.ndp[r]
                   [] ~cached /\ ~na.solicited -> stale
                   [] OTHER -> Confirmed
        known == [h EXCEPT !.ndp[r] = entry, !.parked = IF cached THEN @ ELSE @ \ {r}]
        chosen == CASE cached /\ ~na.router -> RefreshDefault(known, r, 0, 1, order)
                    [] na.router /\ Candidate(h, r) -> SelectDefault(known, order)
                    [] OTHER -> known
    IN  CASE ~cached /\ r \notin h.parked -> Reselect(h)
          [] ~cached /\ r \in h.parked /\ na.tlla = "absent" -> h
          [] OTHER -> Reselect([chosen EXCEPT !.failed =
                 IF na.solicited /\ entry.state = "reachable" THEN @ \ {r} ELSE @])

ReceiveNa(r, na) ==
    /\ na.solicited => host.address # "none"
    /\ Event
    /\ \E order \in Orders : host' = Advertised(host, r, na, order)
    /\ UNCHANGED heard

\* A Neighbour Solicitation of a router, with its link-layer address.
ReceiveNs(r, option) ==
    /\ Event
    /\ host' = [host EXCEPT !.ndp[r] = LearnStale(@, option)]
    /\ UNCHANGED heard

\* Somebody else probes or defends the address this host would use
\* (mark_ipv6_dad_duplicate).  DuplicateNoted goes on with it.
DuplicateNoted(h) == [h EXCEPT !.duplicate = h.dad.on \/ @]
Duplicate(h) == IF h.dad.on THEN [h EXCEPT !.dad = NoDad, !.duplicate = TRUE] ELSE h
Conflict(advertised) ==
    /\ Event
    /\ host' = IF advertised THEN Reselect(Duplicate(host)) ELSE Duplicate(host)
    /\ heard' = TRUE

\* The next hop of the routing table; None when there is no route and the
\* destination is taken to be on the link.
RouteHop(h) == IF h.raRoute # None THEN h.raRoute ELSE h.static

\* A Redirect of the router in use for a packet the host has sent.
ReceiveRedirect(r, target, option) ==
    /\ host.address # "none" /\ RouteHop(host) = r /\ target # r
    /\ Event
    /\ host' = [host EXCEPT !.redirect = [router |-> r, target |-> target],
                            !.ndp[target] = LearnStale(@, option)]
    /\ UNCHANGED heard

\* send_ip6_packet
Send ==
    LET hop == RouteHop(host)
        redirected == host.redirect # NoRedirect /\ host.redirect.router = hop
        next == IF redirected THEN host.redirect.target ELSE hop
        kept == [host EXCEPT !.redirect = IF redirected THEN @ ELSE NoRedirect]
    IN  /\ Event
        /\ host' = IF next # None /\ host.ndp[next].state # "none"
                   THEN [kept EXCEPT !.ndp[next] = Used(@)]
                   ELSE [kept EXCEPT !.parked = @ \cup {next}]
        /\ UNCHANGED heard

\* The application may also choose the very address autoconfiguration would.
Configure(address, g) == Event /\ host' = Configured(host, address, g) /\ UNCHANGED heard
Clear == Event /\ host' = Cleared(host) /\ UNCHANGED heard
StartRouterDiscovery == Event /\ host' = Soliciting(host) /\ UNCHANGED heard
CancelRouterDiscovery == Event /\ host' = [host EXCEPT !.discovery = Idle] /\ UNCHANGED heard

Option == {"absent", "same", "changed"}
Na == [solicited : BOOLEAN, override : BOOLEAN, router : BOOLEAN, tlla : Option]

Next ==
    \/ \E d \in Jumps : StepTimers(d)
    \/ \E r \in Router : \E ra \in Adverts[r] : ReceiveAdvert(r, ra)
    \/ \E r \in Router, na \in Na : ReceiveNa(r, na)
    \/ \E r \in Router, option \in Option : ReceiveNs(r, option)
    \/ \E advertised \in BOOLEAN : Conflict(advertised)
    \/ \E r, target \in Router, option \in Option : ReceiveRedirect(r, target, option)
    \/ \E address \in {"manual", "auto"}, g \in Router \cup {None} : Configure(address, g)
    \/ Send \/ Clear \/ StartRouterDiscovery \/ CancelRouterDiscovery

Spec == Init /\ [][Next]_vars

\* A step that handles no event is a call of step_timers.
Pump == events' = events

\* The call would change something: ENABLED <<\E d \in Jumps : StepTimers(d)>>_vars.
PumpIsDue == \E d \in Jumps, order \in Orders : Stepped(host, d, order) # host

\* Weak fairness: step_timers is called again and again.
FairSpec == Spec /\ ([]<>~PumpIsDue \/ []<><<Pump>>_vars)

-----------------------------------------------------------------------------
(* Properties.                                                             *)

Entry == [until : Life, pref : 0 .. 2]
Neighbour == [state : {"none", "reachable", "stale", "delay", "probe"}, due : Nat, probes : 0 .. MaxProbes]
Hop == Router \cup {None}

\* Type invariant.
TypeOK ==
    /\ {host.gateway, host.static, host.raRoute} \subseteq Hop
    /\ host.routers \in Seq([router : Router, until : Life, pref : 0 .. 2])
    /\ host.rio \in [Scope -> [Router -> Seq(Entry)]]
    /\ host.failed \subseteq Router /\ host.parked \subseteq Hop
    /\ host.ndp \in [Router -> Neighbour]
    /\ host.redirect \in [router : Hop, target : Hop]
    /\ host.discovery.status \in {"idle", "soliciting", "exhausted"}
    /\ host.discovery.sent < MaxSolicits
    /\ host.address \in {"none", "manual", "auto"}
    /\ host.dad.valid \in Life /\ host.slaac.valid \in Life
    /\ {host.dad.on, host.slaac.on, host.duplicate, heard} \subseteq BOOLEAN
    /\ events \in 0 .. MaxEvents

\* The routing table says what the lists say: its default route is the gateway in
\* use, and the inner prefix has a route, through a router that advertises it,
\* exactly as long as some advertisement of it is valid.
RoutesMatchLists ==
    /\ host.static = host.gateway
    /\ host.raRoute = None <=> Inner(host) = {}
    /\ host.raRoute # None => host.raRoute \in Inner(host)

\* The inner route leads through a router that stopped answering only when every
\* router that advertises the prefix did (the quarantine of select_ipv6_ra_route).
QuarantineHolds == host.raRoute \in host.failed => Inner(host) \subseteq host.failed

\* q is preferred to r: better known to be reachable, or equally and with the
\* higher preference.
Preferred(h, q, r, pref(_)) ==
    \/ ReachabilityRank(h, q) > ReachabilityRank(h, r)
    \/ ReachabilityRank(h, q) = ReachabilityRank(h, r) /\ pref(q) > pref(r)

\* After step_timers the gateway and the inner route are the best there are: no
\* advertising router is preferred, whatever expired, answered or failed.
BestRouterInUse ==
    [][Pump =>
         /\ host'.gateway = None <=> Usable(host') = {}
         /\ \A q \in Usable(host') :
               ~Preferred(host', q, host'.gateway, LAMBDA r : Terms(host', r).pref)
         /\ \A q \in Inner(host') \ host'.failed :
               ~Preferred(host', q, host'.raRoute, LAMBDA r : Head(host'.rio["inner"][r]).pref)]_vars

\* The calls of step_timers after which the code does not look for a router although
\* it has none: the one in which duplicate address detection ends and the address is
\* taken with the gateway noted then, and the one in which the autoconfigured address
\* expires, which clears the gateway and the router list with it.
AddressTaken == host.address # "auto" /\ host'.address = "auto"
AddressExpired == host.address = "auto" /\ host'.address = "none"

\* Every other timer call that takes the last default router away, by expiry of its
\* lifetime or of its route or because it stopped answering, leaves the host looking
\* for another.
LostRouterSolicits ==
    [][Pump /\ ~AddressTaken /\ ~AddressExpired =>
         (host.gateway # None /\ host'.gateway = None =>
             "soliciting" \in {host.discovery.status, host'.discovery.status})]_vars

\* No frame brings the valid lifetime of an address, tentative or taken,
\* below two hours or what was left of it.
ValidNotCollapsed ==
    [][~Pump =>
         /\ host.slaac.on /\ host'.slaac.on => host'.slaac.valid >= Min({host.slaac.valid, TwoHours})
         /\ host.dad.on /\ host'.dad.on => host'.dad.valid >= Min({host.dad.valid, TwoHours})]_vars

\* Autoconfiguration does not take an address somebody else was heard using since
\* the host began to probe it.
NoDuplicateAdopted ==
    [][Pump /\ host'.address = "auto" => host.address = "auto" \/ ~heard]_vars

\* A default router whose reachability is being verified answers or is abandoned,
\* however long its advertised lifetime.
DeadRouterAbandoned ==
    \A r \in Router :
        (host.gateway = r /\ host.ndp[r].state \in {"delay", "probe"})
            ~> (host.gateway # r \/ host.ndp[r].state \in {"reachable", "stale"})

\* An autoconfigured address of finite lifetime is given up with its routes, or
\* gets an unlimited lifetime.
ExpiredAddressGoes ==
    (host.slaac.on /\ host.slaac.valid < Inf) ~> (~host.slaac.on \/ host.slaac.valid = Inf)

\* Routing table, lists and quarantine agree after every frame, call and timer
\* (set_ipv6_default_gateway, select_ipv6_ra_route).
RoutesSound == TypeOK /\ RoutesMatchLists /\ QuarantineHolds

\* A timer call leaves the best router in use, and the host soliciting if it took the
\* last one away; except in the call that takes an address or in which the address
\* expires, where the code solicits no router (step_timers).
RouterChoice == BestRouterInUse /\ LostRouterSolicits

\* No frame takes a valid address away, and no timer adopts one in use elsewhere
\* (the two-hour rule and duplicate address detection).
AddressSound == ValidNotCollapsed /\ NoDuplicateAdopted

\* Nothing dead is kept for ever: neither a router that does not answer nor an
\* address whose lifetime is over (step_timers, under fairness of its caller).
DeadIsGivenUp == DeadRouterAbandoned /\ ExpiredAddressGoes
====
