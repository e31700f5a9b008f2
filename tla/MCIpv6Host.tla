----------------------------- MODULE MCIpv6Host -----------------------------
(***************************************************************************)
(* The instance of Ipv6Host that TLC checks: router 1 is a default router  *)
(* and advertises the autonomous prefix, router 2 is the preferred router  *)
(* of the inner prefix and offers the default route for ever.              *)
(***************************************************************************)
EXTENDS Ipv6Host

Ra(lifetime, pref, slla, default, inner, valid) ==
    [lifetime |-> lifetime, pref |-> pref, slla |-> slla,
     rio |-> [default |-> default, inner |-> inner], valid |-> valid]
For(until, pref) == <<[until |-> until, pref |-> pref]>>

MCAdverts ==
    [r \in {1, 2} |->
        IF r = 1
        THEN {Ra(2, 1, "same", <<>>, For(2, 0), <<3>>), Ra(0, 1, "absent", <<>>, For(0, 0), <<1>>)}
        ELSE {Ra(1, 0, "same", For(Inf, 1), For(Inf, 1), <<>>),
              Ra(1, 1, "changed", <<>>, <<>>, <<Inf>>)}]
====
