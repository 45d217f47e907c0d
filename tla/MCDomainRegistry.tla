-------------------------- MODULE MCDomainRegistry --------------------------
(***************************************************************************)
(* Small instances of DomainRegistry for TLC.                              *)
(***************************************************************************)
EXTENDS DomainRegistry, TLC

CONSTANTS host1, host2, acme, blue, i1, i2, i3, req1, req2, tick1, tick2

OneHost == {host1}
TwoHosts == {host1, host2}
TwoProjects == {acme, blue}
OneProject == {acme}
TxtForAcme == {acme}
TwoIds == {i1, i2}
ThreeIds == {i1, i2, i3}
OneRequest == {req1}
TwoRequests == {req1, req2}
OneTick == {tick1}
TwoTicks == {tick1, tick2}
Nobody == {}

\* Rows, requests and ticks are interchangeable (projects are not: one of them
\* requires TXT records); used for safety only.
Symmetry == Permutations(Ids) \cup Permutations(Handlers) \cup Permutations(Crons)
(***************************************************************************)
(* For liveness: two rows that earlier requests have left, the API's with  *)
(* a challenge and the portal's without, so that a tick has a queue, and   *)
(* two ticks that may overlap.  The only requests are re-registrations of  *)
(* one host, whose stale save un-verifies; the zones do what they like.    *)
(***************************************************************************)
Registered ==
    /\ rows = [i \in Ids |-> IF i = i1 THEN NewRow(host1, acme, TRUE)
                                       ELSE NewRow(host2, acme, FALSE)]
    /\ issued = {i1}
    /\ cname = {} /\ txt = {}
    /\ task = [k \in Tasks |-> Idle]
    /\ faults = 0
    /\ cnameSeen = {} /\ txtSeen = {}

VerifyNext ==
    \/ \E k \in Handlers : Register(k, host1, acme, TRUE)
    \/ \E k \in Crons : Tick(k)
    \/ \E k \in Tasks : Continue(k) \/ Abort(k)
    \/ Zone

VerifySpec == Registered /\ [][VerifyNext]_vars /\ Fairness
=============================================================================
