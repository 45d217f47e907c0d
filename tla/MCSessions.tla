----------------------------- MODULE MCSessions -----------------------------
(***************************************************************************)
(* A small instance of Sessions for TLC: a lifetime of 6 stands for the    *)
(* thirty days, so a session slides in the last two instants of its life   *)
(* and a request that does so can outlive it.  Sessions do not meet each   *)
(* other, so there is one, with three requests.                            *)
(***************************************************************************)
EXTENDS Sessions, TLC

CONSTANTS s1, req1, req2, req3

OneToken == {s1}
ThreeRequests == {req1, req2, req3}

Symmetry == Permutations(Handlers)
=============================================================================
