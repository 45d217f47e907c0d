---------------------------- MODULE MCMembership ----------------------------
(***************************************************************************)
(* A small instance of Membership for TLC: two addresses (somebody has to  *)
(* be the owner who invites), two invitations (one supersedes the other),  *)
(* two requests at a time.                                                 *)
(***************************************************************************)
EXTENDS Membership, TLC

CONSTANTS ann, bob, i1, i2, req1, req2

TwoPeople == {ann, bob}
TwoIds == {i1, i2}
TwoRequests == {req1, req2}

\* Addresses, invitations and requests are interchangeable (the address that
\* CHOOSE puts into rows never written and idle tasks is read by nothing).
Symmetry == Permutations(Emails) \cup Permutations(Ids) \cup Permutations(Handlers)
=============================================================================
