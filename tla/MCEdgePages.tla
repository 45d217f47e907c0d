----------------------------- MODULE MCEdgePages -----------------------------
(***************************************************************************)
(* A small instance of EdgePages for TLC: two pages and a cache that is    *)
(* full with none instead of 200, so that every insertion finds it full or *)
(* overfull, and a TTL of two.                                             *)
(***************************************************************************)
EXTENDS EdgePages

CONSTANTS v1, v2, u1, u2

TwoVisitors == {v1, v2}
TwoUrls == {u1, u2}
=============================================================================
