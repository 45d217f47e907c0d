------------------------- MODULE MCCaddyReconciler -------------------------
(***************************************************************************)
(* Small instances of CaddyReconciler for TLC: one or two handlers, two    *)
(* identities of runs (one would make overlapping runs impossible by       *)
(* construction), and the bounds the configurations give.                  *)
(***************************************************************************)
EXTENDS CaddyReconciler, TLC

CONSTANTS h1, h2, r1, r2

OneHandler == {h1}
TwoHandlers == {h1, h2}
NoHandlers == {}
OneRun == {r1}
TwoRuns == {r1, r2}

\* Handlers and runs are interchangeable; used for safety only.
Symmetry == Permutations(Handlers) \cup Permutations(Runs)
=============================================================================
