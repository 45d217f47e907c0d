------------------------------ MODULE MCTenancy ------------------------------
(***************************************************************************)
(* A small instance of Tenancy for TLC.                                    *)
(***************************************************************************)
EXTENDS Tenancy, TLC

CONSTANTS u1, u2, p1, p2, s1, s2, x, y, a, b, t1, c1, c2, k1

TwoUsers == {u1, u2}
TwoProjects == {p1, p2}
TwoSlugs == {s1, s2}
TwoColumns == {x, y}
TwoValues == {a, b}
OneToken == {t1}
TwoCalls == {c1, c2}
OneService == {k1}

Row(s) == [slug |-> s, columns |-> Blank, by |-> "portal"]

Nothing == [project |-> [p \in TwoProjects |-> NoRow],
            role |-> [u \in TwoUsers |-> [p \in TwoProjects |-> "none"]],
            token |-> [t \in OneToken |-> Unissued]]

\* Two tenants; the token is the first one's, or is yet to be issued.
Founded == [project |-> (p1 :> Row(s1) @@ p2 :> Row(s2)),
            role |-> (u1 :> (p1 :> "owner" @@ p2 :> "none") @@
                      u2 :> (p1 :> "none" @@ p2 :> "owner")),
            token |-> [t \in OneToken |-> Unissued]]
InUse == [Founded EXCEPT !.token[t1].project = p1]

\* Calls are alike.
Alike == Permutations(TwoCalls)

SomeTables == {Nothing, Founded, InUse}
=============================================================================
