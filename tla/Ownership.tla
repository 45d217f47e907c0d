------------------------------ MODULE Ownership ------------------------------
(***************************************************************************)
(* What the domains table promises, tenant by tenant: a hostname is        *)
(* claimed by one project at a time ("one hostname, one owner") and is     *)
(* another's only after it was released; a claim is verified only once DNS *)
(* has been seen to prove it. Rows, copies and tasks are how               *)
(* DomainRegistry keeps it.                                                *)
(***************************************************************************)
CONSTANTS
    Hosts,     \* hostnames
    Projects   \* tenants

VARIABLES
    held,      \* the claims that are active: pairs of a hostname and a project
    verified,  \* those that are verified
    proved     \* the pairs for which a probe has seen the records

vars == <<held, verified, proved>>

Init == held = {} /\ verified = {} /\ proved = {}

-----------------------------------------------------------------------------
Unclaimed(h) == \A q \in Projects : <<h, q>> \notin held

\* A row is registered.  A row that comes back may have been verified before.
Claim(h, p) ==
    /\ Unclaimed(h)
    /\ held' = held \cup {<<h, p>>}
    /\ verified' \in {verified, verified \cup ({<<h, p>>} \cap proved)}
    /\ UNCHANGED proved

\* The zone of h shows what p was asked to publish.
Prove(h, p) ==
    /\ proved' = proved \cup {<<h, p>>}
    /\ UNCHANGED <<held, verified>>

Verify(h, p) ==
    /\ <<h, p>> \in held \cap proved
    /\ verified' = verified \cup {<<h, p>>}
    /\ UNCHANGED <<held, proved>>

\* A re-registration takes the verification back.
Doubt(h, p) ==
    /\ verified' = verified \ {<<h, p>>}
    /\ UNCHANGED <<held, proved>>

Release(h, p) ==
    /\ held' = held \ {<<h, p>>}
    /\ verified' = verified \ {<<h, p>>}
    /\ UNCHANGED proved

Next ==
    \E h \in Hosts, p \in Projects :
        Claim(h, p) \/ Prove(h, p) \/ Verify(h, p) \/ Doubt(h, p) \/ Release(h, p)

Spec == Init /\ [][Next]_vars
=============================================================================
