---------------------------- MODULE MCCaddyRoutes ----------------------------
(***************************************************************************)
(* A small instance of CaddyRoutes for TLC: two hostnames, two projects,   *)
(* and rows of projects that differ in every column the builder reads, one *)
(* of them with an upstream it cannot parse.                               *)
(***************************************************************************)
EXTENDS CaddyRoutes

CONSTANTS h1, h2, p1, p2, m1, m2, a, b

TwoHosts == {h1, h2}
TwoProjects == {p1, p2}
TwoMetas == {m1, m2}
SomeNames == {a, b}

Site == [scheme |-> "https", host |-> a, port |-> 0]
Other == [scheme |-> "http", host |-> b, port |-> 8080]
Files == [scheme |-> "ftp", host |-> b, port |-> 0]
SomeUpstreams == {Site, Other, Files}

Plain == [upstream |-> Site, upstreamHost |-> b, mode |-> "preserve", value |-> Null,
          rps |-> 4, enabled |-> TRUE]
Paused == [upstream |-> Other, upstreamHost |-> Null, mode |-> "static", value |-> a,
           rps |-> 0, enabled |-> FALSE]
Broken == [Plain EXCEPT !.upstream = Files]
SomeSettings == {Plain, Paused, Broken}

Empty == [h \in TwoHosts |-> NoRow]
\* A host is served when the run begins; it may be removed, and given to the other.
Serving == [Empty EXCEPT ![h1] = [owner |-> p1, verified |-> TRUE, meta |-> m1]]
\* Its project is in order; the other's has a broken upstream in one of the runs.
AllPlain == [p \in TwoProjects |-> Plain]
ServingTables == {[domain |-> Serving, project |-> AllPlain]}
BrokenTables == {[domain |-> Serving, project |-> [AllPlain EXCEPT ![p2] = Broken]]}
=============================================================================
