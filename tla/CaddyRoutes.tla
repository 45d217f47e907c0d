----------------------------- MODULE CaddyRoutes -----------------------------
(***************************************************************************)
(* From the rows of two tables to what the edge does with a hostname:      *)
(* caddy-config.builder.ts on what a reconcile run has read, next to the   *)
(* control plane's own view of a hostname, lookup(), resolve() and the TLS *)
(* ask hook.  How runs start and join is CaddyReconciler's subject; here   *)
(* there is one run after the other, but a POST that was cut off may arrive *)
(* during a later one.                                                     *)
(***************************************************************************)
EXTENDS Integers, FiniteSets

CONSTANTS
    Hosts,
    Projects,
    Metas,       \* metadata of a domain
    Settings,    \* the rows a project may have
    Upstreams,   \* stored URLs: scheme, host and port, 0 where none is given
    Names,       \* hostnames of upstreams and values of Host headers
    Nobody,      \* no row holds the hostname
    Null,        \* a nullable column
    Preserve,    \* the placeholder {http.request.host}
    Tables,      \* what the two tables may hold at the start
    MaxWrites,   \* bound: committed writes
    MaxLate      \* bound: POSTs that were cut off and may still arrive, at a time

ASSUME UpstreamsAssumption ==
    Upstreams \subseteq [scheme : {"http", "https", "ftp"}, host : Names, port : Nat]
ASSUME SettingsAssumption ==
    Settings \subseteq [upstream : Upstreams, upstreamHost : Names \cup {Null},
                        mode : {"preserve", "rewrite_to_upstream", "static"},
                        value : Names \cup {Null}, rps : Nat, enabled : BOOLEAN]
ASSUME TablesAssumption ==
    Tables \subseteq [domain : [Hosts -> [owner : Projects \cup {Nobody}, verified : BOOLEAN,
                                        meta : Metas \cup {Null}]],
                     project : [Projects -> Settings]]
ASSUME NobodyAssumption ==
    Nobody \notin Projects /\ Null \notin Names /\ Null \notin Metas
ASSUME BoundsAssumption == MaxWrites \in Nat /\ MaxLate \in Nat

VARIABLES
    domain,    \* the active rows of the domains table
    project,   \* the projects table
    run,       \* the reconcile run: what it has read
    route,     \* the customer routes Caddy serves
    late,      \* POSTs that were cut off: their routes, and the rows written since
               \* their run began
    writes,    \* writes committed so far
    proved, said, had,      \* history: who verified what, metadata, settings
    runStale, edgeStale     \* history: rows written since the run began, and since
                            \* the run began whose routes are served

tables == <<domain, project, writes, proved, said, had>>
vars == <<domain, project, run, route, late, writes, proved, said, had, runStale, edgeStale>>

-----------------------------------------------------------------------------
Row == [owner : Projects \cup {Nobody}, verified : BOOLEAN, meta : Metas \cup {Null}]
NoRow == [owner |-> Nobody, verified |-> FALSE, meta |-> Null]

(***************************************************************************)
(* caddy-config.builder.ts                                                 *)
(***************************************************************************)

\* parseUpstream: the validation of the DTOs lets ftp through, the builder does not.
Parses(u) == u.scheme \in {"http", "https"}

Port(u) == IF u.port # 0 THEN u.port ELSE IF u.scheme = "https" THEN 443 ELSE 80

\* The Host header: a static mode without a value, and upstreamHost in any mode but
\* one, count for nothing.
ResolveHostHeader(s) ==
    CASE s.mode = "static" /\ s.value # Null -> s.value
      [] s.mode = "rewrite_to_upstream" ->
           IF s.upstreamHost # Null THEN s.upstreamHost ELSE s.upstream.host
      [] OTHER -> Preserve

Burst(rps) == IF 2 * rps > 10 THEN 2 * rps ELSE 10

NoRoute == [kind |-> "none"]
PendingRoute == [kind |-> "pending"]

\* A limit of 0 stands for no rate_limit handler, a server name Null for no TLS.
HostnameRoute(d, s) ==
    [kind |-> "proxy", project |-> d.owner, tenant |-> d.meta,
     host |-> ResolveHostHeader(s),
     dial |-> <<s.upstream.host, Port(s.upstream)>>,
     serverName |-> IF s.upstream.scheme = "https" THEN s.upstream.host ELSE Null,
     limit |-> IF s.rps > 0 THEN <<s.rps, Burst(s.rps)>> ELSE <<0, 0>>]

\* Mutant of RouteOf: pending domains are proxied like the others.
RouteOfUngated(d, ps) ==
    IF d.owner = Nobody THEN NoRoute
    ELSE IF ~ps[d.owner].enabled THEN NoRoute
    ELSE HostnameRoute(d, ps[d.owner])

\* One pass of the loop of buildCustomerRoutes.
RouteOf(d, ps) ==
    IF d.owner = Nobody THEN NoRoute
    ELSE IF ~ps[d.owner].enabled THEN NoRoute
    ELSE IF d.verified THEN HostnameRoute(d, ps[d.owner])
    ELSE PendingRoute

\* The loop throws at the first upstream it cannot parse.
Throws(ds, ps) ==
    \E h \in Hosts : /\ ds[h].owner # Nobody /\ ds[h].verified
                     /\ ps[ds[h].owner].enabled /\ ~Parses(ps[ds[h].owner].upstream)

(***************************************************************************)
(* The control plane's view: DomainsService.lookup() and EdgeController.   *)
(***************************************************************************)
Found(h) == domain[h].owner # Nobody /\ project[domain[h].owner].enabled

\* /_check-hostname lets Caddy obtain a certificate.
CheckHostname(h) == Found(h)

\* /v1/edge/resolve: what the hostname leads to.
Resolve(h) == LET p == domain[h].owner
              IN  [project |-> p, upstream |-> project[p].upstream,
                   upstreamHost |-> project[p].upstreamHost, tenant |-> domain[h].meta]

-----------------------------------------------------------------------------
Run == [pc : {"idle", "reading", "read"}, gotDomains : BOOLEAN, gotProjects : BOOLEAN,
        domains : [Hosts -> Row], projects : [Projects -> Settings]]

TypeOK ==
    /\ domain \in [Hosts -> Row]
    /\ project \in [Projects -> Settings]
    /\ DOMAIN route = Hosts
    /\ \A b \in late : b = [route |-> b.route, stale |-> b.stale] /\ DOMAIN b.route = Hosts
    /\ run \in Run
    /\ writes \in Nat

\* The control plane boots: nothing has been pushed.
Init ==
    /\ \E t \in Tables : domain = t.domain /\ project = t.project
    /\ run = [pc |-> "idle", gotDomains |-> FALSE, gotProjects |-> FALSE,
              domains |-> domain, projects |-> project]
    /\ route = [h \in Hosts |-> NoRoute]
    /\ late = {}
    /\ writes = 0
    /\ proved = {<<h, domain[h].owner>> : h \in {g \in Hosts : domain[g].verified}}
    /\ said = {<<h, domain[h].owner, domain[h].meta>> : h \in Hosts}
    /\ had = {<<p, project[p]>> : p \in Projects}
    /\ runStale = {} /\ edgeStale = Hosts

-----------------------------------------------------------------------------
(***************************************************************************)
(* Writes, by the token API, the portal, the prober and by hand.  Those of *)
(* the portal and the prober, and those by hand, do not ask for a          *)
(* reconcile; nor does anything here: a run may start at any moment.       *)
(***************************************************************************)
Write(rows) ==
    /\ writes < MaxWrites
    /\ writes' = writes + 1
    /\ runStale' = runStale \cup rows
    /\ edgeStale' = edgeStale \cup rows
    /\ late' = {[route |-> b.route, stale |-> b.stale \cup rows] : b \in late}
    /\ UNCHANGED <<run, route>>

SetRow(h, d) ==
    /\ Write({h})
    /\ domain' = [domain EXCEPT ![h] = d]
    /\ said' = said \cup {<<h, d.owner, d.meta>>}
    /\ proved' = IF d.verified THEN proved \cup {<<h, d.owner>>} ELSE proved
    /\ UNCHANGED <<project, had>>

\* register(), registerDomain(): the row is new.
Register(h, p, m) ==
    /\ domain[h].owner = Nobody
    /\ SetRow(h, [owner |-> p, verified |-> FALSE, meta |-> m])

\* They have found the project's own row, and save the whole of it with the metadata
\* they were given: a copy older than its removal, or than a write of verified (what
\* it may have said, proved remembers), unless the index refuses it.
Resave(h, p, m) ==
    /\ domain[h].owner = p \/ (domain[h].owner = Nobody /\ <<h, p>> \in proved)
    /\ \E verified \in BOOLEAN :
         /\ verified => <<h, p>> \in proved
         /\ domain[h] # [owner |-> p, verified |-> verified, meta |-> m]
         /\ SetRow(h, [owner |-> p, verified |-> verified, meta |-> m])

\* The prober finds the records.
Verify(h) ==
    /\ domain[h].owner # Nobody /\ ~domain[h].verified
    /\ SetRow(h, [domain[h] EXCEPT !.verified = TRUE])

\* remove(), removeDomain().
Remove(h) ==
    /\ domain[h].owner # Nobody
    /\ SetRow(h, NoRow)

\* updateProject() sets the upstream; the columns of the limit, the mode and the kill
\* switch are only written by hand.
SetProject(p, s) ==
    /\ project[p] # s
    /\ Write({p})
    /\ project' = [project EXCEPT ![p] = s]
    /\ had' = had \cup {<<p, s>>}
    /\ UNCHANGED <<domain, proved, said>>

-----------------------------------------------------------------------------
(***************************************************************************)
(* CaddyReconcilerService.doReconcile().                                   *)
(***************************************************************************)
StartRun ==
    /\ run.pc = "idle"
    /\ run' = [run EXCEPT !.pc = "reading", !.gotDomains = FALSE, !.gotProjects = FALSE]
    /\ runStale' = {}
    /\ UNCHANGED <<route, late, edgeStale, tables>>

\* Promise.all: the two queries are answered in any order.
ReadDomains ==
    /\ run.pc = "reading" /\ ~run.gotDomains
    /\ run' = [run EXCEPT !.gotDomains = TRUE, !.domains = domain,
                          !.pc = IF run.gotProjects THEN "read" ELSE "reading"]
    /\ UNCHANGED <<route, late, runStale, edgeStale, tables>>

\* Mutant of ReadProjects: projects are kept from the first run on.
ReadProjectsOnce ==
    /\ run.pc = "reading" /\ ~run.gotProjects
    /\ run' = [run EXCEPT !.gotProjects = TRUE,
                          !.pc = IF run.gotDomains THEN "read" ELSE "reading"]
    /\ UNCHANGED <<route, late, runStale, edgeStale, tables>>

ReadProjects ==
    /\ run.pc = "reading" /\ ~run.gotProjects
    /\ run' = [run EXCEPT !.gotProjects = TRUE, !.projects = project,
                          !.pc = IF run.gotDomains THEN "read" ELSE "reading"]
    /\ UNCHANGED <<route, late, runStale, edgeStale, tables>>

\* Mutant of Push: routes are added and replaced, never taken away.
PushMerging ==
    /\ run.pc = "read" /\ ~Throws(run.domains, run.projects)
    /\ route' = [h \in Hosts |->
                   LET r == RouteOf(run.domains[h], run.projects)
                   IN  IF r = NoRoute THEN route[h] ELSE r]
    /\ run' = [run EXCEPT !.pc = "idle"]
    /\ edgeStale' = runStale
    /\ UNCHANGED <<late, runStale, tables>>

\* What the builder makes of what the run has read.
Built == [h \in Hosts |-> RouteOf(run.domains[h], run.projects)]

\* Every route of ours is replaced.
Push ==
    /\ run.pc = "read" /\ ~Throws(run.domains, run.projects)
    /\ route' = Built
    /\ run' = [run EXCEPT !.pc = "idle"]
    /\ edgeStale' = runStale
    /\ UNCHANGED <<late, runStale, tables>>

\* A query, the builder, the GET or the POST fails, or the process dies: whichever it
\* is, the run has done nothing.  (Push also stands for one that Caddy has applied
\* and whose answer is lost.)
RunFails ==
    /\ run.pc = "read"
    /\ run' = [run EXCEPT !.pc = "idle"]
    /\ UNCHANGED <<route, late, runStale, edgeStale, tables>>

\* The POST is cut off, or its sender dies, and Caddy may still apply it, ...
PostCutOff ==
    /\ run.pc = "read" /\ ~Throws(run.domains, run.projects)
    /\ Cardinality(late) < MaxLate
    /\ late' = late \cup {[route |-> Built, stale |-> runStale]}
    /\ run' = [run EXCEPT !.pc = "idle"]
    /\ UNCHANGED <<route, runStale, edgeStale, tables>>

\* ... at any later time.
LatePost(b) ==
    /\ b \in late
    /\ late' = late \ {b}
    /\ route' = b.route
    /\ edgeStale' = b.stale
    /\ UNCHANGED <<run, runStale, tables>>

\* A Caddyfile is loaded: no customer route is left.
CaddyfileLoad ==
    /\ route' = [h \in Hosts |-> NoRoute]
    /\ edgeStale' = Hosts
    /\ UNCHANGED <<run, late, runStale, tables>>

-----------------------------------------------------------------------------
Next ==
    \/ \E h \in Hosts, p \in Projects, m \in Metas : Register(h, p, m) \/ Resave(h, p, m)
    \/ \E h \in Hosts : Verify(h) \/ Remove(h)
    \/ \E p \in Projects, s \in Settings : SetProject(p, s)
    \/ StartRun \/ ReadDomains \/ ReadProjects \/ Push \/ RunFails \/ PostCutOff
    \/ CaddyfileLoad \/ \E b \in late : LatePost(b)

\* The drift check starts a run every ten minutes, its queries are answered, and what
\* can be pushed does not fail for ever.
Fairness ==
    /\ WF_vars(StartRun) /\ WF_vars(ReadDomains) /\ WF_vars(ReadProjects)
    /\ WF_vars(Push \/ RunFails) /\ SF_vars(Push)

Spec == Init /\ [][Next]_vars /\ Fairness

-----------------------------------------------------------------------------
(***************************************************************************)
(* Safety.                                                                 *)
(***************************************************************************)

\* What the edge does with h is what the control plane says of it, certificate,
\* upstream and tenant.
Agrees(h) ==
    /\ CheckHostname(h) <=> route[h] # NoRoute
    /\ Found(h) => IF ~domain[h].verified THEN route[h] = PendingRoute
                   ELSE LET r == Resolve(h)
                        IN  /\ route[h].kind = "proxy" /\ route[h].project = r.project
                            /\ route[h].tenant = r.tenant
                            /\ route[h].dial = <<r.upstream.host, Port(r.upstream)>>

\* "One route per hostname ... to the owning project's upstreamUrl": traffic of a
\* hostname only ever goes where a project wanted it which had that hostname verified
\* and was enabled then, with metadata that project had given it, although the two
\* queries see different moments, both tables change during the run, and a POST may
\* arrive long after it.
Entitled(h, r) ==
    r.kind = "proxy" =>
        LET p == r.project
        IN  /\ <<h, p>> \in proved
            /\ <<h, p, r.tenant>> \in said
            /\ \E s \in Settings :
                 /\ <<p, s>> \in had /\ s.enabled /\ Parses(s.upstream)
                 /\ r = HostnameRoute([owner |-> p, verified |-> TRUE, meta |-> r.tenant], s)
OnlyTheOwner == \A h \in Hosts : Entitled(h, route[h])

\* The edge and the control plane disagree about a hostname only if its row, or the
\* row of the project that has it, was written after the run began whose routes are
\* served, be they those of a POST that came late.
BehindOnlyByWrites ==
    \A h \in Hosts : Agrees(h) \/ {h, domain[h].owner} \cap edgeStale # {}

\* The inductive invariant behind them.  What a run has read was true, is still true
\* unless written since, and what is served, or may still arrive, was built from such
\* a reading.
UpToDate(routes, stale) ==
    \A h \in Hosts : \/ routes[h] = RouteOf(domain[h], project)
                     \/ {h, domain[h].owner} \cap stale # {}

Sound(h, d, stale) ==
    /\ d.owner # Nobody => <<h, d.owner, d.meta>> \in said
    /\ d.owner # Nobody /\ d.verified => <<h, d.owner>> \in proved
    /\ d = domain[h] \/ h \in stale

IInv ==
    /\ TypeOK
    /\ OnlyTheOwner
    /\ \A h \in Hosts : Sound(h, domain[h], {})
    /\ \A p \in Projects : <<p, project[p]>> \in had
    /\ run.pc = "reading" => ~(run.gotDomains /\ run.gotProjects)
    /\ run.pc = "read" => run.gotDomains /\ run.gotProjects
    /\ run.pc # "idle" =>
         /\ run.gotDomains => \A h \in Hosts : Sound(h, run.domains[h], runStale)
         /\ run.gotProjects => \A p \in Projects :
              /\ <<p, run.projects[p]>> \in had
              /\ run.projects[p] = project[p] \/ p \in runStale
    /\ UpToDate(route, edgeStale)
    /\ \A b \in late : /\ \A h \in Hosts : Entitled(h, b.route[h])
                      /\ UpToDate(b.route, b.stale)

(***************************************************************************)
(* Liveness.                                                               *)
(***************************************************************************)

\* "a missed reconcile due to a transient admin-API error", "a direct DB update made
\* without triggering": whatever was missed, the edge catches up with the tables, as
\* long as they can be built from.
EdgeCatchesUp ==
    \A h \in Hosts : []<>(Throws(domain, project) \/ Agrees(h))

\* docs concepts/projects.md:55 "Upstream can be updated anytime ... Changes take
\* effect within ~30 seconds", of every project whose own upstream is good.
ChangesTakeEffect ==
    \A h \in Hosts :
        []<>(\/ Agrees(h)
             \/ Found(h) /\ ~Parses(project[domain[h].owner].upstream))
=============================================================================
