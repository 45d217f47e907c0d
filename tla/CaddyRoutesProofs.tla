-------------------------- MODULE CaddyRoutesProofs --------------------------
(***************************************************************************)
(* Traffic only goes where the owner of its hostname wanted it, and the    *)
(* edge disagrees with the control plane only about what was written since *)
(* the run whose routes it serves: for any hostnames, projects, settings   *)
(* and tables, with POSTs that arrive late.                                *)
(***************************************************************************)
EXTENDS CaddyRoutes, TLAPS

USE TablesAssumption, NobodyAssumption, BoundsAssumption

\* Entitled and UpToDate, of any histories and of any tables.
EntitledBy(h, r, pr, sa, ha) ==
    r.kind = "proxy" =>
        LET p == r.project
        IN  /\ <<h, p>> \in pr
            /\ <<h, p, r.tenant>> \in sa
            /\ \E s \in Settings :
                 /\ <<p, s>> \in ha /\ s.enabled /\ Parses(s.upstream)
                 /\ r = HostnameRoute([owner |-> p, verified |-> TRUE, meta |-> r.tenant], s)

BuiltFrom(routes, stale, ds, ps) ==
    \A h \in Hosts : \/ routes[h] = RouteOf(ds[h], ps)
                     \/ {h, ds[h].owner} \cap stale # {}

\* What holds of routes, those that are served and those that may still arrive.
RoutesSound(routes, stale, ds, ps, pr, sa, ha) ==
    /\ \A h \in Hosts : EntitledBy(h, routes[h], pr, sa, ha)
    /\ BuiltFrom(routes, stale, ds, ps)

\* The parts of IInv.
RowsSound ==
    /\ \A h \in Hosts : Sound(h, domain[h], {})
    /\ \A p \in Projects : <<p, project[p]>> \in had

RunSound ==
    /\ run.pc = "reading" => ~(run.gotDomains /\ run.gotProjects)
    /\ run.pc = "read" => run.gotDomains /\ run.gotProjects
    /\ run.pc # "idle" =>
         /\ run.gotDomains => \A h \in Hosts : Sound(h, run.domains[h], runStale)
         /\ run.gotProjects => \A p \in Projects :
              /\ <<p, run.projects[p]>> \in had
              /\ run.projects[p] = project[p] \/ p \in runStale

EdgeSound == RoutesSound(route, edgeStale, domain, project, proved, said, had)

LateSound == \A b \in late : RoutesSound(b.route, b.stale, domain, project, proved, said, had)

LEMMA Split == IInv => TypeOK /\ RowsSound /\ RunSound /\ EdgeSound /\ LateSound
BY Zenon DEF IInv, OnlyTheOwner, Entitled, UpToDate, EntitledBy, BuiltFrom, RoutesSound,
             RowsSound, RunSound, EdgeSound, LateSound

LEMMA Join == TypeOK /\ RowsSound /\ RunSound /\ EdgeSound /\ LateSound => IInv
BY Zenon DEF IInv, OnlyTheOwner, Entitled, UpToDate, EntitledBy, BuiltFrom, RoutesSound,
             RowsSound, RunSound, EdgeSound, LateSound

LEMMA JoinNext ==
    ASSUME TypeOK', RowsSound', RunSound', EdgeSound', LateSound' PROVE IInv'
BY Zenon DEF IInv, OnlyTheOwner, Entitled, UpToDate, EntitledBy, BuiltFrom, RoutesSound,
             RowsSound, RunSound, EdgeSound, LateSound

LEMMA ProxyRoute ==
    ASSUME NEW d, NEW s
    PROVE  LET r == HostnameRoute(d, s)
           IN  /\ r.kind = "proxy" /\ r.project = d.owner /\ r.tenant = d.meta
               /\ r.dial = <<s.upstream.host, Port(s.upstream)>>
               /\ r = HostnameRoute([owner |-> d.owner, verified |-> TRUE, meta |-> d.meta], s)
BY DEF HostnameRoute

LEMMA RouteCases ==
    ASSUME NEW d \in Row, NEW ps
    PROVE  /\ d.owner = Nobody \/ ~ps[d.owner].enabled => RouteOf(d, ps) = NoRoute
           /\ d.owner # Nobody /\ ps[d.owner].enabled =>
                RouteOf(d, ps) = IF d.verified THEN HostnameRoute(d, ps[d.owner]) ELSE PendingRoute
           /\ NoRoute.kind = "none" /\ PendingRoute.kind = "pending"
<1>1. d.verified \in BOOLEAN
  BY DEF Row
<1> QED BY <1>1, Zenon DEF RouteOf, NoRoute, PendingRoute

\* Histories only grow, so what is served stays accounted for.
LEMMA HistoryGrows ==
    ASSUME NEW h, NEW r, NEW pr, NEW sa, NEW ha, NEW pr2, NEW sa2, NEW ha2,
           EntitledBy(h, r, pr, sa, ha), pr \subseteq pr2, sa \subseteq sa2, ha \subseteq ha2
    PROVE  EntitledBy(h, r, pr2, sa2, ha2)
BY DEF EntitledBy

\* A write of one row, which is stale then.
LEMMA RowWritten ==
    ASSUME NEW routes, NEW stale, NEW ds \in [Hosts -> Row], NEW ps, NEW h \in Hosts, NEW d,
           NEW pr, NEW sa, NEW ha, NEW pr2, NEW sa2, pr \subseteq pr2, sa \subseteq sa2,
           RoutesSound(routes, stale, ds, ps, pr, sa, ha)
    PROVE  RoutesSound(routes, stale \cup {h}, [ds EXCEPT ![h] = d], ps, pr2, sa2, ha)
<1>1. \A g \in Hosts : EntitledBy(g, routes[g], pr2, sa2, ha)
  BY HistoryGrows DEF RoutesSound
<1>2. BuiltFrom(routes, stale \cup {h}, [ds EXCEPT ![h] = d], ps)
  BY DEF RoutesSound, BuiltFrom
<1> QED BY <1>1, <1>2 DEF RoutesSound

LEMMA ProjectWritten ==
    ASSUME NEW routes, NEW stale, NEW ds \in [Hosts -> Row], NEW ps \in [Projects -> Settings],
           NEW p \in Projects, NEW s, NEW pr, NEW sa, NEW ha, NEW ha2, ha \subseteq ha2,
           RoutesSound(routes, stale, ds, ps, pr, sa, ha)
    PROVE  RoutesSound(routes, stale \cup {p}, ds, [ps EXCEPT ![p] = s], pr, sa, ha2)
<1>1. \A g \in Hosts : EntitledBy(g, routes[g], pr, sa, ha2)
  BY HistoryGrows DEF RoutesSound
<1> DEFINE qs == [ps EXCEPT ![p] = s]
<1>2. ASSUME NEW g \in Hosts, {g, ds[g].owner} \cap (stale \cup {p}) = {}
      PROVE  routes[g] = RouteOf(ds[g], qs)
  <2>1. routes[g] = RouteOf(ds[g], ps) /\ ds[g].owner # p
    BY <1>2 DEF RoutesSound, BuiltFrom
  <2>2. ds[g].owner # Nobody => qs[ds[g].owner] = ps[ds[g].owner]
    BY <2>1 DEF Row
  <2> HIDE DEF qs
  <2> QED BY <2>1, <2>2, Zenon DEF RouteOf
<1> QED BY <1>1, <1>2 DEF RoutesSound, BuiltFrom

\* No routes at all are sound, when every row is stale.
LEMMA NoRoutes ==
    ASSUME NEW ds, NEW ps, NEW pr, NEW sa, NEW ha
    PROVE  RoutesSound([h \in Hosts |-> NoRoute], Hosts, ds, ps, pr, sa, ha)
BY DEF RoutesSound, BuiltFrom, EntitledBy, NoRoute

\* What the builder makes of a reading that is complete.
LEMMA BuiltSound ==
    ASSUME IInv, run.pc = "read", ~Throws(run.domains, run.projects)
    PROVE  RoutesSound(Built, runStale, domain, project, proved, said, had)
<1> DEFINE ds == run.domains
           ps == run.projects
<1>1. /\ run \in Run /\ ds \in [Hosts -> Row] /\ ps \in [Projects -> Settings]
      /\ domain \in [Hosts -> Row] /\ project \in [Projects -> Settings] /\ ~Throws(ds, ps)
  BY Split DEF TypeOK, Run
<1>2. /\ \A h \in Hosts : Sound(h, ds[h], runStale)
      /\ \A p \in Projects : <<p, ps[p]>> \in had /\ (ps[p] = project[p] \/ p \in runStale)
  BY <1>1, Split DEF RunSound
<1>3. \A h \in Hosts : Built[h] = RouteOf(ds[h], ps)
  BY DEF Built
<1> HIDE DEF ds, ps
<1>4. ASSUME NEW h \in Hosts, Built[h].kind = "proxy"
      PROVE  EntitledBy(h, Built[h], proved, said, had)
  <2> DEFINE d == ds[h]
             r == Built[h]
  <2>1. d \in Row /\ r = RouteOf(d, ps) /\ Sound(h, d, runStale)
    BY <1>1, <1>2, <1>3
  <2>2. d.owner # Nobody /\ ps[d.owner].enabled /\ d.verified /\ d.owner \in Projects
    <3> HIDE DEF d
    <3>1. d.owner \in Projects \cup {Nobody}
      BY <2>1 DEF Row
    <3> QED BY <1>4, <2>1, <3>1, RouteCases
  <2> DEFINE s == ps[d.owner]
  <2>3. r = HostnameRoute(d, s) /\ s \in Settings /\ <<d.owner, s>> \in had
    BY <1>1, <1>2, <2>1, <2>2, RouteCases
  <2>4. Parses(s.upstream)
    BY <1>1, <2>2 DEF Throws
  <2>5. <<h, d.owner>> \in proved /\ <<h, d.owner, d.meta>> \in said
    BY <2>1, <2>2 DEF Sound
  <2>6. s.enabled
    BY <2>2
  <2> HIDE DEF d, s
  <2>7. /\ r.project = d.owner /\ r.tenant = d.meta
        /\ r = HostnameRoute([owner |-> d.owner, verified |-> TRUE, meta |-> d.meta], s)
    BY <2>3, ProxyRoute
  <2> HIDE DEF r
  <2>8. /\ <<h, r.project>> \in proved /\ <<h, r.project, r.tenant>> \in said
        /\ <<r.project, s>> \in had /\ s \in Settings /\ s.enabled /\ Parses(s.upstream)
        /\ r = HostnameRoute([owner |-> r.project, verified |-> TRUE, meta |-> r.tenant], s)
    BY <2>3, <2>4, <2>5, <2>6, <2>7
  <2> QED BY <2>8, Zenon DEF EntitledBy, r
<1>5. \A h \in Hosts : EntitledBy(h, Built[h], proved, said, had)
  BY <1>4 DEF EntitledBy
<1>6. ASSUME NEW h \in Hosts, {h, domain[h].owner} \cap runStale = {}
      PROVE  Built[h] = RouteOf(domain[h], project)
  <2>1. ds[h] = domain[h] /\ domain[h] \in Row
    BY <1>1, <1>2, <1>6 DEF Sound
  <2>2. domain[h].owner # Nobody => ps[domain[h].owner] = project[domain[h].owner]
    BY <1>2, <1>6, <2>1 DEF Row
  <2>3. Built[h] = RouteOf(domain[h], ps)
    BY <1>3, <2>1
  <2> QED BY <2>2, <2>3, Zenon DEF RouteOf
<1> QED BY <1>5, <1>6 DEF RoutesSound, BuiltFrom

LEMMA InitInv == Init => IInv
<1> SUFFICES ASSUME Init PROVE IInv
  OBVIOUS
<1>1. domain \in [Hosts -> Row] /\ project \in [Projects -> Settings]
  BY DEF Init, Row
<1>2. TypeOK
  BY <1>1 DEF Init, TypeOK, Run
<1>3. EdgeSound
  BY NoRoutes DEF Init, EdgeSound
<1>4. RowsSound /\ RunSound /\ LateSound
  BY DEF Init, RowsSound, Sound, RunSound, LateSound
<1> QED BY <1>2, <1>3, <1>4, Join

-----------------------------------------------------------------------------
\* What a write does to the POSTs that are under way.
LEMMA LateWritten ==
    ASSUME IInv, NEW rows, late' = {[route |-> b.route, stale |-> b.stale \cup rows] : b \in late}
    PROVE  \A c \in late' : /\ c = [route |-> c.route, stale |-> c.stale] /\ DOMAIN c.route = Hosts
                            /\ \E b \in late : c.route = b.route /\ c.stale = b.stale \cup rows
<1> TAKE c \in late'
<1>1. PICK b \in late : c = [route |-> b.route, stale |-> b.stale \cup rows]
  OBVIOUS
<1>2. DOMAIN b.route = Hosts
  BY DEF IInv, TypeOK
<1>3. c.route = b.route /\ c.stale = b.stale \cup rows
  BY <1>1
<1> QED BY <1>1, <1>2, <1>3

\* A write of one row of domains.
LEMMA SetRowInv ==
    ASSUME IInv, NEW h \in Hosts, NEW d \in Row, SetRow(h, d), d.verified => d.owner # Nobody
    PROVE  IInv'
<1>1. /\ domain' = [domain EXCEPT ![h] = d] /\ domain \in [Hosts -> Row]
      /\ said \subseteq said' /\ proved \subseteq proved' /\ had' = had
      /\ project' = project /\ run' = run /\ route' = route
      /\ runStale' = runStale \cup {h} /\ edgeStale' = edgeStale \cup {h}
      /\ late' = {[route |-> b.route, stale |-> b.stale \cup {h}] : b \in late}
  BY DEF SetRow, Write, IInv, TypeOK
<1>2. <<h, d.owner, d.meta>> \in said' /\ (d.verified => <<h, d.owner>> \in proved')
  BY DEF SetRow
<1>3. TypeOK'
  BY <1>1, LateWritten DEF IInv, TypeOK, SetRow, Write
<1>4. ASSUME NEW routes, NEW stale, RoutesSound(routes, stale, domain, project, proved, said, had)
      PROVE  RoutesSound(routes, stale \cup {h}, domain', project', proved', said', had')
  <2>1. RoutesSound(routes, stale \cup {h}, [domain EXCEPT ![h] = d], project, proved', said', had)
    BY <1>1, <1>4, RowWritten
  <2> QED BY <1>1, <2>1, Zenon
<1>5. EdgeSound'
  BY <1>1, <1>4, Split DEF EdgeSound
<1>6. LateSound'
  <2> SUFFICES ASSUME NEW c \in late'
               PROVE  RoutesSound(c.route, c.stale, domain', project', proved', said', had')
    BY Zenon DEF LateSound
  <2>1. PICK b \in late : c.route = b.route /\ c.stale = b.stale \cup {h}
    BY <1>1, LateWritten
  <2>2. RoutesSound(b.route, b.stale, domain, project, proved, said, had)
    BY Split DEF LateSound
  <2>3. RoutesSound(b.route, b.stale \cup {h}, domain', project', proved', said', had')
    BY <1>4, <2>2
  <2> QED BY <2>1, <2>3
<1>7. RowsSound'
  BY <1>1, <1>2, Split DEF RowsSound, Sound
<1>8. RunSound'
  <2>1. ASSUME NEW g \in Hosts, Sound(g, run.domains[g], runStale)
        PROVE  Sound(g, run.domains[g], runStale)'
    BY <1>1, <2>1 DEF Sound
  <2> QED BY <1>1, <2>1, Split DEF RunSound
<1> QED BY <1>3, <1>5, <1>6, <1>7, <1>8, JoinNext

LEMMA SetProjectInv ==
    ASSUME IInv, NEW p \in Projects, NEW s \in Settings, SetProject(p, s)
    PROVE  IInv'
<1>1. /\ project' = [project EXCEPT ![p] = s] /\ project \in [Projects -> Settings]
      /\ had \subseteq had' /\ <<p, s>> \in had' /\ said' = said /\ proved' = proved
      /\ domain' = domain /\ run' = run /\ route' = route
      /\ runStale' = runStale \cup {p} /\ edgeStale' = edgeStale \cup {p}
      /\ late' = {[route |-> b.route, stale |-> b.stale \cup {p}] : b \in late}
      /\ domain \in [Hosts -> Row]
  BY DEF SetProject, Write, IInv, TypeOK
<1>2. TypeOK'
  BY <1>1, LateWritten DEF IInv, TypeOK, SetProject, Write
<1>3. ASSUME NEW routes, NEW stale, RoutesSound(routes, stale, domain, project, proved, said, had)
      PROVE  RoutesSound(routes, stale \cup {p}, domain', project', proved', said', had')
  <2>1. RoutesSound(routes, stale \cup {p}, domain, [project EXCEPT ![p] = s], proved, said, had')
    BY <1>1, <1>3, ProjectWritten
  <2> QED BY <1>1, <2>1, Zenon
<1>4. EdgeSound'
  BY <1>1, <1>3, Split DEF EdgeSound
<1>5. LateSound'
  <2> SUFFICES ASSUME NEW c \in late'
               PROVE  RoutesSound(c.route, c.stale, domain', project', proved', said', had')
    BY Zenon DEF LateSound
  <2>1. PICK b \in late : c.route = b.route /\ c.stale = b.stale \cup {p}
    BY <1>1, LateWritten
  <2>2. RoutesSound(b.route, b.stale, domain, project, proved, said, had)
    BY Split DEF LateSound
  <2>3. RoutesSound(b.route, b.stale \cup {p}, domain', project', proved', said', had')
    BY <1>3, <2>2
  <2> QED BY <2>1, <2>3
<1>6. RowsSound'
  BY <1>1, Split DEF RowsSound, Sound
<1>7. RunSound'
  <2>1. ASSUME NEW g \in Hosts, Sound(g, run.domains[g], runStale)
        PROVE  Sound(g, run.domains[g], runStale)'
    BY <1>1, <2>1 DEF Sound
  <2>2. ASSUME NEW q \in Projects, run.projects[q] = project[q] \/ q \in runStale
        PROVE  (run.projects[q] = project[q] \/ q \in runStale)'
    BY <1>1, <2>2
  <2> QED BY <1>1, <2>1, <2>2, Split DEF RunSound
<1> QED BY <1>2, <1>4, <1>5, <1>6, <1>7, JoinNext

-----------------------------------------------------------------------------
\* A step of a run or of Caddy: no row is written.
LEMMA QuietStep ==
    ASSUME IInv, UNCHANGED tables, run' \in Run, RunSound',
           DOMAIN route' = Hosts, EdgeSound',
           \A b \in late' : \/ b \in late
                            \/ /\ b = [route |-> b.route, stale |-> b.stale] /\ DOMAIN b.route = Hosts
                               /\ RoutesSound(b.route, b.stale, domain, project, proved, said, had)
    PROVE  IInv'
<1>1. TypeOK' /\ RowsSound'
  BY Split DEF TypeOK, tables, RowsSound, Sound
<1>2. LateSound'
  BY Split DEF LateSound, tables
<1> QED BY <1>1, <1>2, JoinNext

\* A step of a run that serves nothing new.
LEMMA RunStep ==
    ASSUME IInv, UNCHANGED <<route, late, edgeStale, tables>>, run' \in Run, RunSound'
    PROVE  IInv'
<1>1. DOMAIN route' = Hosts /\ EdgeSound'
  BY Split DEF TypeOK, EdgeSound, tables
<1> QED BY <1>1, QuietStep

LEMMA ReadDomainsInv == ASSUME IInv, ReadDomains PROVE IInv'
<1>1. /\ run \in Run /\ domain \in [Hosts -> Row]
      /\ UNCHANGED <<route, late, runStale, edgeStale, tables>>
      /\ run.pc = "reading" /\ ~run.gotDomains /\ RunSound /\ RowsSound
  BY Split DEF ReadDomains, TypeOK
<1>2. /\ run' \in Run /\ run'.gotDomains /\ run'.gotProjects = run.gotProjects
      /\ run'.domains = domain /\ run'.projects = run.projects
      /\ run'.pc = IF run.gotProjects THEN "read" ELSE "reading"
  BY <1>1 DEF ReadDomains, Run
<1>3. \A h \in Hosts : Sound(h, domain[h], runStale)
  BY <1>1 DEF RowsSound, Sound
<1>4. RunSound'
  BY <1>1, <1>2, <1>3 DEF RunSound, Sound, tables
<1> QED BY <1>1, <1>2, <1>4, RunStep

LEMMA ReadProjectsInv == ASSUME IInv, ReadProjects PROVE IInv'
<1>1. /\ run \in Run /\ project \in [Projects -> Settings]
      /\ UNCHANGED <<route, late, runStale, edgeStale, tables>>
      /\ run.pc = "reading" /\ ~run.gotProjects /\ RunSound /\ RowsSound
  BY Split DEF ReadProjects, TypeOK
<1>2. /\ run' \in Run /\ run'.gotProjects /\ run'.gotDomains = run.gotDomains
      /\ run'.projects = project /\ run'.domains = run.domains
      /\ run'.pc = IF run.gotDomains THEN "read" ELSE "reading"
  BY <1>1 DEF ReadProjects, Run
<1>3. RunSound'
  BY <1>1, <1>2 DEF RunSound, RowsSound, Sound, tables
<1> QED BY <1>1, <1>2, <1>3, RunStep

\* A run is over.
LEMMA Over ==
    ASSUME IInv, run' = [run EXCEPT !.pc = "idle"] PROVE run' \in Run /\ RunSound'
<1>1. run' \in Run /\ run'.pc = "idle"
  BY Split DEF TypeOK, Run
<1> QED BY <1>1 DEF RunSound

LEMMA PushInv == ASSUME IInv, Push PROVE IInv'
<1>1. /\ RoutesSound(Built, runStale, domain, project, proved, said, had)
      /\ route' = Built /\ edgeStale' = runStale
      /\ run' = [run EXCEPT !.pc = "idle"] /\ UNCHANGED <<late, tables>>
  BY BuiltSound DEF Push
<1>2. DOMAIN route' = Hosts /\ EdgeSound'
  BY <1>1 DEF Built, EdgeSound, tables
<1> QED BY <1>1, <1>2, Over, QuietStep

LEMMA PostCutOffInv == ASSUME IInv, PostCutOff PROVE IInv'
<1> DEFINE b == [route |-> Built, stale |-> runStale]
<1>1. /\ RoutesSound(Built, runStale, domain, project, proved, said, had)
      /\ run' = [run EXCEPT !.pc = "idle"] /\ late' = late \cup {b}
      /\ UNCHANGED <<route, edgeStale, tables>>
  BY BuiltSound DEF PostCutOff
<1>2. b.route = Built /\ b.stale = runStale /\ DOMAIN Built = Hosts
  BY DEF Built
<1>3. DOMAIN route' = Hosts /\ EdgeSound'
  BY <1>1, Split DEF TypeOK, EdgeSound, tables
<1> HIDE DEF b
<1>4. b = [route |-> b.route, stale |-> b.stale]
  BY DEF b
<1> QED BY <1>1, <1>2, <1>3, <1>4, Over, QuietStep

\* A POST that comes late was built from a reading, as any other.
LEMMA LatePostInv == ASSUME IInv, NEW b \in late, LatePost(b) PROVE IInv'
<1>1. /\ run' = run /\ runStale' = runStale /\ UNCHANGED tables
      /\ route' = b.route /\ edgeStale' = b.stale /\ late' \subseteq late
  BY DEF LatePost
<1>2. run' \in Run /\ RunSound'
  BY <1>1, Split DEF TypeOK, RunSound, Sound, tables
<1>3. DOMAIN route' = Hosts /\ EdgeSound'
  BY <1>1, Split DEF TypeOK, LateSound, EdgeSound, tables
<1> QED BY <1>1, <1>2, <1>3, QuietStep

LEMMA CaddyfileLoadInv == ASSUME IInv, CaddyfileLoad PROVE IInv'
<1>1. /\ run' = run /\ runStale' = runStale /\ late' = late /\ UNCHANGED tables
      /\ route' = [h \in Hosts |-> NoRoute] /\ edgeStale' = Hosts
  BY DEF CaddyfileLoad
<1>2. run' \in Run /\ RunSound'
  BY <1>1, Split DEF TypeOK, RunSound, Sound, tables
<1>3. DOMAIN route' = Hosts /\ EdgeSound'
  BY <1>1, NoRoutes DEF EdgeSound
<1> QED BY <1>1, <1>2, <1>3, QuietStep

LEMMA StepInv == IInv /\ [Next]_vars => IInv'
<1> SUFFICES ASSUME IInv, [Next]_vars PROVE IInv'
  OBVIOUS
<1>0. domain \in [Hosts -> Row] /\ run \in Run /\ RunSound
  BY Split DEF TypeOK
<1>1. ASSUME NEW h \in Hosts, NEW p \in Projects, NEW m \in Metas, Register(h, p, m) PROVE IInv'
  <2> DEFINE d == [owner |-> p, verified |-> FALSE, meta |-> m]
  <2>1. d \in Row /\ ~d.verified
    BY DEF Row
  <2> QED BY <1>1, <2>1, SetRowInv DEF Register
<1>2. ASSUME NEW h \in Hosts, NEW p \in Projects, NEW m \in Metas, Resave(h, p, m) PROVE IInv'
  <2>1. PICK v \in BOOLEAN : SetRow(h, [owner |-> p, verified |-> v, meta |-> m])
    BY <1>2 DEF Resave
  <2> DEFINE d == [owner |-> p, verified |-> v, meta |-> m]
  <2>2. d \in Row /\ d.owner # Nobody
    BY NobodyAssumption DEF Row
  <2> HIDE DEF d
  <2> QED BY <2>1, <2>2, SetRowInv DEF d
<1>3. ASSUME NEW h \in Hosts, Verify(h) PROVE IInv'
  <2> DEFINE d == [domain[h] EXCEPT !.verified = TRUE]
  <2>1. d \in Row /\ d.owner # Nobody
    BY <1>0, <1>3 DEF Row, Verify
  <2> QED BY <1>3, <2>1, SetRowInv DEF Verify
<1>4. ASSUME NEW h \in Hosts, Remove(h) PROVE IInv'
  <2>1. NoRow \in Row /\ ~NoRow.verified
    BY DEF NoRow, Row
  <2> QED BY <1>4, <2>1, SetRowInv DEF Remove
<1>5. ASSUME NEW p \in Projects, NEW s \in Settings, SetProject(p, s) PROVE IInv'
  BY <1>5, SetProjectInv
<1>6. CASE StartRun
  <2>1. run' \in Run /\ run'.pc = "reading" /\ ~run'.gotDomains /\ ~run'.gotProjects
    BY <1>0, <1>6 DEF StartRun, Run
  <2>2. RunSound'
    BY <2>1 DEF RunSound
  <2> QED BY <1>6, <2>1, <2>2, RunStep DEF StartRun
<1>7. CASE RunFails
  BY <1>7, Over, RunStep DEF RunFails
<1>8. CASE UNCHANGED vars
  <2>1. UNCHANGED <<route, late, edgeStale, tables>> /\ run' = run /\ runStale' = runStale
    BY <1>8 DEF vars, tables
  <2>2. RunSound'
    BY <1>0, <2>1 DEF RunSound, Sound, tables
  <2> QED BY <1>0, <2>1, <2>2, RunStep
<1> QED BY <1>1, <1>2, <1>3, <1>4, <1>5, <1>6, <1>7, <1>8, ReadDomainsInv, ReadProjectsInv, PushInv,
           PostCutOffInv, LatePostInv, CaddyfileLoadInv DEF Next

-----------------------------------------------------------------------------
\* IInv is an invariant: what a run has read was true, and is still true of every row
\* not written since.
THEOREM Invariance == Spec => []IInv
<1> QED BY InitInv, StepInv, PTL DEF Spec

\* Traffic of a hostname only goes where a project wanted it that had verified it,
\* POSTs that come late included.
THEOREM TenantsApart == Spec => []OnlyTheOwner
<1>1. IInv => OnlyTheOwner
  BY DEF IInv
<1> QED BY Invariance, <1>1, PTL

\* Builder, lookup() and resolve() agree, but for rows written since the run began whose
\* routes are served.
THEOREM OneView == Spec => []BehindOnlyByWrites
<1>1. ASSUME IInv, NEW h \in Hosts, route[h] = RouteOf(domain[h], project) PROVE Agrees(h)
  <2> DEFINE d == domain[h]
             s == project[d.owner]
  <2>1. d \in Row
    BY <1>1, Split DEF TypeOK
  <2>2. d.verified \in BOOLEAN
    BY <2>1 DEF Row
  <2>3. CASE ~Found(h)
    BY <1>1, <2>1, <2>3, RouteCases DEF Agrees, CheckHostname, Found
  <2>4. CASE Found(h) /\ ~d.verified
    BY <1>1, <2>1, <2>4, RouteCases DEF Agrees, CheckHostname, Found
  <2>5. CASE Found(h) /\ d.verified
    <3>1. route[h] = HostnameRoute(d, s)
      BY <1>1, <2>1, <2>5, RouteCases DEF Found
    <3>2. /\ route[h].kind = "proxy" /\ route[h].project = d.owner /\ route[h].tenant = d.meta
          /\ route[h].dial = <<s.upstream.host, Port(s.upstream)>>
      <4> HIDE DEF d, s
      <4>1. /\ HostnameRoute(d, s).kind = "proxy" /\ HostnameRoute(d, s).project = d.owner
            /\ HostnameRoute(d, s).tenant = d.meta
            /\ HostnameRoute(d, s).dial = <<s.upstream.host, Port(s.upstream)>>
        BY ProxyRoute, Zenon
      <4> QED BY <3>1, <4>1, Zenon
    <3>3. route[h] # NoRoute
      BY <3>2, <2>1, RouteCases
    <3>4. Resolve(h).project = d.owner /\ Resolve(h).tenant = d.meta
          /\ Resolve(h).upstream = s.upstream
      BY DEF Resolve
    <3> DEFINE r == Resolve(h)
    <3> HIDE DEF s, r
    <3>5. /\ route[h].project = r.project /\ route[h].tenant = r.tenant
          /\ route[h].dial = <<r.upstream.host, Port(r.upstream)>>
      BY <3>2, <3>4 DEF r
    <3> QED BY <2>5, <3>2, <3>3, <3>5, Zenon DEF Agrees, CheckHostname, r
  <2> QED BY <2>2, <2>3, <2>4, <2>5
<1>2. IInv => BehindOnlyByWrites
  BY <1>1 DEF IInv, UpToDate, BehindOnlyByWrites
<1> QED BY Invariance, <1>2, PTL
=============================================================================
