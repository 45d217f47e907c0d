-------------------------- MODULE CaddyReconciler --------------------------
(***************************************************************************)
(* CaddyReconcilerService: how the customer routes in Caddy's server       *)
(* config follow the domains and projects tables.                          *)
(*                                                                         *)
(* A caller of reconcile() starts a run of doReconcile() when none is in   *)
(* flight and joins the run in flight otherwise.  A run reads the two      *)
(* tables with two independent queries, builds the routes, GETs the server *)
(* config, and POSTs it back with its routes replaced.  The node process   *)
(* is single threaded, so a step is what happens between two awaits; the   *)
(* database, Caddy and an operator act between any two steps.              *)
(*                                                                         *)
(* Data: a database table is the number of writes committed to it, and the *)
(* part of the server config the Caddyfile owns (listeners, its own        *)
(* routes) is the number of Caddyfile loads it comes from.                 *)
(***************************************************************************)
EXTENDS Integers

CONSTANTS
    Handlers,     \* request handlers and verify probes: they write, then reconcile
    Runs,         \* identities of doReconcile() runs
    NoRun,        \* this.inflight === null
    LatePosts,    \* may Caddy still apply a POST whose sender is gone?
    MaxVersion,   \* bound: writes per table
    MaxReloads,   \* bound: Caddyfile loads after the first
    MaxCrashes    \* bound: crashes of the control plane

ASSUME CallersAssumption == {"drift", "boot"} \cap Handlers = {}
ASSUME RunsAssumption == NoRun \notin Runs
ASSUME LatePostsAssumption == LatePosts \in BOOLEAN
ASSUME BoundsAssumption ==
    MaxVersion \in Nat /\ MaxReloads \in Nat /\ MaxCrashes \in Nat

VARIABLES
    db,           \* versions committed in Postgres
    unparsable,   \* projects versions whose upstreams make buildCustomerRoutes throw
    control,      \* the control-plane process: "down", "booting" or "up"
    inflight,     \* this.inflight: the run callers join, or NoRun
    runs,         \* the local state of every run
    call,         \* the state of every caller of reconcile()
    edge,         \* Caddy's server config
    late,         \* POST bodies that outlived the run that sent them
    loads,        \* the last Caddyfile load
    crashes,      \* crashes so far
    published     \* history: the newest versions Caddy was ever given in order

vars == <<db, unparsable, control, inflight, runs, call, edge, late, loads, crashes, published>>

-----------------------------------------------------------------------------
Tables == {"domains", "projects"}
Versions == [Tables -> Nat]
Zero == [t \in Tables |-> 0]
Upto(a, b) == \A t \in Tables : a[t] <= b[t]

\* A query that has not answered yet.
Unread == -1

Callers == Handlers \cup {"drift", "boot"}

\* A server config: the versions its customer routes were built from, and
\* the Caddyfile load its other fields come from.
Config == [table : Versions, foreign : Nat]

\* A run of doReconcile().  "since" is history: what was committed when it started.
Run == [pc : {"off", "reading", "posting", "settling"},
        read : [Tables -> Nat \cup {Unread}],
        foreign : Nat,
        ok : BOOLEAN,
        since : Versions]

Off == [pc |-> "off", read |-> [t \in Tables |-> Unread], foreign |-> 0,
        ok |-> FALSE, since |-> Zero]

\* A caller: "committed" has written its rows and not called reconcile() yet.
\* "asked" is history: what was committed when it called.
Call == [pc : {"idle", "committed", "waiting"},
         on : Runs \cup {NoRun},
         asked : Versions]

Idle == [pc |-> "idle", on |-> NoRun, asked |-> Zero]

AllRead(r) == \A t \in Tables : runs[r].read[t] # Unread

\* The request body of run r: its customer routes, and the rest of the server
\* config as the GET returned it.
Body(r) == [table |-> runs[r].read, foreign |-> runs[r].foreign]

Posting == {r \in Runs : runs[r].pc = "posting"}

TypeOK ==
    /\ db \in Versions
    /\ unparsable \in SUBSET Nat
    /\ control \in {"down", "booting", "up"}
    /\ inflight \in Runs \cup {NoRun}
    /\ runs \in [Runs -> Run]
    /\ call \in [Callers -> Call]
    /\ edge \in Config
    /\ late \in SUBSET Config
    /\ loads \in Nat
    /\ crashes \in Nat
    /\ published \in Versions

Init ==
    /\ db = Zero
    /\ unparsable = {}
    /\ control = "down"
    /\ inflight = NoRun
    /\ runs = [r \in Runs |-> Off]
    /\ call = [c \in Callers |-> Idle]
    /\ edge = [table |-> Zero, foreign |-> 0]
    /\ late = {}
    /\ loads = 0
    /\ crashes = 0
    /\ published = Zero

-----------------------------------------------------------------------------
(***************************************************************************)
(* Writes.                                                                 *)
(***************************************************************************)

\* One committed write to table t.  A write to projects may leave an upstream
\* that parseUpstream rejects on a project that routes verified domains.
Write(t) ==
    /\ db[t] < MaxVersion
    /\ db' = [db EXCEPT ![t] = @ + 1]
    /\ \/ UNCHANGED unparsable
       \/ /\ t = "projects"
          /\ unparsable' = unparsable \cup {db[t] + 1}

\* register(), remove(), a verifying probe, ProjectsService.create(): the row
\* is committed; the call of reconcile() comes when the await returns.  (While
\* the process boots, the crons already run.)
Commit(c) ==
    /\ control # "down"
    /\ call[c].pc = "idle"
    /\ \E t \in Tables : Write(t)
    /\ call' = [call EXCEPT ![c].pc = "committed"]
    /\ UNCHANGED <<control, inflight, runs, edge, late, loads, crashes, published>>

\* The writes nothing follows with a reconcile: portal updateProject,
\* registerDomain and removeDomain, the metadata update of a re-registration,
\* and a direct database update.
QuietCommit ==
    /\ \E t \in Tables : Write(t)
    /\ UNCHANGED <<control, inflight, runs, call, edge, late, loads, crashes, published>>

-----------------------------------------------------------------------------
(***************************************************************************)
(* reconcile()                                                             *)
(***************************************************************************)

Await(c, r) == call' = [call EXCEPT ![c] = [pc |-> "waiting", on |-> r, asked |-> db]]

\* if (this.inflight) { await this.inflight; return; }
Join(c) ==
    /\ inflight # NoRun
    /\ Await(c, inflight)
    /\ UNCHANGED <<inflight, runs>>

\* Mutant of Start: the inflight check is missing.
StartUnchecked(c) ==
    \E r \in Runs :
        /\ runs[r].pc = "off"
        /\ inflight' = r
        /\ runs' = [runs EXCEPT ![r] = [Off EXCEPT !.pc = "reading", !.since = db]]
        /\ Await(c, r)

\* this.inflight = this.doReconcile().finally(...): both queries are sent.
Start(c) ==
    /\ inflight = NoRun
    /\ \E r \in Runs :
        /\ runs[r].pc = "off"
        /\ inflight' = r
        /\ runs' = [runs EXCEPT ![r] = [Off EXCEPT !.pc = "reading", !.since = db]]
        /\ Await(c, r)

Reconcile(c) == Join(c) \/ Start(c)

\* The continuation of a handler that has committed its rows.
HandlerReconciles(c) ==
    /\ call[c].pc = "committed"
    /\ Reconcile(c)
    /\ UNCHANGED <<db, unparsable, control, edge, late, loads, crashes, published>>

\* Mutant of DriftCheck: nothing is pushed when nothing was written since the
\* last push.
DriftCheckLazy ==
    /\ control # "down"
    /\ call["drift"].pc = "idle"
    /\ ~Upto(db, published)
    /\ Reconcile("drift")
    /\ UNCHANGED <<db, unparsable, control, edge, late, loads, crashes, published>>

\* The ten-minute cron.
DriftCheck ==
    /\ control # "down"
    /\ call["drift"].pc = "idle"
    /\ Reconcile("drift")
    /\ UNCHANGED <<db, unparsable, control, edge, late, loads, crashes, published>>

\* onApplicationBootstrap: requests are served once it has returned.
BootReconcile ==
    /\ control = "down"
    /\ control' = "booting"
    /\ Reconcile("boot")
    /\ UNCHANGED <<db, unparsable, edge, late, loads, crashes, published>>

\* The ping failed: no boot reconcile.
BootSkip ==
    /\ control = "down"
    /\ control' = "up"
    /\ UNCHANGED <<db, unparsable, inflight, runs, call, edge, late, loads, crashes, published>>

-----------------------------------------------------------------------------
(***************************************************************************)
(* doReconcile()                                                           *)
(***************************************************************************)

\* Mutant of ReadTable: the rows come from a cache of what was last pushed.
ReadCached(r, t) ==
    /\ runs[r].pc = "reading"
    /\ runs[r].read[t] = Unread
    /\ runs' = [runs EXCEPT ![r].read[t] = published[t]]
    /\ UNCHANGED <<db, unparsable, control, inflight, call, edge, late, loads, crashes, published>>

\* Mutant of ReadTable: the query sees a write that is not committed yet.
ReadUncommitted(r, t) ==
    /\ runs[r].pc = "reading"
    /\ runs[r].read[t] = Unread
    /\ \E dirty \in {0, 1} : runs' = [runs EXCEPT ![r].read[t] = db[t] + dirty]
    /\ UNCHANGED <<db, unparsable, control, inflight, call, edge, late, loads, crashes, published>>

\* One of the two queries answers.
ReadTable(r, t) ==
    /\ runs[r].pc = "reading"
    /\ runs[r].read[t] = Unread
    /\ runs' = [runs EXCEPT ![r].read[t] = db[t]]
    /\ UNCHANGED <<db, unparsable, control, inflight, call, edge, late, loads, crashes, published>>

\* Mutant of GetServer: the server object is the one the process has fetched first.
GetServerOnce(r) ==
    /\ runs[r].pc = "reading"
    /\ AllRead(r)
    /\ runs[r].read["projects"] \notin unparsable
    /\ runs' = [runs EXCEPT ![r].pc = "posting"]
    /\ UNCHANGED <<db, unparsable, control, inflight, call, edge, late, loads, crashes, published>>

\* Caddy answers the GET sent once the routes are built.
GetServer(r) ==
    /\ runs[r].pc = "reading"
    /\ AllRead(r)
    /\ runs[r].read["projects"] \notin unparsable
    /\ runs' = [runs EXCEPT ![r].pc = "posting", ![r].foreign = edge.foreign]
    /\ UNCHANGED <<db, unparsable, control, inflight, call, edge, late, loads, crashes, published>>

\* A query fails, buildCustomerRoutes throws, the GET fails, or Caddy has no server.
ThrowBeforePost(r) ==
    /\ runs[r].pc = "reading"
    /\ runs' = [runs EXCEPT ![r].pc = "settling"]
    /\ UNCHANGED <<db, unparsable, control, inflight, call, edge, late, loads, crashes, published>>

\* Caddy replaces its server config by body.
Install(body) ==
    /\ edge' = body
    /\ published' = IF Upto(published, body.table) THEN body.table ELSE published

\* Caddy applies the POST; the answer may be lost on the way back.
PostApplied(r) ==
    /\ runs[r].pc = "posting"
    /\ Install(Body(r))
    /\ \E ok \in BOOLEAN : runs' = [runs EXCEPT ![r].pc = "settling", ![r].ok = ok]
    /\ UNCHANGED <<db, unparsable, control, inflight, call, late, loads, crashes>>

\* The POST fails: rejected, not delivered, or cut off and perhaps applied later.
PostFails(r) ==
    /\ runs[r].pc = "posting"
    /\ runs' = [runs EXCEPT ![r].pc = "settling"]
    /\ \/ UNCHANGED late
       \/ /\ LatePosts
          /\ late' = late \cup {Body(r)}
    /\ UNCHANGED <<db, unparsable, control, inflight, call, edge, loads, crashes, published>>

\* Mutant of Settle: inflight is cleared by then() and not by finally().
SettleThen(r) ==
    /\ runs[r].pc = "settling"
    /\ inflight' = IF runs[r].ok THEN NoRun ELSE inflight
    /\ runs' = [runs EXCEPT ![r] = Off]
    /\ call' = [c \in Callers |-> IF call[c].on = r THEN Idle ELSE call[c]]
    /\ control' = IF call["boot"].on = r THEN "up" ELSE control
    /\ UNCHANGED <<db, unparsable, edge, late, loads, crashes, published>>

\* Mutant of Settle: a failed run releases nobody but the boot hook.
SettleStranding(r) ==
    /\ runs[r].pc = "settling"
    /\ inflight' = NoRun
    /\ runs' = [runs EXCEPT ![r] = Off]
    /\ call' = [c \in Callers |-> IF call[c].on = r /\ (runs[r].ok \/ c = "boot")
                                  THEN Idle ELSE call[c]]
    /\ control' = IF call["boot"].on = r THEN "up" ELSE control
    /\ UNCHANGED <<db, unparsable, edge, late, loads, crashes, published>>

\* The promise settles: finally() clears inflight and every caller goes on.
Settle(r) ==
    /\ runs[r].pc = "settling"
    /\ inflight' = NoRun
    /\ runs' = [runs EXCEPT ![r] = Off]
    /\ call' = [c \in Callers |-> IF call[c].on = r THEN Idle ELSE call[c]]
    /\ control' = IF call["boot"].on = r THEN "up" ELSE control
    /\ UNCHANGED <<db, unparsable, edge, late, loads, crashes, published>>

-----------------------------------------------------------------------------
(***************************************************************************)
(* The world around it.                                                    *)
(***************************************************************************)

\* Caddy applies a POST nobody waits for any more.
LatePost(body) ==
    /\ body \in late
    /\ Install(body)
    /\ late' = late \ {body}
    /\ UNCHANGED <<db, unparsable, control, inflight, runs, call, loads, crashes>>

\* An operator reloads the Caddyfile: it replaces the whole config, the routes
\* the admin API added included.
CaddyfileLoad ==
    /\ loads < MaxReloads
    /\ loads' = loads + 1
    /\ edge' = [table |-> Zero, foreign |-> loads + 1]
    /\ UNCHANGED <<db, unparsable, control, inflight, runs, call, late, crashes, published>>

\* The control plane dies with everything it holds in memory.  A POST under way
\* was applied, is lost, or reaches Caddy later.
Crash ==
    /\ control # "down"
    /\ crashes < MaxCrashes
    /\ control' = "down"
    /\ crashes' = crashes + 1
    /\ inflight' = NoRun
    /\ runs' = [r \in Runs |-> Off]
    /\ call' = [c \in Callers |-> Idle]
    /\ \/ UNCHANGED <<edge, published, late>>
       \/ /\ \E r \in Posting : Install(Body(r))
          /\ UNCHANGED late
       \/ /\ LatePosts
          /\ late' = late \cup {Body(r) : r \in Posting}
          /\ UNCHANGED <<edge, published>>
    /\ UNCHANGED <<db, unparsable, loads>>

-----------------------------------------------------------------------------
HandlerStep == \E c \in Handlers : Commit(c) \/ HandlerReconciles(c)
BootStep == BootReconcile \/ BootSkip
RunStep(r) ==
    \/ \E t \in Tables : ReadTable(r, t)
    \/ GetServer(r)
    \/ ThrowBeforePost(r)
    \/ PostApplied(r)
    \/ PostFails(r)
    \/ Settle(r)
CaddyStep == CaddyfileLoad \/ \E body \in late : LatePost(body)

Next ==
    \/ HandlerStep
    \/ QuietCommit
    \/ DriftCheck
    \/ BootStep
    \/ \E r \in Runs : RunStep(r)
    \/ CaddyStep
    \/ Crash

Spec == Init /\ [][Next]_vars

(***************************************************************************)
(* Fairness.  The node process keeps running its continuations and its     *)
(* cron, and is restarted when it dies; every query and admin call is      *)
(* answered or fails; and, tried again and again, each of them succeeds    *)
(* (so do both queries of one run).                                        *)
(* Nothing makes anybody write, crash or reload.                           *)
(***************************************************************************)
Fairness ==
    /\ \A c \in Handlers : WF_vars(HandlerReconciles(c))
    /\ WF_vars(DriftCheck)
    /\ WF_vars(BootStep)
    /\ WF_vars(\E r \in Runs : RunStep(r))
    /\ SF_vars(\E r \in Runs, t \in Tables : ReadTable(r, t))
    /\ SF_vars(\E r \in Runs, t \in Tables : ReadTable(r, t) /\ AllRead(r)')
    /\ SF_vars(\E r \in Runs : GetServer(r))
    /\ SF_vars(\E r \in Runs : PostApplied(r))

FairSpec == Spec /\ Fairness
-----------------------------------------------------------------------------
(***************************************************************************)
(* Safety.                                                                 *)
(***************************************************************************)

\* Never two runs of doReconcile() at once: a run is under way exactly when it
\* is the one this.inflight holds.  Two overlapping runs could POST in the
\* opposite order of their reads.
SingleFlight == \A r \in Runs : runs[r].pc # "off" <=> r = inflight

\* Everybody who awaits reconcile() awaits the run in flight: no promise is
\* awaited that nothing will settle.
NobodyStranded ==
    \A c \in Callers : /\ call[c].pc = "waiting" <=> call[c].on # NoRun
                       /\ call[c].on \in {NoRun, inflight}

\* The caller that starts a run is served by it: a run never pushes rows older
\* than what was committed when it started, for neither of the two tables.
StarterServed ==
    \A r \in Runs : runs[r].pc \in {"posting", "settling"} /\ AllRead(r)
                    => Upto(runs[r].since, runs[r].read)

\* The edge only ever serves committed rows and never goes back to older ones,
\* through crashes of the control plane and Caddyfile reloads, unless a POST that
\* was given up on arrives after all: the reconciler implements RouteSync.
Sync == INSTANCE RouteSync WITH table <- edge.table, sent <- {body.table : body \in late}
ImplementsRouteSync == Sync!SyncSpec

\* No customer route is ever built from rows that were not committed, however late
\* the POST that brings it.
NothingUncommitted == Upto(edge.table, db)

\* The server object is fetched and POSTed back.  A Caddyfile that is loaded while
\* no POST is under way or was given up on is kept until the next is loaded, for
\* every run to come fetches it.
Current ==
    /\ edge.foreign = loads
    /\ \A r \in Posting : runs[r].foreign = loads
    /\ \A body \in late : body.foreign = loads
CaddyfileStays ==
    [][/\ Current /\ loads' = loads => Current'
       /\ loads' # loads /\ Posting = {} /\ late = {} => Current']_vars

(***************************************************************************)
(* The inductive invariant behind them.                                    *)
(***************************************************************************)

\* What a run has read lies between what was committed when it started and
\* what is committed now, and a run that POSTs has read both tables.
ReadsBetween ==
    \A r \in Runs :
        /\ Upto(runs[r].since, db)
        /\ runs[r].pc = "posting" => AllRead(r)
        /\ \A t \in Tables : runs[r].read[t] # Unread
              => runs[r].since[t] <= runs[r].read[t] /\ runs[r].read[t] <= db[t]

\* A run that can still POST started after everything was read that the edge was
\* given before or may still be given.
Given == {published} \cup {body.table : body \in late}
PushesAdvance ==
    /\ ~LatePosts => late = {}
    /\ \A g \in Given : Upto(g, db)
    /\ \A r \in Runs : runs[r].pc \in {"reading", "posting"}
          => \A g \in Given : Upto(g, runs[r].since)

\* SingleFlight keeps a run's successor from starting before its POST is over or
\* given up on; ReadsBetween and PushesAdvance turn that into "everything given is
\* older".
IInv ==
    /\ TypeOK
    /\ SingleFlight
    /\ NobodyStranded
    /\ ReadsBetween
    /\ PushesAdvance
    /\ NothingUncommitted

(***************************************************************************)
(* Liveness, under FairSpec.                                               *)
(***************************************************************************)

\* Once writes, crashes and reloads stop, and if the builder accepts every
\* upstream, the edge serves exactly the committed rows and keeps doing so:
\* the drift check repairs quiet writes, joined calls, lost routes, lost or
\* late POSTs and a boot that found no Caddy.
EventuallySynced ==
    <>[](db["projects"] \notin unparsable) => <>[](edge.table = db)

\* Every await of reconcile() ends, whether the run succeeds or not.
EveryCallReturns == \A c \in Callers : call[c].pc = "waiting" ~> call[c].pc = "idle"

(***************************************************************************)
(* What the comments say and the code does not do.                         *)
(***************************************************************************)

\* reconcile() is "safe to call from multiple paths": when it returns without
\* an error, what its caller had committed has been pushed.
ReturnMeansPushed ==
    [][\A c \in Callers :
         call[c].pc = "waiting" /\ call'[c].pc = "idle" /\ runs[call[c].on].ok
           => Upto(call[c].asked, runs[call[c].on].read)]_vars

\* The push "avoids clobbering Caddyfile-owned server-level fields": it never
\* brings back those of an earlier Caddyfile load.
CaddyfileKept == [][edge'.foreign >= edge.foreign]_vars
=============================================================================
