# A verification project for Hee

Hee lets the customers of a SaaS product bring their own domains. A NestJS
control plane keeps tenants, domains, members and sessions in Postgres; Caddy
terminates TLS and routes every customer hostname; a Next.js portal and a small
SDK call the control plane. The repository has no automated tests. This
directory models, in TLA+, the parts whose correctness depends on the order in
which things happen: what the node process does between two awaits, while
Postgres, Caddy, DNS, browsers, receivers of webhooks and operators act.

Contents: [inventory](#inventory), [the modules and the code](#the-modules-and-the-code),
[the runs](#the-runs), [fairness](#fairness), [proofs](#proofs),
[assumptions](#assumptions-about-what-is-not-under-src), [what the code does that its comments do not say](#what-the-code-does-that-its-comments-do-not-say),
[what is not modelled](#what-is-not-modelled), [plan](#plan), [how to run](#how-to-run).

## Inventory

Paths are relative to `src/control-plane/src/modules` unless they start with `src/`.

| Component | State it keeps | Operations | What is hard about it | Status |
|---|---|---|---|---|
| Caddy reconciler (`caddy/caddy-reconciler.service.ts`, `caddy-admin.client.ts`) | `this.inflight`; the server config in Caddy | boot reconcile, ten-minute drift check, `reconcile()` from most writers | coalescing of callers, GET-modify-POST, failures at every await, crashes, reloads of the Caddyfile | modelled: CaddyReconciler |
| Config builder (`caddy/caddy-config.builder.ts`) | none (pure) | tables to routes | one stored upstream can make it throw; what a host gets out of two queries | modelled: CaddyRoutes |
| Domains, token API (`domains/domains.service.ts`) | table `domains` | register, bulk register, remove, diagnose, lookup | look first, write later; whole-entity saves | modelled: DomainRegistry |
| DNS verification (`domains/verify.service.ts`) | columns `verified`, `txt_challenge`, `last_probe_error` | five-minute cron, `probeOne` | verdict on an old copy, overlapping ticks | modelled: DomainRegistry, WebhookDelivery |
| Portal domains (`portal/portal.service.ts`) | table `domains` | register, remove | as above, without a reconcile and without a challenge | modelled: DomainRegistry, CaddyRoutes |
| Portal projects and tokens (`portal/portal.service.ts`, `projects/projects.service.ts`) | tables `projects`, `api_tokens` | create, update, issue, revoke | no transaction, lost updates, no reconcile | modelled: Tenancy |
| Guards, API tokens (`auth/`, `auth-user/session.guard.ts`) | `last_used_at` | one row looked up per request | revocation against requests under way; decisions an await before the write | modelled: Tenancy |
| Invitations and members (`portal/invitations.service.ts`, `projects/projects.service.ts`) | tables `users`, `project_members`, `project_invitations` | invite, revoke, accept, one-click accept, add member | two-step look-ups, stale saves, mail that fails | modelled: Membership |
| Sessions (`auth-user/auth-user.service.ts`, `session-purge.service.ts`) | table `sessions` | mint, `me` with sliding expiry, sign-out, nightly purge | stale saves, expiries out of order, purge in between | modelled: Sessions |
| Webhook dispatcher (`webhooks/`) | timers in memory | dispatch, five attempts | crash, age of the signature, duplicates | modelled: WebhookDelivery |
| Edge controller, error pages (`edge/`, `domains/error-page.service.ts`) | page cache in memory | TLS ask, resolve, error and pending pages | staleness, limit of the cache, a server of the owner that stalls | modelled: EdgePages, CaddyRoutes |
| Portal web app (`src/portal`) | the cookie `hee_session` | sign-in and sign-out, server actions | five-second client; answers nobody looks at; forms older than the row | partly: Sessions, Tenancy |
| SDK (`src/packages/sdk`) | none | one call per method, signature check | tolerance against retries | partly: WebhookDelivery, Tenancy |
| Audit (`audit/`), metrics (`metrics/`), mail | `audit_events`, counters | append, count, one HTTP call | an audit write that fails is swallowed | partly |
| Entities and migrations | the tables | unique indexes | what the database refuses | partly: the tables are the variables, the indexes guards |
| Infrastructure, docs, marketing site | | | | not modelled |

**How they interact.** The token API's writers of `domains` call `reconcile()`
without awaiting it, the portal never does. A probe that verifies writes
`domains`, reconciles and dispatches a webhook. The reconciler reads `domains`
and `projects` and writes Caddy; Caddy asks the control plane whether a hostname
may have a certificate, and for the pages of pending hosts and failing upstreams.
The portal asks the control plane `me` for every page and forwards what its
forms say, with a client that gives up after five seconds. A one-click
acceptance writes users, members and invitations and then mints a session.

**What would make each of them correct.** The edge serves committed rows, never
older ones than before, and in the end the newest; a host's traffic goes to the
project that owns it and to no other. A host has one owner, passes to the next
only by being released, and is verified only after its records were seen. A
receiver hears only of what is committed, and of every event until it has an
answer. A visitor is shown something, never an old page, and the site once it
is there. An address has one live invitation at most; nobody is a member
without having been invited or granted; a link that is used up has made somebody
a member. A session that is used does not die, one that is dead does not come
back. What a client is told was done is done; nobody changes another tenant's
project; a revoked token opens nothing.

## The modules and the code

All models share one view of the process: a **task** is a request handler or a
cron tick, a **step** is what runs between two awaits, and tasks interleave at
the awaits. A task holds the **copy** of the row it has read. The two ways in
which TypeORM writes are kept apart, since several properties hold because of
one and fail because of the other: `update(id, columns)` writes the columns it
names, `save(entity)` makes the row equal to the copy, and inserts it again if
it is gone.

Each component has a module `X`, an instance `MCX` for TLC, and `XProofs`.

### RouteSync and CaddyReconciler

`RouteSync` is the promise: rows are committed; the edge gets a route table
built from committed rows and not older than any it had or may still get
(`Publish`); such a table is given up on under way (`GiveUp`), and may arrive
after all (`Belated`); the edge loses its customer routes (`Wipe`). A table is
abstracted to its version, the number of writes committed to it. `sent`, what was
given up on and may still arrive, is the tables in the reconciler's `late`.

`CaddyReconciler` is the code. `db` is the two tables, `inflight` is
`this.inflight`, `runs` the local state of every `doReconcile()`, `call` where
every caller stands, `edge` the server config, split into what its routes were
built from and which Caddyfile load its other fields come from.
`Join`/`Start` are the two branches of `reconcile()`; `ReadTable` is one of the
two queries of the `Promise.all`; `GetServer`, `PostApplied`, `PostFails` and
`ThrowBeforePost` are the admin calls and their failures; `Settle` is the
`finally` together with everything that awaits the promise. `Commit` followed
by `HandlerReconciles` is a writer that reconciles (token API, verifying
probe, `ProjectsService.create`), `QuietCommit` one that does not (the portal,
a re-registration, a direct database update). `unparsable` holds the versions
of `projects` for which `parseUpstream` throws. `Crash` loses everything in
memory; with `LatePosts` a POST may outlive its sender.

### CaddyRoutes

The same path with the content of the rows in place of their versions, and one
run after the other (that runs do not overlap is what `CaddyReconciler` shows).
What does overlap is a POST that was cut off, or whose sender died: `PostCutOff`
leaves it in `late`, and `LatePost` is Caddy applying it, whatever has been written
and pushed since. `CaddyfileLoad` leaves no customer route.
`Parses`, `Port`, `ResolveHostHeader`, `HostnameRoute`, `RouteOf` and `Throws`
are the builder: which upstream, Host header and rate limit a host gets, which
hosts get the pending page, when nothing is built at all. `Found`,
`CheckHostname` and `Resolve` are what the control plane says of the same host.
`Register`, `Resave`, `Verify`, `Remove`, `SetProject` are the writes, each as
of its commit (`Resave` is the save of a whole stale row, which may un-verify it or
bring a removed one back); `StartRun`, `ReadDomains`, `ReadProjects`, `Push`, `PostCutOff`,
`RunFails` are a run. It is the composition of the registry, the projects, the reconciler and the
edge controller as far as one hostname's traffic goes. `proved`, `said` and `had` are history
(who verified which host, what metadata was given to it, which settings a
project had); `runStale` says what was written since the current run began,
`edgeStale` what was written since the run began whose routes are served; a POST in
`late` carries the same of its own.

### Ownership and DomainRegistry

`Ownership` is the promise of the `domains` table, tenant by tenant, without
rows, copies or tasks: a claim is made on a hostname nobody holds, is proved,
verified, doubted, released.

`DomainRegistry` is the code. `rows` is the `domains` table with its partial
unique index (`IndexAdmits`), `cname` and `txt` what DNS holds, `task` the copies,
verdicts and queues of the tasks. `Register`/`SaveMetadata`/`Insert`,
`Remove`/`Tombstone` are the two services (`api` tells the token API from the
portal: only the first issues a challenge, updates `removed_at` alone, and probes
at once). `Tick`, `ProbeCname`, `ProbeTxt`, `ProbeUpdate` are the cron and
`probeOne`: the verdict is reached on the copy, the update writes to the row of the
same id whatever has become of it. `registerBulk` is a loop of `register`.
Metadata, diagnosis columns and timestamps are left out: no decision about
ownership reads them. Reconcile calls are left out here; they are the actions of
`CaddyReconciler`.

### WebhookDelivery

One domain and the webhook of its project. `row` is what probes read and write,
`task` the probes and the requests that write beside them, `delivery` the closures of
`dispatch()` and `attempt()`, `metrics` the counters. `StartProbe`, `Judge`, `Save`,
`Announce` are `probeOne()`: what is announced is decided on the copy (`Verdict`), and
announced after the update, which `ProbeThrows` may have made or not. `Edit`, `Resave`
and `EditFails` are the writers that read the row and save the whole of it:
re-registrations with metadata, of both services, and the portal's removal. Only
`Requests` do that, and it undoes what a probe has written in between. `fate` is
history: whether the latest verification by each prober stands, or was undone by such
a save before it was announced.
`LookUp` reads the project and signs once; `Send` is the timer; `Arrive` is the
receiver with the SDK's `Verify`; `Answered`, `FetchThrows`, `TryAgain`, `Close`
are the branches of `attempt()`. Time is relative: a delivery knows how long its
timer has to run and the age of its signature, counted up to the first age that
is refused. `Configure` changes or takes away the secret, `Remove` is the token API's removal,
which writes its column alone, and `Crash` loses all timers.

### EdgePages

Browsers before a hostname that is pending, live or failing. `Open`, `Reload`
and `Load` are the browser and the script of the pending page; `LookUp` is
`lookup()` with the decision which page the visitor gets and whether the cache
has it; `Headers` and `BodyRead` are the two awaits of a fetch, `FetchFails` the abort
or error of the first, `BodyBreaks` an error of the second; `BodyRead` evicts before it inserts, as the code does. An entry
keeps the `fetchedAt` the code gives it and the moment its content was current.

### Seats and Membership

`Seats` is the promise of invitations, without users, rows, copies or requests:
an address gets a seat only from an operator's grant or from an offer it takes
up; an offer can be taken up while it is open, its link has been sent and it has not
lapsed; an offer that has ended never opens again, and is marked used only if
its addressee has a seat. Revoking and accepting may overwrite each other's mark
(`End` of an offer that has ended), as they do in the code. The refinement maps
offers to the invitations (`Offered`), what is being taken up to the copies of the
requests that have passed the checks of `accept()` (`Followed`), and grants being
carried out to the calls of `addMember()` (`Granted`).

`Membership` is the code. One project; `users`, `members` and `invites` are its tables, `links` the
invitations whose link somebody holds, `expired` those past their seven days.
`StartInvite`, `LookUpLive`, `Supersede`, `InsertInvite`, `SendMail` or
`SendFails` and `Undo` are `invite()`; `StartRevoke`, `Revoke` are `revoke()`;
`Accept` and `AcceptByLink` open the two ways of accepting, `AddMember` the
operator's way, and the three share `FindUser`, `AddUser`, `FindMember`, `Join`,
`ChangeRole` and `Consume`. `granted` is history.

### Sessions

`sessions` is the table over a clock of days, `cookie` the browser's cookie.
`SignIn` is `mintSession` and the portal setting the cookie; `Use` is `me()` in
the first half of a session; `UsePastHalf`, `Save` and `Serve` are `me()` in the second
half: the session is read, its copy is saved, the memberships are read and the
request is answered. `Abort` is a failure or death at either await; a save that fails
may have taken effect, and the one before a failing `members.find` has, so a session
can be extended by a request that is not served. `SignOut`, `Revoke`, `RevokeFails` are
the portal's sign-out route and the call it makes; `PurgeExpired`, `PurgeRevoked`
the two statements of the nightly purge. A request lasts at most `Latency`.
`lastSeen` (the latest request that found the session valid), `lastUse` (the latest one
that was served) and `signedOut` are history.

### Tenancy

`project`, `role`, `token` and `audit` are tables; `call` is a call of the portal from
the click to the message on the screen, `service` a call with an API token.
`AskCreate`, `AskToken`, `ShowForm`, `SubmitForm` are the server actions,
`GiveUp` the client's five seconds (the handler goes on), `Answer` what the
client makes of the status. `Authorize`/`Refuse` are `SessionGuard` with
`requireProjectAccess`; from there each handler goes await by await:
`LookForSlug`, `InsertProject`, `Join`; `ReadProject`, `SaveProject`;
`InsertToken`; `ReadToken`, `SaveToken`; then `Audit`. `CheckToken` and `Touch` are `ApiTokenGuard`,
whose write of `last_used_at` nobody awaits. The operator's calls are taken as of
their last write. `stale`, `done`, `late` and `abandoned` are history.

## The runs

Passing runs:

| Run | Instance | What it shows |
|---|---|---|
| reconciler_safety | 2 handlers, cron and boot hook, 2 run identities, 1 write per table, 1 reload, 2 crashes, late POSTs (0.75 M states) | runs never overlap (`SingleFlight`); nobody waits for a promise that nothing settles (`NobodyStranded`); the starter of a run is served by it (`StarterServed`); the code implements `RouteSync`, through crashes, reloads and POSTs that arrive late; a Caddyfile loaded while no POST is about is never clobbered (`CaddyfileStays`) |
| reconciler_liveness | 1 handler, 1 run, 1 write per table, 1 reload, late POSTs, failures without bound | the edge ends up serving what is committed (`EventuallySynced`), every caller of `reconcile()` returns (`EveryCallReturns`) |
| routing | 2 hosts, 2 projects, 2 metadata, 3 settings (one of them disabled, one with an upstream that does not parse), 3 writes, 1 late POST, Caddyfile reloads; one host is served at the start, and both projects are in order (0.8 M states) | a host's traffic goes only to a project that had verified it, with settings and metadata it had (`OnlyTheOwner`); the edge disagrees with the control plane only about rows written since the run began whose routes it serves (`BehindOnlyByWrites`), and catches up (`EdgeCatchesUp`) |
| registry_safety | 1 host, 2 projects (one requires TXT), 2 rows, 2 requests, 1 tick (0.7 M states) | one active row per host; nothing is verified that was not proved; challenge and verification never come apart; the table implements `Ownership`; only the save of a re-registration un-verifies or revives |
| registry_liveness | 2 hosts, 1 project, 2 rows to begin with, 1 request that re-registers, 2 ticks, 1 failing await | what stays published is verified by the cron, although lookups fail, a probe that throws drops the rows behind it in the queue, ticks overlap, and a stale save un-verifies |
| webhook_delivery | 2 probes at a time, one of them by a request that also saves stale copies, 2 deliveries, 1 secret, 3 attempts (0.3 M states) | whoever announces a verification has committed it, and it stands unless a stale save came between (`ToldOfCommitted`); no prober verifies again while its verification stands (`VerifiedOnceEach`); the last attempt is never taken in (`LastAttemptIsFutile`); every delivery comes to an end |
| edge_pages | 2 visitors, 2 urls, room for no entry, TTL 2, clock to 2 | the cache is one entry over its limit at most; no visitor sees a page that was outdated for a TTL (`FreshEnough`); who watches the pending page sees the site; every visit is answered, or reads a body for ever (`EveryVisitAnswered`) |
| membership_safety | 2 addresses, 2 invitations, 2 requests, 2 grants or failing awaits (1.5 M states) | one live link per address; never both accepted and revoked; accepted means joined; dead links stay dead; the requests implement `Seats`: a seat comes from a grant or from a link that was live, sent and in time when it was followed |
| sessions_safety | 1 session, 3 requests that last up to 2, TTL 6, clock to 12, 1 failing await (1.7 M states) | a session in use stays valid (`SlidingWindow`), and one that no request presented for a lifetime is over (`UnusedDies`); a dead one stays dead once the requests that had read it are over |
| tenancy | 2 users, 2 projects, 2 slugs, 2 columns of 2 values, 1 token, 2 calls of the portal, 1 with a token, three tables to start from (0.5 M states) | what is said to be done is done (`ToldDone`); a project without a member was cut short between its two inserts; a slug is one project's; no call that begins after a revocation passes the guard, and revoked stays revoked; a project and its tokens are changed by calls of its own people (`OwnTenantOnly`); a save undoes another's column only if it overlapped |

Violation runs, the subject of a [section of their own](#what-the-code-does-that-its-comments-do-not-say):
registry_unverified (`NeverUnverified`) and routing_blocked (`ChangesTakeEffect`).

**Why the bounds are enough to be worth something.** The failures the
properties are about take two tasks on one row: one reads, the other writes, the
first writes. All safety runs have two requests (and the cron), so every such
pair is covered, and two rows, so that one can succeed the other. A write per
table gives a run of the reconciler four pairs of versions to read, with
older and newer ones; two crashes let two POSTs be under way beside that of
the run in flight; with two run identities a second run can start while the first is under way, so
`SingleFlight` is not true by construction. In the routing run three writes
are a removal, a registration by the other project and its verification, all
of which may come between the two queries of a run. The delays of a webhook,
0, 2, 10, 60 and 300 seconds against a tolerance of 300, become 0, 1, 1 against
1: as in the code, only the last attempt lies beyond the tolerance, and that
relation is the `ASSUME` the proof works from. With room for no entry every
insert finds the cache full. The clock of the sessions passes two lifetimes of six, and
a session slides in the last two instants of its life, so two requests can save
different expiries in either order; a request lasts two instants, so that a session can
expire and be purged while a request is about to save it, and be saved again. (Sessions
do not meet each other, so one is enough.) With two rows and two ticks a probe that throws has
something to drop, and the rows of one tick can be in the hands of another. Two calls of the
portal are the least that can undo each other; the three tables to start from
(empty, two tenants, a token in use) save the calls that would lead there.
What lies beyond the bounds is covered by the proofs for all the safety
properties.

Deadlock is checked in every run but `tenancy`, where all calls may be used up and
nobody has to ask for anything more.

For every property of a passing run the module holds a mutant of one of its
actions (a comment above each says which bug it is) under which TLC finds the
property violated.

## Fairness

`CaddyReconciler!Fairness`: node runs its continuations and its crons and is
restarted when it dies (weak fairness); every query and admin call is answered
or fails, and tried again and again each of them succeeds (strong fairness of
the successful outcomes, including both queries of one run). The code has no
timeout on admin calls, so "is answered or fails" is an assumption about the
platform; without it a hung call keeps `inflight` for ever. Nothing makes anybody write,
crash or reload the Caddyfile. `EventuallySynced` has a premise: the committed
projects must be ones the builder accepts, for a single bad upstream stops
every reconcile. `CaddyRoutes!Fairness` is the same for one run after the
other: the drift check starts it, its queries are answered, `Push` is strongly
fair and `RunFails` is not.

`DomainRegistry!Fairness`: continuations and the cron run; a lookup repeated
for a row sees in the end what stays published (strong fairness per row).
Tenants, zone owners and "Re-verify" requests owe nothing.

`WebhookDelivery`: time passes, and each delivery goes on (weak fairness): node
runs its timers, queries are answered or fail, and `fetch()` has undici's default
timeouts. Receivers owe no answer.

`EdgePages`: the pending page reloads itself, lookups are answered or fail, and
a fetch without headers is aborted after three seconds (weak fairness of
`FetchFails`). The abort timer is cleared then, and nothing but undici's timeout for a
connection that is idle bounds the body: `BodyRead` and `BodyBreaks` have no fairness, the
owner's server owes nothing, and `EveryVisitAnswered` excepts a body that never ends.

Membership, Sessions and Tenancy have no liveness property: nothing there is
retried.

## Proofs

The eight `*Proofs` modules prove, for every value of the constants, every
safety property that the passing runs check. Each has the same argument: an
inductive invariant `IInv`, a lemma per action (or per kind of write), and from
`Invariance` the properties. Type correctness and some invariants that the
runs do not list (`Counted`, `ResultsAreFinal`, `AttemptsRunOut`) are theorems, too.

* **CaddyReconcilerProofs.** `SingleFlight` alone is inductive; what a run
  *pushes* needs more. `ReadsBetween`: what a run has read lies between what was
  committed when it started and now. `PushesAdvance`: everything the edge
  was given, or may still be given by a POST that was given up on, was read
  before the run in flight started; a successor starts only when its
  predecessor's POST is over or given up on, which is where `SingleFlight` comes
  in. `Refinement` follows for all constants, late POSTs included: every step is
  a `RouteSync` step or a stutter. Two readings of it: no route is ever built
  from uncommitted rows (`OnlyCommittedRows`), and where no POST outlives its
  sender the edge never goes back (`NeverBackwards`). `LoadedCaddyfileStays`
  needs no invariant: `Current` is kept by every step, since a run posts
  back what it has fetched.
* **CaddyRoutesProofs.** `Sound` says of a row, wherever it was read, that its
  owner had verified it if it says so, and that it still is the row unless
  that was written since. It holds of each half of a reading separately, which
  is why two queries at different moments do no harm. `RoutesSound` says what
  follows for routes built from such a reading, and is an operator on routes and
  tables: the same lemmas (`RowWritten`, `ProjectWritten`) keep it true of the
  routes that are served and of every POST that may still arrive, so that a late
  one finds nothing left to prove.
* **DomainRegistryProofs.** The invariant must speak about the copies as well as
  the table, since any of them may be saved: `Sound(i, row)` holds of row `i`
  wherever it is kept, a copy has the host and project of its row, and a task's
  verdict is backed by what a probe has seen. `CopyStays` is the key: evidence and
  challenges only grow, so a copy remains sound while the table moves on.
  Uniqueness needs nothing but the index. `OneTenantAtATime` is the refinement
  of `Ownership`: `WriteRefines` sorts every write of a row into claim, verify,
  doubt, release or nothing by the row's state before and after, and uniqueness
  is what makes a claim disappear with its row.
* **WebhookDeliveryProofs.** What a probe has verified stands, or `fate` says that
  a save of an older copy has undone it: while it stands, the row is verified, and
  so is every copy that its prober reads, whose verdict then is not the first
  (`TaskSound`). `Aged`: the age of a signature is at least the
  delays its attempt has waited for, so at the last attempt it is beyond the
  tolerance. The counters are cardinalities of sets of deliveries. `Left` is what a
  delivery still has before it, and no step adds to it (`NothingRetriedForEver`):
  the half of `EveryDeliverySettles` that is safety, and the half that holds of
  any number of attempts.
* **EdgePagesProofs.** An entry is dated no later than its content, because
  `fetchedAt` is taken before the request is made; so an entry that passes for
  fresh is. The bound is by cardinality, over a finite set of urls.
* **MembershipProofs.** A copy is of a row that exists and was live when it was
  read (`CopySound`), and every writer of invitations adds one mark to such a
  copy, so no save revives a row or gives it two marks. An invitation that was
  sent keeps its address and role, which is what ties members to links.
  `Refinement` of `Seats` needs it twice: a request that consumes an invitation
  ends the offer whose copy it holds, and one that joins acts on an offer that
  was open when it was followed, whatever has become of it since. That every role
  was granted or offered (`RolesWereGiven`) is the part of it that needs no abstract
  specification to state.
* **SessionsProofs.** A request under way is younger than `Latency`, what it
  is about to save was valid when it began, and what it has saved is there until it is
  answered (`TaskSound`); expiries may go back, but never below the last request served
  plus half a lifetime (`SessionSound`), because `Latency` is at most half a lifetime. Nor do
  they run ahead of the last request *seen* by more than a lifetime
  (`NoneOutlivesItsUse`), as every save counts from its own request; of the last one
  served that would be false, since a request may fail after its save.
* **TenancyProofs.** `Sound` of every call, as an operator on the call and the
  tables it works on: where its handler is (`Placed`), what was authorized
  (memberships are never taken away, and a slug means the same project for
  ever), how far its form and its copy agree with the row (`Filled`, `Copied`: or a
  save came in between), what it has committed. Tables only grow under a call
  that does not move, so that `Sound` has to be re-established only where a
  save of the same project intervenes, and `SaveProject` marks those.

Constants are assumed to be what the `ASSUME`s say, which TLC evaluates in the
runs: null identities are not identities, bounds are natural numbers, there is
a host, a project and an address, requests are shorter than half a lifetime,
the last two delays exceed the tolerance, tables at the start are ones earlier
calls can have left.

Only model-checked: `EventuallySynced`, `EveryCallReturns`, `EdgeCatchesUp`,
`EventuallyVerified`, `EveryDeliverySettles`, `WatchersSeeTheSite`,
`EveryVisitAnswered`. Liveness under fairness needs ENABLED, which the prover
does not support; of `EveryDeliverySettles` the measure is proved, not the fairness.

## Assumptions about what is not under src

* TypeORM: `save(entity)` loads the row by its key, writes the columns in which
  the entity differs, and inserts it if there is none. The load and the write
  are taken as one step (an update of the row between the two, which TypeORM would
  leave alone in the columns in which copy and load agree, is not considered). `remove` of a row that is gone does nothing.
* Postgres: single statements are atomic, a unique index refuses the second
  row; queries see what is committed when they run.
* Caddy: a POST to `/config/...` replaces the server object atomically; loading
  a Caddyfile replaces everything, the routes pushed over the admin API too.
* DNS answers with what it holds, or not at all.
* node and undici: timers fire, a promise goes on once it is settled, a
  connection that is silent is given up in the end; one that keeps sending is not. A receiver of webhooks is
  a server that uses the SDK and takes in an event once.

## What the code does that its comments do not say

Two of these are runs that TLC finds violated.

* registry_unverified: the metadata save of a re-registration writes back
  `verified = false`. `OnlyResavesUnverify` shows that it is the only one to.
* routing_blocked: the DTOs admit an `ftp:` upstream, `parseUpstream` does not,
  and the throw ends the whole reconcile: no change of any project takes effect
  until it is gone.

Eight are stated in the modules by a property that does not hold of the code:

* `ReturnMeansPushed` (CaddyReconciler): a caller that joins a run that has
  already read its table returns without its row having been pushed. The drift
  check repairs it within ten minutes (`EventuallySynced`).
* `CaddyfileKept` (CaddyReconciler): a Caddyfile reloaded between GET and POST
  is undone, and nothing repairs it. (`CaddyfileStays` is what does hold: one
  that is loaded while no POST is about is kept.)
* `TxtBeforeVerified` (DomainRegistry): the portal issues no challenge, so the
  project's `requireTxtVerification` does not bind there.
* `StatesAreTerminal` (Membership): revoking and accepting overwrite each
  other's mark.
* `BrowserStaysSignedIn` (Sessions): the cookie does not slide with the session.
* `SignedOutForGood` (Sessions): a request that had read the session before the
  sign-out saves `revoked_at = null` back, and the session is valid for a whole
  lifetime more.
* `ConsistentWithTheEdge` (WebhookDelivery): a stale save between the update and the
  dispatch un-verifies the row, and the receiver is told that it is verified.
* `EveryVisitEnds` (EdgePages): a body that the owner's server keeps sending keeps the
  visitor waiting.

The others were met while reading, and several are what a property holds
*because of* or *in spite of*:

* Webhooks: the fifth attempt is sent 372 s or more after the only signature
  was made, and the SDK refuses it (`LastAttemptIsFutile`); the first attempt
  is not awaited; no code writes `webhookSecret` or `webhookUrl`.
* The page cache holds 201 entries and not 200 (`CacheBounded`).
* The portal looks at no status where it revokes a token, signs out, removes a
  domain or revokes an invitation, and reports all of them as done
  (`ToldDone` leaves revocation out for that reason).
* `last_used_at` is written by nobody's leave: it may be lost, or overwritten
  with an older value by the save of a revocation.
* A name, upstream or `upstreamHost` that was emptied in the settings form is not sent, so
  it cannot be cleared there (`errorPageUrl` can: it is sent as `null`).
* The portal's registrations, removals and changed upstreams wait for the drift
  check (`EdgeCatchesUp`), not for a PATCH.
* There is no catch-all route; `upstreamHost` is never used as SNI.
* The bulk endpoint refuses every body, because its DTO has no validator on `domains`.
* A new membership counts at once, and a project one is not a member of is a
  403, where the docs and a comment say otherwise.

## What is not modelled

* Deployment, the marketing and docs sites: no state the program acts on. A
  Caddyfile reload and a restart of the process are actions of CaddyReconciler.
* Pages of the portal that only render, and its forms for members and domains:
  the calls they make are the handlers of Membership and DomainRegistry.
* Magic links: a signed token that is good until it expires, however often it
  is used; it is the occasion of `SignIn` and nothing else depends on it.
* `registerBulk` over HTTP, which cannot be reached (above); its loop is `register`.
* The listing of audit events, the metrics that nothing reads, and the audit
  events of invitations.
* The admin token: a comparison with an environment variable.
* Caddy's own matching and rate limiting, JSON layouts, wording of pages.

## Plan

What would come next, in the order in which it matters: the
members and domains forms of the portal in Tenancy; the webhook of a project
with several domains; a magic link and its two uses.

## How to run

`tlc -config ReconcilerSafety.cfg MCCaddyReconciler` and likewise for the other
configurations: `Registry*` with `MCDomainRegistry`, `Membership*` with
`MCMembership`, `Sessions*` with `MCSessions`, `CaddyRoutes*` with
`MCCaddyRoutes`, and `WebhookDelivery`, `EdgePages` and `Tenancy` with the
modules of their names. `tlapm <Module>Proofs.tla` for the proofs. No run takes
more than about three minutes on two cores, no proof module more than about
five.
