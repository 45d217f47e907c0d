------------------------------ MODULE EdgePages ------------------------------
(***************************************************************************)
(* What a visitor sees while a domain is not ready or its upstream fails:  *)
(* EdgeController and ErrorPageService with its cache of fetched pages,    *)
(* and the script of the pending page, which watches for the real site.    *)
(*                                                                         *)
(* One hostname; its owner may configure any page at any time.  Of the     *)
(* html the model keeps the moment at which the owner's server answered    *)
(* with it.                                                                *)
(***************************************************************************)
EXTENDS Integers, FiniteSets

CONSTANTS
    Visitors,    \* browsers
    Urls,        \* pages that owners have configured
    NoUrl,       \* no page is configured, or nobody owns the hostname
    MaxEntries,  \* the 200 entries of the cache
    TTL,         \* CACHE_TTL_MS
    MaxTime      \* bound: the clock

ASSUME UrlsAssumption == NoUrl \notin Urls /\ IsFiniteSet(Urls)
ASSUME BoundsAssumption ==
    /\ MaxEntries \in Nat
    /\ TTL \in Nat /\ TTL > 0
    /\ MaxTime \in Nat

VARIABLES
    now,      \* the clock
    site,     \* what the edge does with the hostname
    cache,    \* ErrorPageService.cache: a function on the urls it holds
    visitor   \* every browser, and the request the control plane handles for it

vars == <<now, site, cache, visitor>>

-----------------------------------------------------------------------------
\* "pending": the route of an unverified domain; "live": the upstream answers;
\* "failing": it answers 5xx.
Sites == {"pending", "live", "failing"}

\* read is when the owner's server gave the html, fetchedAt what the code keeps.
Entry == [fetchedAt : Nat, read : Nat]

\* "watching": nothing under way; "loading": the browser asks for the page;
\* "looking": lookup() is under way; "fetching": fetch() is; "reading": res.text()
\* is.  began is when fetchCached() began.  age is how much older than the
\* request the content on the screen is.
Visitor == [pc : {"watching", "loading", "looking", "fetching", "reading"},
            page : {"pending", "error"}, url : Urls \cup {NoUrl},
            began : Nat, read : Nat,
            screen : {"blank", "site", "pending", "error", "custom"}, age : Nat]

NewVisitor == [pc |-> "watching", page |-> "pending", url |-> NoUrl,
               began |-> 0, read |-> 0, screen |-> "blank", age |-> 0]

TypeOK ==
    /\ now \in Nat
    /\ site \in Sites
    /\ DOMAIN cache \in SUBSET Urls
    /\ cache \in [DOMAIN cache -> Entry]
    /\ visitor \in [Visitors -> Visitor]

Init ==
    /\ now = 0
    /\ site \in Sites
    /\ cache = [u \in {} |-> [fetchedAt |-> 0, read |-> 0]]
    /\ visitor = [v \in Visitors |-> NewVisitor]

-----------------------------------------------------------------------------
(***************************************************************************)
(* The browser.                                                            *)
(***************************************************************************)
\* The old page is gone as soon as a new one is asked for.
Ask(v) == visitor' = [visitor EXCEPT ![v] = [NewVisitor EXCEPT !.pc = "loading"]]

\* The user opens the site or reloads it.
Open(v) ==
    /\ visitor[v].pc = "watching"
    /\ Ask(v)
    /\ UNCHANGED <<now, site, cache>>

\* Mutant of Reload: the script waits for X-Hee-Pending, and there is no refresh.
ReloadPending(v) ==
    /\ visitor[v].pc = "watching" /\ visitor[v].screen = "pending"
    /\ site = "pending"
    /\ Ask(v)
    /\ UNCHANGED <<now, site, cache>>

\* The pending page loads itself again, by its script or by its meta refresh: every
\* three seconds the script asks with HEAD, and reloads when X-Hee-Pending is gone
\* and the status is below 400; after eight seconds the page is asked for anyway.
Reload(v) ==
    /\ visitor[v].pc = "watching" /\ visitor[v].screen = "pending"
    /\ Ask(v)
    /\ UNCHANGED <<now, site, cache>>

\* The browser's request reaches the edge: the upstream answers, or the control
\* plane is asked for /_pending-page or /_error-page.
Load(v) ==
    /\ visitor[v].pc = "loading"
    /\ visitor' = [visitor EXCEPT ![v] =
                     IF site = "live" THEN [NewVisitor EXCEPT !.screen = "site"]
                     ELSE [@ EXCEPT !.pc = "looking",
                                    !.page = IF site = "pending" THEN "pending" ELSE "error"]]
    /\ UNCHANGED <<now, site, cache>>

-----------------------------------------------------------------------------
(***************************************************************************)
(* renderPendingFor(), renderFor() and fetchCached().                      *)
(***************************************************************************)

\* The response: what is on the screen, and its age.
Show(v, screen, age) ==
    visitor' = [visitor EXCEPT ![v] = [NewVisitor EXCEPT !.screen = screen, !.age = age]]

\* pendingFallback() or fallback().
Fallback(v) == Show(v, visitor[v].page, 0)

Usable(u) == u \in DOMAIN cache /\ now - cache[u].fetchedAt < TTL

Since(t) == IF t > now THEN 0 ELSE now - t

\* lookup() answers: no page, a page in the cache, or one to be fetched.
LookUp(v) ==
    /\ visitor[v].pc = "looking"
    /\ \/ Fallback(v)
       \/ \E u \in Urls : Usable(u) /\ Show(v, "custom", Since(cache[u].read))
       \/ \E u \in Urls : ~Usable(u) /\ visitor' = [visitor EXCEPT ![v].pc = "fetching",
                                                     ![v].url = u, ![v].began = now]
    /\ UNCHANGED <<now, site, cache>>

\* lookup() fails, and nobody catches it.
LookUpFails(v) ==
    /\ visitor[v].pc = "looking"
    /\ Show(v, "blank", 0)
    /\ UNCHANGED <<now, site, cache>>

\* The owner's server answers with its page.
Headers(v) ==
    /\ visitor[v].pc = "fetching"
    /\ visitor' = [visitor EXCEPT ![v].pc = "reading", ![v].read = now]
    /\ UNCHANGED <<now, site, cache>>

\* Mutant of FetchFails: fetch() is never aborted.
FetchFailsLate(v) ==
    /\ visitor[v].pc = "reading"
    /\ Fallback(v)
    /\ UNCHANGED <<now, site, cache>>

\* It answers otherwise, or not within three seconds: null, even if the cache holds
\* an older page.
FetchFails(v) ==
    /\ visitor[v].pc = "fetching"
    /\ Fallback(v)
    /\ UNCHANGED <<now, site, cache>>

\* The body breaks off.  The timer is cleared by then: nothing makes it do so.
BodyBreaks(v) ==
    /\ visitor[v].pc = "reading"
    /\ Fallback(v)
    /\ UNCHANGED <<now, site, cache>>

\* Mutant of Evicted: nothing is evicted.
EvictedNone == {DOMAIN cache}

\* "Bound in-memory cache": the urls that stay.  Which of them is the oldest of the
\* Map is left open.
Evicted ==
    IF Cardinality(DOMAIN cache) > MaxEntries
      THEN {DOMAIN cache \ {u} : u \in DOMAIN cache} ELSE {DOMAIN cache}

\* Mutant of BodyRead: the entry is dated when it is made.
BodyReadDatedNow(v) ==
    /\ visitor[v].pc = "reading"
    /\ \E kept \in Evicted :
         cache' = [u \in kept \cup {visitor[v].url} |->
                     IF u = visitor[v].url THEN [fetchedAt |-> now, read |-> visitor[v].read]
                     ELSE cache[u]]
    /\ Show(v, "custom", 0)
    /\ UNCHANGED <<now, site>>

\* The body is there: the entry is dated when fetchCached() began, and replaces
\* whatever another request has put there in the meantime.
BodyRead(v) ==
    /\ visitor[v].pc = "reading"
    /\ \E kept \in Evicted :
         cache' = [u \in kept \cup {visitor[v].url} |->
                     IF u = visitor[v].url
                       THEN [fetchedAt |-> visitor[v].began, read |-> visitor[v].read]
                       ELSE cache[u]]
    /\ Show(v, "custom", 0)
    /\ UNCHANGED <<now, site>>

-----------------------------------------------------------------------------
\* The domain is verified or given up, the upstream fails or recovers.
SiteChanges ==
    /\ site' \in Sites \ {site}
    /\ UNCHANGED <<now, cache, visitor>>

\* Time passes.
Tick ==
    /\ now < MaxTime
    /\ now' = now + 1
    /\ UNCHANGED <<site, cache, visitor>>

\* The process restarts: the cache is empty and requests under way fail.
Restart ==
    /\ cache' = [u \in {} |-> [fetchedAt |-> 0, read |-> 0]]
    /\ visitor' = [v \in Visitors |->
                     IF visitor[v].pc \in {"looking", "fetching", "reading"}
                       THEN NewVisitor ELSE visitor[v]]
    /\ cache # cache' \/ visitor # visitor'
    /\ UNCHANGED <<now, site>>

-----------------------------------------------------------------------------
Serve(v) == Load(v) \/ LookUp(v) \/ LookUpFails(v)
Fetch(v) == Headers(v) \/ FetchFails(v) \/ BodyBreaks(v) \/ BodyRead(v)

Next ==
    \/ \E v \in Visitors : Open(v) \/ Reload(v) \/ Serve(v) \/ Fetch(v)
    \/ SiteChanges \/ Tick \/ Restart

\* The pending page refreshes itself, queries are answered or fail, and fetch() is
\* aborted after three seconds without headers.  Nothing makes the owner's server
\* answer, and nothing ends a body that it keeps sending.
Fairness ==
    \A v \in Visitors :
        WF_vars(Reload(v)) /\ WF_vars(Serve(v)) /\ WF_vars(FetchFails(v))

Spec == Init /\ [][Next]_vars /\ Fairness

-----------------------------------------------------------------------------
(***************************************************************************)
(* Safety.                                                                 *)
(***************************************************************************)

\* The cache checks its size before it inserts: it is bounded by one more than the
\* comment says, whatever requests overlap.
CacheBounded == Cardinality(DOMAIN cache) <= MaxEntries + 1

\* "Per-URL cache, TTL 60s": no visitor is shown a page that was current a TTL or
\* longer before the request, although fetches overlap, take long, and overwrite
\* each other's entries in any order.
FreshEnough == \A v \in Visitors : visitor[v].age < TTL

\* The inductive invariant behind them: an entry is dated no later than its content.
VisitorSound(v) ==
    /\ visitor[v].age < TTL
    /\ visitor[v].pc \in {"fetching", "reading"} => visitor[v].url \in Urls
    /\ visitor[v].pc = "reading" => visitor[v].began <= visitor[v].read
    /\ visitor[v].began <= now

IInv ==
    /\ TypeOK
    /\ CacheBounded
    /\ \A u \in DOMAIN cache : cache[u].fetchedAt <= cache[u].read
    /\ \A v \in Visitors : VisitorSound(v)

(***************************************************************************)
(* Liveness.                                                               *)
(***************************************************************************)

\* "watch for the site going live": whoever watches the pending page when the site
\* goes live for good is shown the site.  (Of the owner's own pending page, and of
\* the error page that a failing upstream leads to, it would be false.)
WatchersSeeTheSite ==
    \A v \in Visitors :
        (visitor[v].pc = "watching" /\ visitor[v].screen = "pending" /\ [](site = "live"))
            ~> visitor[v].screen = "site"

\* "so the visitor always sees *something*": every visit is answered, even if the
\* owner's server never is heard of, unless the server has begun to send a page that
\* never ends.
EveryVisitAnswered ==
    \A v \in Visitors :
        visitor[v].pc # "watching" ~>
            (visitor[v].pc = "watching" \/ [](visitor[v].pc = "reading"))

(***************************************************************************)
(* What a comment says and the code does not do.                           *)
(***************************************************************************)

\* "so the visitor always sees *something*", whatever the owner's server does.
EveryVisitEnds == \A v \in Visitors : visitor[v].pc # "watching" ~> visitor[v].pc = "watching"
=============================================================================
