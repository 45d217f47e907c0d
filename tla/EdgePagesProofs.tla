--------------------------- MODULE EdgePagesProofs ---------------------------
(***************************************************************************)
(* The page cache stays within one of its limit, and nothing it serves is  *)
(* stale, whatever requests overlap: for any browsers, any pages, any      *)
(* limit and any TTL.                                                      *)
(***************************************************************************)
EXTENDS EdgePages, FiniteSetTheorems, TLAPS

USE UrlsAssumption, BoundsAssumption

\* One browser at a time.
Sound(x) ==
    /\ x \in Visitor
    /\ x.age < TTL
    /\ x.pc \in {"fetching", "reading"} => x.url \in Urls
    /\ x.pc = "reading" => x.began <= x.read
    /\ x.began <= now

\* And the cache.
CacheSound ==
    /\ DOMAIN cache \in SUBSET Urls /\ cache \in [DOMAIN cache -> Entry]
    /\ CacheBounded
    /\ \A u \in DOMAIN cache : cache[u].fetchedAt <= cache[u].read

Parts == /\ now \in Nat /\ site \in Sites
         /\ visitor \in [Visitors -> Visitor]
         /\ \A v \in Visitors : Sound(visitor[v])

LEMMA Split == IInv <=> Parts /\ CacheSound
<1>1. visitor \in [Visitors -> Visitor] => \A v \in Visitors : visitor[v] \in Visitor
  OBVIOUS
<1>2. visitor \in [Visitors -> Visitor] =>
        ((\A v \in Visitors : VisitorSound(v)) <=> \A v \in Visitors : Sound(visitor[v]))
  BY <1>1, Zenon DEF VisitorSound, Sound
<1> QED BY <1>2, Zenon DEF IInv, TypeOK, Parts, CacheSound

LEMMA AnswersAreSound ==
    ASSUME now \in Nat, NEW age \in Nat, age < TTL,
           NEW screen \in {"blank", "site", "pending", "error", "custom"}
    PROVE  Sound([NewVisitor EXCEPT !.screen = screen, !.age = age])
<1> DEFINE n == NewVisitor
           x == [n EXCEPT !.screen = screen, !.age = age]
<1>1. n \in Visitor /\ n.pc = "watching" /\ n.began = 0
  BY DEF NewVisitor, Visitor
<1> HIDE DEF n
<1>2. x \in Visitor /\ x.pc = "watching" /\ x.began = 0 /\ x.age = age
  BY <1>1 DEF Visitor
<1> HIDE DEF x
<1>3. Sound(x)
  BY <1>2 DEF Sound
<1> QED BY <1>3 DEF x, n

LEMMA EmptyCache ==
    ASSUME NEW c, c = [u \in {} |-> [fetchedAt |-> 0, read |-> 0]]
    PROVE  /\ DOMAIN c \in SUBSET Urls /\ c \in [DOMAIN c -> Entry]
           /\ Cardinality(DOMAIN c) <= MaxEntries + 1
           /\ \A u \in DOMAIN c : c[u].fetchedAt <= c[u].read
<1>1. DOMAIN c = {}
  OBVIOUS
<1>2. Cardinality({}) = 0
  BY FS_EmptySet
<1> QED BY <1>1, <1>2

LEMMA InitInv == Init => IInv
<1> SUFFICES ASSUME Init PROVE IInv
  OBVIOUS
<1>1. Sound(NewVisitor) /\ now \in Nat /\ site \in Sites
  BY DEF Init, Sound, NewVisitor, Visitor
<1>2. Parts
  BY <1>1 DEF Init, Parts, Sound
<1>3. CacheSound
  BY EmptyCache DEF Init, CacheSound, CacheBounded
<1> QED BY <1>2, <1>3, Split

\* A step of one browser that leaves the cache alone.
LEMMA OneVisitor ==
    ASSUME IInv, NEW v \in Visitors, NEW x, Sound(x),
           visitor' = [visitor EXCEPT ![v] = x], UNCHANGED <<now, site, cache>>
    PROVE  IInv'
<1>1. Parts'
  BY Split DEF Parts, Sound
<1>2. CacheSound'
  BY Split DEF CacheSound, CacheBounded
<1> QED BY <1>1, <1>2, Split DEF IInv, TypeOK, Parts, CacheSound, Sound, VisitorSound

-----------------------------------------------------------------------------
LEMMA LookUpInv == ASSUME IInv, NEW v \in Visitors, LookUp(v) PROVE IInv'
<1>1. Sound(visitor[v]) /\ now \in Nat /\ visitor[v] \in Visitor /\ UNCHANGED <<now, site, cache>>
  BY Split DEF Parts, LookUp
<1>2. CASE Fallback(v)
  <2>1. visitor[v].page \in {"blank", "site", "pending", "error", "custom"}
    BY <1>1 DEF Visitor
  <2> QED BY <1>1, <1>2, <2>1, AnswersAreSound, OneVisitor DEF Fallback, Show
<1>3. ASSUME NEW u \in Urls, Usable(u), Show(v, "custom", Since(cache[u].read)) PROVE IInv'
  <2>1. u \in DOMAIN cache /\ cache[u] \in Entry /\ cache[u].fetchedAt <= cache[u].read
    BY <1>3, Split DEF Usable, CacheSound
  <2>2. Since(cache[u].read) \in Nat /\ Since(cache[u].read) < TTL
    BY <1>1, <1>3, <2>1 DEF Since, Usable, Entry
  <2> QED BY <1>1, <1>3, <2>2, AnswersAreSound, OneVisitor DEF Show
<1>4. ASSUME NEW u \in Urls,
             visitor' = [visitor EXCEPT ![v].pc = "fetching", ![v].url = u, ![v].began = now]
      PROVE  IInv'
  <2> DEFINE x == [visitor[v] EXCEPT !.pc = "fetching", !.url = u, !.began = now]
  <2>1. Sound(x)
    <3>1. x \in Visitor /\ x.pc = "fetching" /\ x.url = u /\ x.began = now /\ x.age = visitor[v].age
      BY <1>1 DEF Visitor
    <3>2. x.age < TTL
      BY <1>1, <3>1 DEF Sound
    <3> HIDE DEF x
    <3> QED BY <1>1, <3>1, <3>2 DEF Sound
  <2>2. visitor' = [visitor EXCEPT ![v] = x]
    BY <1>4
  <2> HIDE DEF x
  <2> QED BY <1>1, <2>1, <2>2, OneVisitor
<1> QED BY <1>2, <1>3, <1>4 DEF LookUp

LEMMA HeadersInv == ASSUME IInv, NEW v \in Visitors, Headers(v) PROVE IInv'
<1> DEFINE x == [visitor[v] EXCEPT !.pc = "reading", !.read = now]
<1>1. Sound(visitor[v]) /\ now \in Nat
  BY Split DEF Parts
<1>2. Sound(x)
  BY <1>1 DEF Sound, Visitor, Headers
<1>3. visitor' = [visitor EXCEPT ![v] = x] /\ UNCHANGED <<now, site, cache>>
  BY DEF Headers
<1> HIDE DEF x
<1> QED BY <1>2, <1>3, OneVisitor

\* Whatever is evicted, one more entry than the limit is the most there can be.
LEMMA EvictedIsSmall ==
    ASSUME IInv, NEW kept \in Evicted, NEW u
    PROVE  kept \subseteq DOMAIN cache /\ Cardinality(kept \cup {u}) <= MaxEntries + 1
<1>1. IsFiniteSet(DOMAIN cache) /\ Cardinality(DOMAIN cache) \in Nat
  BY Split, FS_Subset, FS_CardinalityType DEF CacheSound
<1>2. kept \subseteq DOMAIN cache
  BY DEF Evicted
<1>3. Cardinality(kept) <= MaxEntries /\ Cardinality(kept) \in Nat /\ IsFiniteSet(kept)
  <2>1. CASE Cardinality(DOMAIN cache) > MaxEntries
    <3>1. PICK w \in DOMAIN cache : kept = DOMAIN cache \ {w}
      BY <2>1 DEF Evicted
    <3>2. IsFiniteSet(kept) /\ Cardinality(kept) = Cardinality(DOMAIN cache) - 1
      BY <1>1, <3>1, FS_RemoveElement
    <3>3. Cardinality(DOMAIN cache) <= MaxEntries + 1
      BY Split DEF CacheSound, CacheBounded
    <3> QED BY <1>1, <2>1, <3>2, <3>3
  <2>2. CASE ~(Cardinality(DOMAIN cache) > MaxEntries)
    BY <1>1, <2>2 DEF Evicted
  <2> QED BY <2>1, <2>2
<1>4. Cardinality(kept \cup {u}) = Cardinality(kept) \/ Cardinality(kept \cup {u}) = Cardinality(kept) + 1
  BY <1>3, FS_AddElement
<1> QED BY <1>2, <1>3, <1>4

LEMMA BodyReadInv == ASSUME IInv, NEW v \in Visitors, BodyRead(v) PROVE IInv'
<1>1. Sound(visitor[v]) /\ now \in Nat /\ UNCHANGED <<now, site>>
  BY Split DEF Parts, BodyRead
<1> DEFINE url == visitor[v].url
           x == [NewVisitor EXCEPT !.screen = "custom", !.age = 0]
           new == [fetchedAt |-> visitor[v].began, read |-> visitor[v].read]
<1>2. url \in Urls /\ new \in Entry /\ new.fetchedAt <= new.read
  BY <1>1 DEF Sound, BodyRead, Visitor, Entry
<1>3. PICK kept \in Evicted :
        cache' = [u \in kept \cup {url} |-> IF u = url THEN new ELSE cache[u]]
  BY DEF BodyRead
<1>4. Sound(x) /\ visitor' = [visitor EXCEPT ![v] = x]
  BY <1>1, AnswersAreSound DEF BodyRead, Show
<1>5. CacheSound /\ kept \subseteq DOMAIN cache /\ Cardinality(kept \cup {url}) <= MaxEntries + 1
  BY Split, EvictedIsSmall
<1> HIDE DEF x, new, url
<1>6. Parts'
  BY <1>1, <1>4, Split DEF Parts, Sound
<1>7. CacheSound'
  BY <1>2, <1>3, <1>5 DEF CacheSound, CacheBounded
<1> QED BY <1>6, <1>7, Split DEF IInv, TypeOK, Parts, CacheSound, Sound, VisitorSound

LEMMA RestartInv == ASSUME IInv, Restart PROVE IInv'
<1>1. CacheSound'
  BY EmptyCache DEF Restart, CacheSound, CacheBounded
<1>2. now' = now /\ site' = site /\ now \in Nat
  BY Split DEF Restart, Parts
<1>3. Sound(NewVisitor)
  BY <1>2 DEF Sound, NewVisitor, Visitor
<1>4. Parts'
  BY <1>2, <1>3, Split DEF Parts, Sound, Restart
<1> QED BY <1>1, <1>4 DEF IInv, TypeOK, Parts, CacheSound, Sound, VisitorSound

LEMMA StepInv == IInv /\ [Next]_vars => IInv'
<1> SUFFICES ASSUME IInv, [Next]_vars PROVE IInv'
  OBVIOUS
<1>1. Parts /\ CacheSound /\ now \in Nat
  BY Split DEF Parts
<1>2. Sound(NewVisitor) /\ Sound([NewVisitor EXCEPT !.pc = "loading"])
      /\ Sound([NewVisitor EXCEPT !.screen = "site"])
  BY <1>1 DEF Sound, NewVisitor, Visitor
<1>3. ASSUME NEW v \in Visitors, Open(v) \/ Reload(v) PROVE IInv'
  BY <1>2, <1>3, OneVisitor DEF Open, Reload, Ask
<1>4. ASSUME NEW v \in Visitors, Load(v) PROVE IInv'
  <2> DEFINE x == [visitor[v] EXCEPT !.pc = "looking",
                     !.page = IF site = "pending" THEN "pending" ELSE "error"]
  <2>1. Sound(x)
    BY <1>1, <1>4 DEF Parts, Sound, Visitor, Load
  <2>2. \/ visitor' = [visitor EXCEPT ![v] = [NewVisitor EXCEPT !.screen = "site"]]
        \/ visitor' = [visitor EXCEPT ![v] = x]
    BY <1>4 DEF Load
  <2> HIDE DEF x
  <2> QED BY <1>2, <1>4, <2>1, <2>2, OneVisitor DEF Load
<1>5. ASSUME NEW v \in Visitors, LookUpFails(v) PROVE IInv'
  BY <1>1, <1>5, AnswersAreSound, OneVisitor DEF LookUpFails, Show
<1>6. ASSUME NEW v \in Visitors, FetchFails(v) \/ BodyBreaks(v) PROVE IInv'
  <2>1. visitor[v].page \in {"blank", "site", "pending", "error", "custom"}
    BY <1>1 DEF Parts, Visitor
  <2> QED BY <1>1, <1>6, <2>1, AnswersAreSound, OneVisitor DEF FetchFails, BodyBreaks, Fallback, Show
<1>7. CASE SiteChanges
  <2>1. Parts'
    BY <1>1, <1>7 DEF SiteChanges, Parts, Sound
  <2>2. CacheSound'
    BY <1>1, <1>7 DEF SiteChanges, CacheSound, CacheBounded
  <2> QED BY <2>1, <2>2 DEF IInv, TypeOK, Parts, CacheSound, Sound, VisitorSound
<1>8. CASE Tick
  <2>1. Parts'
    BY <1>1, <1>8 DEF Tick, Parts, Sound, Visitor
  <2>2. CacheSound'
    BY <1>1, <1>8 DEF Tick, CacheSound, CacheBounded
  <2> QED BY <2>1, <2>2 DEF IInv, TypeOK, Parts, CacheSound, Sound, VisitorSound
<1>9. CASE UNCHANGED vars
  BY <1>9 DEF vars, IInv, TypeOK, CacheBounded, VisitorSound
<1> QED
  BY <1>3, <1>4, <1>5, <1>6, <1>7, <1>8, <1>9, LookUpInv, HeadersInv, BodyReadInv, RestartInv
  DEF Next, Serve, Fetch

-----------------------------------------------------------------------------
\* IInv is an invariant: an entry of the cache is dated no later than its content.
THEOREM Invariance == Spec => []IInv
<1> QED BY InitInv, StepInv, PTL DEF Spec

\* Types are preserved: only configured pages are ever cached.
THEOREM TypeCorrect == Spec => []TypeOK
<1>1. IInv => TypeOK
  BY DEF IInv
<1> QED BY Invariance, <1>1, PTL

\* The check of cache.size before the insertion bounds the cache, by one more.
THEOREM BoundedCache == Spec => []CacheBounded
<1>1. IInv => CacheBounded
  BY DEF IInv
<1> QED BY Invariance, <1>1, PTL

\* No visitor is shown a page that was replaced a TTL or longer before.
THEOREM NothingStale == Spec => []FreshEnough
<1>1. IInv => FreshEnough
  BY DEF IInv, FreshEnough, VisitorSound
<1> QED BY Invariance, <1>1, PTL
=============================================================================
