------------------------------ MODULE Sessions ------------------------------
(***************************************************************************)
(* Portal sessions: the sessions table with its sliding expiry             *)
(* (AuthUserService.me, signOut, mintSession), the nightly purge, and the  *)
(* cookie in a browser, which the portal sets once.                        *)
(*                                                                         *)
(* Time is a clock of days.  A request reads its session, and writes its   *)
(* copy back with a new expiry if the session is past its half; a request  *)
(* lasts at most Latency.                                                  *)
(***************************************************************************)
EXTENDS Integers

CONSTANTS
    Tokens,      \* bound: session tokens
    NoToken,
    Handlers,    \* requests under way
    TTL,         \* SESSION_TTL_DAYS, and the maxAge of the cookie
    KeepRevoked, \* how long the purge keeps revoked sessions
    Latency,     \* how long a request can take
    MaxTime,     \* bound: the clock
    MaxFaults    \* bound: awaits that throw

Half == TTL \div 2

ASSUME TokensAssumption == NoToken \notin Tokens
ASSUME TimesAssumption ==
    /\ TTL \in Nat /\ Latency \in Nat /\ KeepRevoked \in Nat
    /\ TTL = 2 * Half
    /\ Half > 0 /\ Latency <= Half
ASSUME BoundsAssumption == MaxTime \in Nat /\ MaxFaults \in Nat

VARIABLES
    now,        \* the clock
    sessions,   \* the sessions table
    cookie,     \* the browser's hee_session
    task,       \* the local state of every request
    purge,      \* when the purge under way began, or Never
    faults,     \* awaits that have thrown
    lastSeen,   \* history: the start of the latest request that found the session valid
    lastUse,    \* history: the start of the latest request served per session
    signedOut   \* history: sessions whose sign-out has reached the control plane

vars == <<now, sessions, cookie, task, purge, faults, lastSeen, lastUse, signedOut>>
use == <<lastSeen, lastUse>>

-----------------------------------------------------------------------------
Never == -1
Times == Nat \cup {Never}

Session == [state : {"none", "stored", "gone"}, expires : Nat, revoked : Times]
Cookie == [token : Tokens \cup {NoToken}, until : Nat]

\* "sliding": past its half, the session is about to be saved; "saved": it has
\* been, and the memberships are being read; "leaving": sign-out has not reached
\* the control plane yet.
Task == [pc : {"idle", "sliding", "saved", "leaving"}, token : Tokens \cup {NoToken},
         copy : Session, at : Nat]

NoSession == [state |-> "none", expires |-> 0, revoked |-> Never]
NoCookie == [token |-> NoToken, until |-> 0]
Idle == [pc |-> "idle", token |-> NoToken, copy |-> NoSession, at |-> 0]

\* What me() finds: revokedAt IsNull, expiresAt MoreThan(now).
Valid(t) ==
    sessions[t].state = "stored" /\ sessions[t].revoked = Never /\ sessions[t].expires > now

TypeOK ==
    /\ now \in Nat
    /\ sessions \in [Tokens -> Session]
    /\ cookie \in Cookie
    /\ task \in [Handlers -> Task]
    /\ purge \in Times
    /\ faults \in Nat
    /\ lastSeen \in [Tokens -> Times]
    /\ lastUse \in [Tokens -> Times]
    /\ signedOut \in SUBSET Tokens

Init ==
    /\ now = 0
    /\ sessions = [t \in Tokens |-> NoSession]
    /\ cookie = NoCookie
    /\ task = [k \in Handlers |-> Idle]
    /\ purge = Never
    /\ faults = 0
    /\ lastSeen = [t \in Tokens |-> Never]
    /\ lastUse = [t \in Tokens |-> Never]
    /\ signedOut = {}

-----------------------------------------------------------------------------
Later(a, b) == IF a < b THEN b ELSE a

\* A request finds session t valid now; the one that did so at u is served.
Seen(t) == lastSeen' = [lastSeen EXCEPT ![t] = now]
Served(t, u) == lastUse' = [lastUse EXCEPT ![t] = Later(@, u)]

Finish(k) == task' = [task EXCEPT ![k] = Idle]

\* A magic link or an invitation link is exchanged for a fresh session, and the
\* portal sets the cookie.
SignIn(t) ==
    /\ sessions[t].state = "none"
    /\ sessions' = [sessions EXCEPT ![t] =
                      [state |-> "stored", expires |-> now + TTL, revoked |-> Never]]
    /\ cookie' = [token |-> t, until |-> now + TTL]
    /\ Seen(t)
    /\ Served(t, now)
    /\ UNCHANGED <<now, task, purge, faults, signedOut>>

-----------------------------------------------------------------------------
(***************************************************************************)
(* me(), for every request of the portal.                                  *)
(***************************************************************************)

\* The session is young: nothing to write, and the memberships are found or not.
Use(t) ==
    /\ Valid(t)
    /\ now <= sessions[t].expires - Half
    /\ Seen(t)
    /\ Served(t, now) \/ UNCHANGED lastUse
    /\ UNCHANGED <<now, sessions, cookie, task, purge, faults, signedOut>>

\* Mutant of UsePastHalf: the query forgets expires_at.
UsePastHalfExpired(k, t) ==
    /\ task[k].pc = "idle"
    /\ sessions[t].state = "stored" /\ sessions[t].revoked = Never
    /\ now > sessions[t].expires - Half
    /\ task' = [task EXCEPT ![k] = [pc |-> "sliding", token |-> t, at |-> now,
                                    copy |-> [sessions[t] EXCEPT !.expires = now + TTL]]]
    /\ Seen(t)
    /\ UNCHANGED <<now, sessions, cookie, purge, faults, lastUse, signedOut>>

\* Mutant of UsePastHalf: the lifetime is added to the old expiry.
UsePastHalfStacks(k, t) ==
    /\ task[k].pc = "idle"
    /\ Valid(t)
    /\ now > sessions[t].expires - Half
    /\ task' = [task EXCEPT ![k] = [pc |-> "sliding", token |-> t, at |-> now,
                                    copy |-> [sessions[t] EXCEPT !.expires = @ + TTL]]]
    /\ Seen(t)
    /\ UNCHANGED <<now, sessions, cookie, purge, faults, lastUse, signedOut>>

\* "Extend expiresAt if we're more than halfway to expiry", in the copy.
UsePastHalf(k, t) ==
    /\ task[k].pc = "idle"
    /\ Valid(t)
    /\ now > sessions[t].expires - Half
    /\ task' = [task EXCEPT ![k] = [pc |-> "sliding", token |-> t, at |-> now,
                                    copy |-> [sessions[t] EXCEPT !.expires = now + TTL]]]
    /\ Seen(t)
    /\ UNCHANGED <<now, sessions, cookie, purge, faults, lastUse, signedOut>>

\* Mutant of Write: update() of the columns, which leaves a purged row purged.
WriteByUpdate(k) ==
    sessions' = [sessions EXCEPT ![task[k].token] = IF @.state = "stored" THEN task[k].copy ELSE @]

\* save(session): every column of the copy, and the row again if it was purged.
Write(k) == sessions' = [sessions EXCEPT ![task[k].token] = task[k].copy]

Save(k) ==
    /\ task[k].pc = "sliding"
    /\ Write(k)
    /\ task' = [task EXCEPT ![k].pc = "saved"]
    /\ UNCHANGED <<now, cookie, purge, faults, use, signedOut>>

\* The memberships are read and the request is answered.
Serve(k) ==
    /\ task[k].pc = "saved"
    /\ Served(task[k].token, task[k].at)
    /\ Finish(k)
    /\ UNCHANGED <<now, sessions, cookie, purge, faults, lastSeen, signedOut>>

\* An await of me() throws or the process dies, and the browser gets an error.
\* The save that failed may have taken effect; the one before a failing
\* members.find has.
Abort(k) ==
    /\ task[k].pc \in {"sliding", "saved"}
    /\ faults < MaxFaults
    /\ faults' = faults + 1
    /\ \/ UNCHANGED sessions
       \/ task[k].pc = "sliding" /\ Write(k)
    /\ Finish(k)
    /\ UNCHANGED <<now, cookie, purge, use, signedOut>>

-----------------------------------------------------------------------------
(***************************************************************************)
(* Signing out.                                                            *)
(***************************************************************************)

\* The portal forwards the browser's sign-out to the control plane.
SignOut(k) ==
    /\ task[k].pc = "idle"
    /\ cookie.token # NoToken /\ cookie.until > now
    /\ task' = [task EXCEPT ![k] = [Idle EXCEPT !.pc = "leaving", !.token = cookie.token,
                                                !.at = now]]
    /\ UNCHANGED <<now, sessions, cookie, purge, faults, use, signedOut>>

\* update({ tokenHash }, { revokedAt }), of the row if there is one.
MarkRevoked(t) ==
    /\ sessions' = IF sessions[t].state = "stored"
                     THEN [sessions EXCEPT ![t].revoked = now] ELSE sessions
    /\ signedOut' = signedOut \cup {t}

\* The sign-out succeeds, and the portal deletes the cookie.
Revoke(k) ==
    /\ task[k].pc = "leaving"
    /\ MarkRevoked(task[k].token)
    /\ cookie' = NoCookie
    /\ Finish(k)
    /\ UNCHANGED <<now, purge, faults, use>>

\* The call fails, before or after it took effect: "ignore, we're clearing the
\* cookie either way".
RevokeFails(k) ==
    /\ task[k].pc = "leaving"
    /\ faults < MaxFaults
    /\ faults' = faults + 1
    /\ MarkRevoked(task[k].token) \/ UNCHANGED <<sessions, signedOut>>
    /\ cookie' = NoCookie
    /\ Finish(k)
    /\ UNCHANGED <<now, purge, use>>

-----------------------------------------------------------------------------
(***************************************************************************)
(* The nightly purge.                                                      *)
(***************************************************************************)
Delete(T) ==
    sessions' = [t \in Tokens |-> IF t \in T /\ sessions[t].state = "stored"
                                  THEN [sessions[t] EXCEPT !.state = "gone"] ELSE sessions[t]]

\* The first statement deletes what has expired.
PurgeExpired ==
    /\ purge = Never
    /\ purge' = now
    /\ Delete({t \in Tokens : sessions[t].expires < now})
    /\ UNCHANGED <<now, cookie, task, faults, use, signedOut>>

\* The second one deletes what was revoked long enough before the tick.
PurgeRevoked ==
    /\ purge # Never
    /\ purge' = Never
    /\ Delete({t \in Tokens : sessions[t].revoked # Never /\ sessions[t].revoked < purge - KeepRevoked})
    /\ UNCHANGED <<now, cookie, task, faults, use, signedOut>>

\* Time passes, but no request outlasts Latency.
Tick ==
    /\ now < MaxTime
    /\ \A k \in Handlers : task[k].pc # "idle" => now < task[k].at + Latency
    /\ now' = now + 1
    /\ UNCHANGED <<sessions, cookie, task, purge, faults, use, signedOut>>

-----------------------------------------------------------------------------
Request(k) ==
    \/ \E t \in Tokens : UsePastHalf(k, t)
    \/ SignOut(k)

Continue(k) == Save(k) \/ Serve(k) \/ Revoke(k) \/ RevokeFails(k) \/ Abort(k)

Next ==
    \/ \E t \in Tokens : SignIn(t) \/ Use(t)
    \/ \E k \in Handlers : Request(k) \/ Continue(k)
    \/ PurgeExpired \/ PurgeRevoked
    \/ Tick

Spec == Init /\ [][Next]_vars

-----------------------------------------------------------------------------
(***************************************************************************)
(* Safety.                                                                 *)
(***************************************************************************)

\* Sliding window: a session that was served within the last half of its length
\* and not signed out is valid, although requests save expiries out of order and
\* the purge runs at any time.
SlidingWindow ==
    \A t \in Tokens \ signedOut :
        lastUse[t] # Never /\ now < lastUse[t] + Half => Valid(t)

\* ... and no further than that: a session that no request presented for a whole
\* lifetime is over, whichever of its requests was the last to save it, and whether
\* or not that one was served.
UnusedDies ==
    \A t \in Tokens : Valid(t) => lastSeen[t] # Never /\ now < lastSeen[t] + TTL

\* What expired, or was revoked, is dead for good once the requests that had read
\* it before are over: until then a stale save may revive it, even after the purge.
Dead(t) ==
    \/ sessions[t].state # "none" /\ sessions[t].expires + Latency <= now
    \/ sessions[t].revoked # Never /\ sessions[t].revoked + Latency < now
DeadForGood == [][\A t \in Tokens : Dead(t) => ~Valid(t)']_vars

(***************************************************************************)
(* The inductive invariant behind them.                                    *)
(***************************************************************************)

\* A request under way is young.  What it is about to save was valid when it
\* began: the session's expiry and its revocation, if any, came later.  What it
\* has saved is there until the request is over, unless somebody signs out.
TaskSound(k) ==
    LET x == task[k]
    IN  /\ x.pc # "idle" => x.token \in Tokens /\ x.at <= now /\ now <= x.at + Latency
        /\ x.pc \in {"sliding", "saved"} =>
             sessions[x.token].state # "none" /\ x.at <= lastSeen[x.token]
        /\ x.pc = "sliding" =>
             /\ x.copy.state = "stored" /\ x.copy.revoked = Never
             /\ x.copy.expires = x.at + TTL
             /\ sessions[x.token].expires > x.at
             /\ sessions[x.token].revoked # Never => sessions[x.token].revoked >= x.at
        /\ x.pc = "saved" /\ x.token \notin signedOut =>
             sessions[x.token].state = "stored" /\ sessions[x.token].expires >= x.at + Half

SessionSound(t) ==
    /\ lastUse[t] <= lastSeen[t] /\ lastSeen[t] <= now
    /\ sessions[t].state = "none" => lastSeen[t] = Never /\ sessions[t].revoked = Never
    /\ sessions[t].state # "none" =>
         lastUse[t] # Never /\ sessions[t].expires <= lastSeen[t] + TTL
    /\ lastUse[t] # Never /\ t \notin signedOut =>
         /\ lastUse[t] + Half <= sessions[t].expires
         /\ sessions[t].revoked = Never
         /\ sessions[t].state = "gone" => sessions[t].expires <= now

IInv ==
    /\ TypeOK
    /\ \A t \in Tokens : SessionSound(t)
    /\ \A k \in Handlers : TaskSound(k)

(***************************************************************************)
(* What comments say and the program does not do.                          *)
(***************************************************************************)

\* "Sessions last 30 days, sliding window refreshed on use": who was served
\* within the last half has a cookie to be served with.
BrowserStaysSignedIn ==
    cookie.token # NoToken /\ lastUse[cookie.token] # Never
    /\ now < lastUse[cookie.token] + Half => cookie.until > now

\* "sign-out": a session whose sign-out the control plane has carried out is never
\* valid again.  The save of a me() that had read it before takes the revocation back.
SignedOutForGood == [][\A t \in signedOut : ~Valid(t) => ~Valid(t)']_vars
=============================================================================
