--------------------------- MODULE SessionsProofs ---------------------------
(***************************************************************************)
(* The sliding window, and the death of expired and revoked sessions, for  *)
(* any sessions and requests, and any lifetime at least twice as long as a *)
(* request can take.                                                       *)
(***************************************************************************)
EXTENDS Sessions, TLAPS

USE TokensAssumption, TimesAssumption, BoundsAssumption

LEMMA Constants ==
    /\ NoSession \in Session /\ NoSession.state = "none" /\ NoSession.revoked = Never
    /\ NoCookie \in Cookie
    /\ Idle \in Task /\ Idle.pc = "idle"
    /\ Half \in Nat /\ TTL = Half + Half /\ Half > 0 /\ Latency \in Nat /\ Latency <= Half
BY DEF NoSession, Session, NoCookie, Cookie, Idle, Task, Never, Times, Half

LEMMA InitInv == Init => IInv
<1> SUFFICES ASSUME Init PROVE IInv
  OBVIOUS
<1>1. TypeOK
  BY Constants DEF Init, TypeOK, Times
<1>2. ASSUME NEW t \in Tokens PROVE SessionSound(t)
  <2>1. sessions[t] = NoSession /\ lastSeen[t] = Never /\ lastUse[t] = Never /\ now = 0
    BY DEF Init
  <2> QED BY <2>1, Constants DEF SessionSound, Never
<1>3. \A k \in Handlers : TaskSound(k)
  BY Constants DEF Init, TaskSound
<1> QED BY <1>1, <1>2, <1>3 DEF IInv

-----------------------------------------------------------------------------
\* What every step does to a session that exists: it is deleted only when it is
\* over, it ends no earlier or at least half a lifetime from now, and it is revoked
\* now or not at all; and a request was seen, or a sign-out arrived, once and for all.
Ages ==
    \A t \in Tokens : sessions[t].state # "none" =>
        /\ sessions'[t].state # "none"
        /\ sessions[t].state = "stored" =>
             \/ sessions'[t].state = "stored"
             \/ sessions[t].expires < now \/ sessions[t].revoked # Never
        /\ sessions'[t].expires >= sessions[t].expires \/ sessions'[t].expires >= now + Half
        /\ sessions'[t].revoked \in {Never, sessions[t].revoked, now}
        /\ lastSeen'[t] >= lastSeen[t]
        /\ t \in signedOut => t \in signedOut'

LEMMA SeenTyped == ASSUME IInv PROVE \A t \in Tokens : lastSeen[t] \in Int
<1> SUFFICES ASSUME NEW t \in Tokens PROVE lastSeen[t] \in Int
  OBVIOUS
<1>1. lastSeen[t] \in Times
  BY DEF IInv, TypeOK
<1> QED BY <1>1 DEF Times, Never

\* So a request under way stays sound while the table moves on under it.
LEMMA TaskStays ==
    ASSUME IInv, NEW k \in Handlers, task'[k] = task[k], now' = now, Ages,
           sessions' \in [Tokens -> Session], lastSeen' \in [Tokens -> Times]
    PROVE  TaskSound(k)'
<1> DEFINE x == task[k]
           t == x.token
<1>1. x \in Task /\ TaskSound(k) /\ now \in Nat /\ x.at \in Nat
  BY DEF IInv, TypeOK, Task
<1>2. x.pc # "idle" => t \in Tokens /\ x.at <= now /\ now <= x.at + Latency
  BY <1>1 DEF TaskSound
<1>3. ASSUME x.pc \in {"sliding", "saved"}
      PROVE  /\ sessions[t] \in Session /\ sessions'[t] \in Session
             /\ lastSeen[t] \in Times /\ lastSeen'[t] \in Times
             /\ sessions[t].state # "none" /\ x.at <= lastSeen[t]
             /\ sessions'[t].state # "none" /\ x.at <= lastSeen'[t]
  <2>1. t \in Tokens
    BY <1>2, <1>3
  <2>2. sessions[t] \in Session /\ sessions'[t] \in Session
        /\ lastSeen[t] \in Times /\ lastSeen'[t] \in Times
    BY <2>1 DEF IInv, TypeOK
  <2>3. sessions[t].state # "none" /\ x.at <= lastSeen[t]
    BY <1>1, <1>3 DEF TaskSound
  <2>4. sessions'[t].state # "none" /\ lastSeen'[t] >= lastSeen[t]
    BY <2>1, <2>3 DEF Ages
  <2> QED BY <1>1, <2>2, <2>3, <2>4 DEF Times, Never
<1>4. ASSUME x.pc = "sliding"
      PROVE  /\ sessions'[t].expires > x.at
             /\ sessions'[t].revoked # Never => sessions'[t].revoked >= x.at
  <2>1. /\ sessions[t].expires > x.at
        /\ sessions[t].revoked # Never => sessions[t].revoked >= x.at
    BY <1>1, <1>4 DEF TaskSound
  <2>2. /\ sessions'[t].expires >= sessions[t].expires \/ sessions'[t].expires >= now + Half
        /\ sessions'[t].revoked \in {Never, sessions[t].revoked, now}
    BY <1>2, <1>3, <1>4 DEF Ages
  <2> QED BY <1>1, <1>2, <1>3, <1>4, <2>1, <2>2, Constants DEF Session, Times, Never
<1>5. ASSUME x.pc = "saved", t \notin signedOut'
      PROVE  sessions'[t].state = "stored" /\ sessions'[t].expires >= x.at + Half
  <2>1. t \in Tokens /\ t \notin signedOut
    BY <1>2, <1>3, <1>5 DEF Ages
  <2>2. sessions[t].state = "stored" /\ sessions[t].expires >= x.at + Half
    BY <1>1, <1>5, <2>1 DEF TaskSound
  <2>3. sessions[t].revoked = Never
    BY <2>1, <2>2 DEF IInv, SessionSound
  <2>4. sessions[t].expires \in Nat /\ sessions'[t].expires \in Nat
    BY <1>3, <1>5 DEF Session
  <2>5. ~(sessions[t].expires < now)
    BY <1>1, <1>2, <1>5, <2>2, <2>4, Constants
  <2>6. sessions'[t].state = "stored"
    BY <2>1, <2>2, <2>3, <2>5 DEF Ages
  <2>7. sessions'[t].expires >= sessions[t].expires \/ sessions'[t].expires >= now + Half
    BY <2>1, <2>2 DEF Ages
  <2>8. sessions'[t].expires >= x.at + Half
    BY <1>1, <1>2, <1>5, <2>2, <2>4, <2>7, Constants
  <2> QED BY <2>6, <2>8
<1>6. x.pc = "sliding" => x.copy.state = "stored" /\ x.copy.revoked = Never
                          /\ x.copy.expires = x.at + TTL
  BY <1>1 DEF TaskSound
<1> QED BY <1>2, <1>3, <1>4, <1>5, <1>6 DEF TaskSound

\* A request that is over promises nothing.
LEMMA IdleSound == ASSUME NEW k \in Handlers, task'[k] = Idle PROVE TaskSound(k)'
BY Constants DEF TaskSound

\* The requests other than k, when k takes a step.
LEMMA OthersStay ==
    ASSUME IInv, NEW k \in Handlers, NEW x, task' = [task EXCEPT ![k] = x], TaskSound(k)',
           now' = now, Ages, sessions' \in [Tokens -> Session],
           lastSeen' \in [Tokens -> Times]
    PROVE  \A j \in Handlers : TaskSound(j)'
<1> SUFFICES ASSUME NEW j \in Handlers, j # k PROVE TaskSound(j)'
  OBVIOUS
<1>1. task'[j] = task[j]
  BY DEF IInv, TypeOK
<1> QED BY <1>1, TaskStays

-----------------------------------------------------------------------------
\* The latest request is the one that begins now.
LEMMA SeenNow ==
    ASSUME IInv, NEW t \in Tokens, Seen(t)
    PROVE  /\ now \in Nat /\ lastSeen' = [lastSeen EXCEPT ![t] = now]
           /\ lastSeen' \in [Tokens -> Times]
           /\ lastSeen'[t] = now
           /\ \A u \in Tokens : lastSeen[u] \in Times /\ lastSeen'[u] \in Times
                                 /\ lastSeen'[u] >= lastSeen[u]
<1>1. now \in Nat /\ lastSeen' = [lastSeen EXCEPT ![t] = now] /\ lastSeen \in [Tokens -> Times]
  BY DEF IInv, TypeOK, Seen
<1>2. lastSeen[t] <= now
  BY DEF IInv, SessionSound
<1> QED BY <1>1, <1>2 DEF Times, Never

LEMMA SignInInv == ASSUME IInv, NEW t \in Tokens, SignIn(t) PROVE IInv'
<1> USE DEF IInv
<1> DEFINE s == [state |-> "stored", expires |-> now + TTL, revoked |-> Never]
<1>1. /\ sessions' = [sessions EXCEPT ![t] = s] /\ sessions[t].state = "none" /\ now \in Nat
      /\ lastUse' = [lastUse EXCEPT ![t] = Later(lastUse[t], now)]
      /\ UNCHANGED <<now, task, signedOut>>
  BY DEF SignIn, Served, TypeOK
<1>2. s \in Session
  BY <1>1 DEF Session, Times, TypeOK
<1>3. /\ lastSeen' = [lastSeen EXCEPT ![t] = now] /\ lastSeen'[t] = now
      /\ lastSeen' \in [Tokens -> Times]
      /\ \A u \in Tokens : lastSeen[u] \in Times /\ lastSeen'[u] \in Times
                             /\ lastSeen'[u] >= lastSeen[u]
  BY SeenNow DEF SignIn
<1>4. TypeOK'
  BY <1>1, <1>2, <1>3 DEF TypeOK, SignIn, Cookie, Later, Times
<1>5. ASSUME NEW u \in Tokens PROVE SessionSound(u)'
  <2>1. CASE u = t
    <3>1. lastUse[t] = Never
      BY <1>1, <1>3 DEF TypeOK, SessionSound, Times, Never
    <3>2. lastUse'[t] = now /\ sessions'[t] = s
      BY <1>1, <3>1 DEF TypeOK, Later, Never
    <3> QED BY <1>1, <1>3, <2>1, <3>2, Constants DEF SessionSound, Never
  <2>2. CASE u # t
    BY <1>1, <1>3, <2>2 DEF TypeOK, SessionSound
  <2> QED BY <2>1, <2>2
<1>6. Ages
  BY <1>1, <1>3 DEF Ages, TypeOK, Session
<1>7. ASSUME NEW k \in Handlers PROVE TaskSound(k)'
  BY <1>1, <1>3, <1>4, <1>6, TaskStays DEF TypeOK
<1> QED BY <1>4, <1>5, <1>7

LEMMA UseInv == ASSUME IInv, NEW t \in Tokens, Use(t) PROVE IInv'
<1> USE DEF IInv
<1>1. /\ lastUse' = [lastUse EXCEPT ![t] = Later(lastUse[t], now)] \/ lastUse' = lastUse
      /\ now \in Nat /\ lastUse[t] \in Times /\ sessions[t] \in Session
      /\ UNCHANGED <<now, sessions, cookie, task, purge, faults, signedOut>>
  BY DEF Use, Served, TypeOK
<1>2. /\ lastSeen' = [lastSeen EXCEPT ![t] = now] /\ lastSeen'[t] = now
      /\ lastSeen' \in [Tokens -> Times]
      /\ \A u \in Tokens : lastSeen[u] \in Times /\ lastSeen'[u] \in Times
                             /\ lastSeen'[u] >= lastSeen[u]
  BY SeenNow DEF Use
<1>3. TypeOK'
  BY <1>1, <1>2 DEF TypeOK, Later, Times
<1>4. ASSUME NEW u \in Tokens PROVE SessionSound(u)'
  <2>1. CASE u = t
    <3>1. sessions[t].state = "stored" /\ sessions[t].revoked = Never
          /\ now <= sessions[t].expires - Half
      BY DEF Use, Valid
    <3>2. lastUse[t] # Never /\ lastUse[t] <= lastSeen[t] /\ lastSeen[t] <= now
          /\ sessions[t].expires <= lastSeen[t] + TTL
      BY <3>1 DEF SessionSound
    <3>3. lastUse'[t] \in {now, lastUse[t]}
      BY <1>1, <3>2 DEF TypeOK, Later, Times, Never
    <3>4. sessions[t].expires \in Nat /\ lastUse[t] \in Nat /\ lastSeen[t] \in Nat
      BY <1>1, <1>2, <3>2 DEF Session, Times, Never
    <3>5. sessions[t].expires <= now + TTL /\ now + Half <= sessions[t].expires
      BY <1>1, <3>1, <3>2, <3>4, Constants
    <3>6. t \notin signedOut => lastUse[t] + Half <= sessions[t].expires
      BY <3>2 DEF SessionSound
    <3>7. lastUse'[t] # Never /\ lastUse'[t] <= now
          /\ (t \notin signedOut => lastUse'[t] + Half <= sessions[t].expires)
      BY <1>1, <3>2, <3>3, <3>4, <3>5, <3>6 DEF Never
    <3> QED BY <1>1, <1>2, <2>1, <3>1, <3>5, <3>7 DEF SessionSound
  <2>2. CASE u # t
    BY <1>1, <1>2, <2>2 DEF TypeOK, SessionSound
  <2> QED BY <2>1, <2>2
<1>5. Ages
  BY <1>1, <1>2 DEF Ages, TypeOK, Session
<1>6. ASSUME NEW k \in Handlers PROVE TaskSound(k)'
  BY <1>1, <1>2, <1>3, <1>5, TaskStays DEF TypeOK
<1> QED BY <1>3, <1>4, <1>6

LEMMA UsePastHalfInv ==
    ASSUME IInv, NEW k \in Handlers, NEW t \in Tokens, UsePastHalf(k, t) PROVE IInv'
<1> USE DEF IInv
<1> DEFINE c == [sessions[t] EXCEPT !.expires = now + TTL]
           x == [pc |-> "sliding", token |-> t, at |-> now, copy |-> c]
<1>1. /\ task' = [task EXCEPT ![k] = x] /\ now \in Nat /\ sessions[t] \in Session
      /\ sessions[t].state = "stored" /\ sessions[t].revoked = Never /\ sessions[t].expires > now
      /\ UNCHANGED <<now, sessions, cookie, purge, faults, lastUse, signedOut>>
  BY DEF UsePastHalf, Valid, TypeOK
<1>2. c \in Session /\ c.state = "stored" /\ c.revoked = Never /\ c.expires = now + TTL
  BY <1>1 DEF Session
<1>3. x \in Task
  BY <1>1, <1>2 DEF Task
<1>4. /\ lastSeen' = [lastSeen EXCEPT ![t] = now] /\ lastSeen'[t] = now
      /\ lastSeen' \in [Tokens -> Times]
      /\ \A u \in Tokens : lastSeen[u] \in Times /\ lastSeen'[u] \in Times
                             /\ lastSeen'[u] >= lastSeen[u]
  BY SeenNow DEF UsePastHalf
<1>5. TypeOK'
  BY <1>1, <1>3, <1>4 DEF TypeOK
<1>6. ASSUME NEW u \in Tokens PROVE SessionSound(u)'
  <2>1. /\ lastUse[u] \in Times /\ sessions[u] \in Session /\ SessionSound(u)
        /\ lastSeen[u] \in Times /\ lastSeen'[u] \in Times /\ lastSeen'[u] >= lastSeen[u]
        /\ lastSeen'[u] <= now
        /\ sessions[u].state = "none" => lastSeen'[u] = lastSeen[u]
    BY <1>1, <1>4 DEF TypeOK, SessionSound
  <2>2. sessions[u].expires \in Nat
    BY <2>1 DEF Session
  <2> QED BY <1>1, <2>1, <2>2, Constants DEF SessionSound, Times, Never
<1>7. TaskSound(k)'
  <2>1. task'[k] = x
    BY <1>1 DEF TypeOK
  <2> QED BY <1>1, <1>2, <1>4, <2>1, Constants DEF TaskSound
<1>8. Ages
  BY <1>1, <1>4 DEF Ages, TypeOK, Session
<1> QED BY <1>1, <1>4, <1>5, <1>6, <1>7, <1>8, OthersStay DEF TypeOK

\* A sliding request writes its copy, and goes on or fails.
LEMMA WriteSound ==
    ASSUME IInv, NEW k \in Handlers, task[k].pc = "sliding", Write(k),
           UNCHANGED <<now, use, signedOut>>
    PROVE  /\ task[k].token \in Tokens
           /\ sessions' \in [Tokens -> Session]
           /\ sessions'[task[k].token] = task[k].copy
           /\ Ages
           /\ \A u \in Tokens : SessionSound(u)'
<1> USE DEF IInv
<1> DEFINE x == task[k]
           t == x.token
<1>1. /\ x \in Task /\ TaskSound(k) /\ sessions' = [sessions EXCEPT ![t] = x.copy]
      /\ UNCHANGED <<now, lastSeen, lastUse, signedOut>>
  BY DEF Write, TypeOK, use
<1>2. /\ t \in Tokens /\ x.at \in Nat /\ now \in Nat /\ x.at <= now /\ now <= x.at + Latency
      /\ x.copy \in Session /\ x.copy.state = "stored" /\ x.copy.revoked = Never
      /\ x.copy.expires = x.at + TTL
      /\ sessions[t].state # "none" /\ x.at <= lastSeen[t]
      /\ SessionSound(t) /\ lastUse[t] \in Times /\ lastSeen[t] \in Times
  BY <1>1 DEF TaskSound, Task, TypeOK
<1>3. sessions' \in [Tokens -> Session] /\ sessions'[t] = x.copy
  BY <1>1, <1>2 DEF TypeOK
<1>4. ASSUME NEW u \in Tokens PROVE SessionSound(u)'
  <2>1. CASE u = t
    <3>1. lastUse[t] # Never /\ lastUse[t] <= lastSeen[t] /\ lastSeen[t] <= now
      BY <1>2 DEF SessionSound
    <3>2. lastUse[t] + Half <= x.at + TTL /\ x.at + TTL <= lastSeen[t] + TTL
      BY <1>2, <3>1, Constants DEF Times, Never
    <3> QED BY <1>1, <1>2, <1>3, <2>1, <3>1, <3>2 DEF SessionSound
  <2>2. CASE u # t
    BY <1>1, <2>2 DEF TypeOK, SessionSound
  <2> QED BY <2>1, <2>2
<1>5. ASSUME NEW u \in Tokens, sessions[u].state # "none"
      PROVE  /\ sessions'[u].state # "none"
             /\ sessions[u].state = "stored" =>
                  \/ sessions'[u].state = "stored"
                  \/ sessions[u].expires < now \/ sessions[u].revoked # Never
             /\ sessions'[u].expires >= sessions[u].expires \/ sessions'[u].expires >= now + Half
             /\ sessions'[u].revoked \in {Never, sessions[u].revoked, now}
             /\ lastSeen'[u] >= lastSeen[u]
             /\ u \in signedOut => u \in signedOut'
  <2>1. CASE u = t
    BY <1>1, <1>2, <1>3, <2>1, Constants DEF Times, Never
  <2>2. CASE u # t
    <3>1. sessions'[u] = sessions[u] /\ lastSeen'[u] = lastSeen[u] /\ signedOut' = signedOut
      BY <1>1, <2>2 DEF TypeOK
    <3>2. lastSeen[u] \in Int /\ sessions[u].expires \in Nat
      BY SeenTyped DEF TypeOK, Session
    <3> QED BY <1>5, <3>1, <3>2
  <2> QED BY <2>1, <2>2
<1> QED BY <1>2, <1>3, <1>4, <1>5 DEF Ages

LEMMA SaveInv == ASSUME IInv, NEW k \in Handlers, Save(k) PROVE IInv'
<1> USE DEF IInv
<1> DEFINE x == task[k]
           t == x.token
<1>1. /\ x \in Task /\ x.pc = "sliding" /\ TaskSound(k)
      /\ task' = [task EXCEPT ![k].pc = "saved"]
      /\ UNCHANGED <<now, cookie, purge, faults, lastSeen, lastUse, signedOut>>
  BY DEF Save, TypeOK, use
<1>2. /\ t \in Tokens /\ sessions' \in [Tokens -> Session] /\ sessions'[t] = x.copy
      /\ Ages
      /\ \A u \in Tokens : SessionSound(u)'
  BY WriteSound DEF Save
<1>3. /\ task'[k] \in Task /\ task'[k].pc = "saved" /\ task'[k].token = t
      /\ task'[k].at = x.at /\ task' = [task EXCEPT ![k] = task'[k]]
  BY <1>1 DEF TypeOK, Task
<1>4. TypeOK'
  BY <1>1, <1>2, <1>3 DEF TypeOK
<1>5. TaskSound(k)'
  <2>1. /\ x.at \in Nat /\ x.at <= now /\ now <= x.at + Latency /\ x.at <= lastSeen[t]
        /\ x.copy.state = "stored" /\ x.copy.expires = x.at + TTL
    BY <1>1 DEF TaskSound, Task
  <2> QED BY <1>1, <1>2, <1>3, <2>1, Constants DEF TaskSound
<1> QED BY <1>1, <1>2, <1>3, <1>4, <1>5, OthersStay DEF TypeOK

LEMMA ServeInv == ASSUME IInv, NEW k \in Handlers, Serve(k) PROVE IInv'
<1> USE DEF IInv
<1> DEFINE x == task[k]
           t == x.token
<1>1. /\ x \in Task /\ x.pc = "saved" /\ TaskSound(k)
      /\ lastUse' = [lastUse EXCEPT ![t] = Later(lastUse[t], x.at)]
      /\ task' = [task EXCEPT ![k] = Idle]
      /\ UNCHANGED <<now, sessions, cookie, purge, faults, lastSeen, signedOut>>
  BY DEF Serve, Served, Finish, TypeOK
<1>2. /\ t \in Tokens /\ x.at \in Nat /\ now \in Nat
      /\ sessions[t].state # "none" /\ x.at <= lastSeen[t]
      /\ t \notin signedOut => sessions[t].state = "stored" /\ sessions[t].expires >= x.at + Half
      /\ SessionSound(t) /\ lastUse[t] \in Times /\ lastSeen[t] \in Times /\ sessions[t] \in Session
  BY <1>1 DEF TaskSound, Task, TypeOK
<1>3. TypeOK'
  BY <1>1, <1>2, Constants DEF TypeOK, Later, Times
<1>4. ASSUME NEW u \in Tokens PROVE SessionSound(u)'
  <2>1. CASE u = t
    <3>1. lastUse'[t] = Later(lastUse[t], x.at)
      BY <1>1, <1>2 DEF TypeOK
    <3>2. lastUse[t] # Never /\ lastUse[t] <= lastSeen[t] /\ lastSeen[t] <= now
          /\ sessions[t].expires <= lastSeen[t] + TTL
          /\ (t \notin signedOut => lastUse[t] + Half <= sessions[t].expires
                                     /\ sessions[t].revoked = Never)
      BY <1>2 DEF SessionSound
    <3>3. lastUse'[t] \in {lastUse[t], x.at} /\ lastUse'[t] # Never
      BY <1>2, <3>1, <3>2 DEF Later, Never
    <3>4. sessions[t].expires \in Nat
      BY <1>2 DEF Session
    <3>5. lastUse'[t] <= lastSeen[t]
          /\ (t \notin signedOut => lastUse'[t] + Half <= sessions[t].expires)
      BY <1>2, <3>2, <3>3, <3>4
    <3> QED BY <1>1, <1>2, <2>1, <3>2, <3>3, <3>5 DEF SessionSound
  <2>2. CASE u # t
    BY <1>1, <2>2 DEF TypeOK, SessionSound
  <2> QED BY <2>1, <2>2
<1>5. Ages
  <2>1. \A u \in Tokens : lastSeen[u] \in Times /\ sessions[u] \in Session
    BY DEF TypeOK
  <2> QED BY <1>1, <2>1 DEF Ages, Session, Times, Never
<1>6. TaskSound(k)'
  BY <1>1, IdleSound DEF TypeOK
<1> QED BY <1>1, <1>3, <1>4, <1>5, <1>6, OthersStay DEF TypeOK

LEMMA AbortInv == ASSUME IInv, NEW k \in Handlers, Abort(k) PROVE IInv'
<1> USE DEF IInv
<1>1. /\ task' = [task EXCEPT ![k] = Idle] /\ faults' \in Nat
      /\ UNCHANGED <<now, cookie, purge, lastSeen, lastUse, signedOut>>
  BY DEF Abort, Finish, TypeOK, use
<1>2. sessions' \in [Tokens -> Session] /\ Ages /\ \A u \in Tokens : SessionSound(u)'
  <2>1. CASE UNCHANGED sessions
    <3>1. \A u \in Tokens : lastSeen[u] \in Times /\ sessions[u] \in Session
      BY DEF TypeOK
    <3>2. Ages
      BY <1>1, <2>1, <3>1 DEF Ages, Session, Times, Never
    <3> QED BY <1>1, <2>1, <3>2 DEF TypeOK, SessionSound
  <2>2. CASE task[k].pc = "sliding" /\ Write(k)
    BY <2>2, WriteSound DEF Abort
  <2> QED BY <2>1, <2>2 DEF Abort
<1>3. TypeOK'
  BY <1>1, <1>2, Constants DEF TypeOK
<1>4. TaskSound(k)'
  BY <1>1, IdleSound DEF TypeOK
<1> QED BY <1>1, <1>2, <1>3, <1>4, OthersStay DEF TypeOK

-----------------------------------------------------------------------------
LEMMA SignOutInv == ASSUME IInv, NEW k \in Handlers, SignOut(k) PROVE IInv'
<1> USE DEF IInv
<1> DEFINE x == [Idle EXCEPT !.pc = "leaving", !.token = cookie.token, !.at = now]
<1>1. /\ task' = [task EXCEPT ![k] = x] /\ now \in Nat /\ cookie.token \in Tokens
      /\ UNCHANGED <<now, sessions, cookie, purge, faults, lastSeen, lastUse, signedOut>>
  BY DEF SignOut, TypeOK, Cookie, use
<1>2. x \in Task /\ x.pc = "leaving" /\ x.token = cookie.token /\ x.at = now
  BY <1>1, Constants DEF Task
<1>3. TypeOK'
  BY <1>1, <1>2 DEF TypeOK
<1>4. \A u \in Tokens : SessionSound(u)'
  BY <1>1 DEF SessionSound
<1>5. TaskSound(k)'
  <2>1. task'[k] = x
    BY <1>1 DEF TypeOK
  <2> QED BY <1>1, <1>2, <2>1, Constants DEF TaskSound
<1>6. Ages
  BY <1>1, SeenTyped DEF Ages, TypeOK, Session
<1> QED BY <1>1, <1>3, <1>4, <1>5, <1>6, OthersStay DEF TypeOK

\* Marking a session revoked, whether it took effect or not.
LEMMA MarkRevokedSound ==
    ASSUME IInv, NEW t \in Tokens, MarkRevoked(t) \/ UNCHANGED <<sessions, signedOut>>,
           UNCHANGED <<now, use>>
    PROVE  /\ sessions' \in [Tokens -> Session] /\ signedOut' \in SUBSET Tokens
           /\ Ages
           /\ \A u \in Tokens : SessionSound(u)'
<1> USE DEF IInv
<1>0. UNCHANGED <<now, lastSeen, lastUse>>
  BY DEF use
<1>1. CASE UNCHANGED <<sessions, signedOut>>
  BY <1>0, <1>1, SeenTyped DEF TypeOK, Ages, SessionSound, Session
<1>2. CASE MarkRevoked(t)
  <2>1. sessions[t] \in Session /\ now \in Nat
    BY DEF TypeOK
  <2>2. /\ sessions' \in [Tokens -> Session] /\ signedOut' \in SUBSET Tokens
        /\ \A u \in Tokens \ {t} : sessions'[u] = sessions[u]
        /\ sessions'[t].state = sessions[t].state /\ sessions'[t].expires = sessions[t].expires
        /\ sessions'[t].revoked \in {now, sessions[t].revoked}
        /\ sessions[t].state = "none" => sessions'[t] = sessions[t]
        /\ t \in signedOut' /\ \A u \in Tokens \ {t} : u \in signedOut' <=> u \in signedOut
    BY <1>2, <2>1 DEF MarkRevoked, TypeOK, Session, Times
  <2>3. Ages
    BY <1>0, <2>1, <2>2, SeenTyped DEF Ages, TypeOK, Session
  <2>4. ASSUME NEW u \in Tokens PROVE SessionSound(u)'
    BY <1>0, <2>1, <2>2 DEF SessionSound
  <2> QED BY <2>2, <2>3, <2>4
<1> QED BY <1>1, <1>2

LEMMA RevokeInv ==
    ASSUME IInv, NEW k \in Handlers, Revoke(k) \/ RevokeFails(k) PROVE IInv'
<1> USE DEF IInv
<1> DEFINE t == task[k].token
<1>1. /\ MarkRevoked(t) \/ UNCHANGED <<sessions, signedOut>>
      /\ cookie' = NoCookie /\ task' = [task EXCEPT ![k] = Idle]
      /\ faults' \in Nat
      /\ UNCHANGED <<now, purge, use>>
  BY DEF Revoke, RevokeFails, Finish, TypeOK
<1>2. t \in Tokens
  BY Constants DEF Revoke, RevokeFails, TaskSound
<1>3. /\ sessions' \in [Tokens -> Session] /\ signedOut' \in SUBSET Tokens
      /\ Ages
      /\ \A u \in Tokens : SessionSound(u)'
  BY <1>1, <1>2, MarkRevokedSound
<1>4. TypeOK'
  BY <1>1, <1>3, Constants DEF TypeOK, use
<1>5. TaskSound(k)'
  BY <1>1, IdleSound DEF TypeOK
<1> QED BY <1>1, <1>3, <1>4, <1>5, OthersStay DEF TypeOK, use

-----------------------------------------------------------------------------
\* The purge deletes sessions that are over: expired, or revoked (signed out).
LEMMA DeleteInv ==
    ASSUME IInv, NEW T \in SUBSET Tokens, Delete(T), purge' \in Times,
           \A t \in T : sessions[t].expires < now \/ sessions[t].revoked # Never,
           UNCHANGED <<now, cookie, task, faults, use, signedOut>>
    PROVE  IInv'
<1> USE DEF IInv
<1>1. \A t \in Tokens : /\ sessions[t] \in Session /\ sessions'[t] \in Session
                        /\ sessions'[t].expires = sessions[t].expires
                        /\ sessions'[t].revoked = sessions[t].revoked
                        /\ sessions'[t].state = IF t \in T /\ sessions[t].state = "stored"
                                                 THEN "gone" ELSE sessions[t].state
  BY DEF Delete, TypeOK, Session
<1>2. sessions' \in [Tokens -> Session]
  BY <1>1 DEF Delete
<1>3. TypeOK'
  BY <1>2 DEF TypeOK, use
<1>4. ASSUME NEW u \in Tokens PROVE SessionSound(u)'
  BY <1>1 DEF SessionSound, TypeOK, use, Session
<1>5. Ages
  BY <1>1, SeenTyped DEF Ages, Session, use
<1>6. ASSUME NEW k \in Handlers PROVE TaskSound(k)'
  BY <1>2, <1>5, TaskStays DEF TypeOK, use
<1> QED BY <1>3, <1>4, <1>6

LEMMA PurgeInv == ASSUME IInv, PurgeExpired \/ PurgeRevoked PROVE IInv'
<1>1. CASE PurgeExpired
  BY <1>1, DeleteInv DEF PurgeExpired, IInv, TypeOK, Times
<1>2. CASE PurgeRevoked
  BY <1>2, DeleteInv DEF PurgeRevoked, Times, Never
<1> QED BY <1>1, <1>2

LEMMA TickInv == ASSUME IInv, Tick PROVE IInv'
<1> USE DEF IInv
<1>1. /\ now \in Nat /\ now' = now + 1
      /\ \A k \in Handlers : task[k].pc # "idle" => now < task[k].at + Latency
      /\ UNCHANGED <<sessions, cookie, task, purge, faults, lastSeen, lastUse, signedOut>>
  BY DEF Tick, TypeOK, use
<1>2. TypeOK'
  BY <1>1 DEF TypeOK
<1>3. ASSUME NEW u \in Tokens PROVE SessionSound(u)'
  BY <1>1 DEF SessionSound, TypeOK, Times, Never, Session
<1>4. ASSUME NEW k \in Handlers PROVE TaskSound(k)'
  BY <1>1, Constants DEF TaskSound, TypeOK, Task
<1> QED BY <1>2, <1>3, <1>4

-----------------------------------------------------------------------------
LEMMA NextInv == IInv /\ [Next]_vars => IInv'
<1> SUFFICES ASSUME IInv, [Next]_vars PROVE IInv'
  OBVIOUS
<1>1. CASE UNCHANGED vars
  BY <1>1 DEF vars, IInv, TypeOK, SessionSound, TaskSound
<1>2. ASSUME NEW t \in Tokens, SignIn(t) \/ Use(t) PROVE IInv'
  BY <1>2, SignInInv, UseInv
<1>3. ASSUME NEW k \in Handlers, Request(k) PROVE IInv'
  BY <1>3, UsePastHalfInv, SignOutInv DEF Request
<1>4. ASSUME NEW k \in Handlers, Continue(k) PROVE IInv'
  BY <1>4, SaveInv, ServeInv, RevokeInv, AbortInv DEF Continue
<1> QED BY <1>1, <1>2, <1>3, <1>4, PurgeInv, TickInv DEF Next

\* The inductive invariant holds in every reachable state.
THEOREM Invariance == Spec => []IInv
BY InitInv, NextInv, PTL DEF Spec

\* Every variable keeps its type.
THEOREM TypeCorrect == Spec => []TypeOK
<1>1. IInv => TypeOK
  BY DEF IInv
<1> QED BY <1>1, Invariance, PTL

\* Nobody who was served within the last half of a lifetime, and has not signed
\* out, is signed out: not by expiries saved out of order (me), not by the purge.
THEOREM Sliding == Spec => []SlidingWindow
<1>1. IInv => SlidingWindow
  <2> SUFFICES ASSUME IInv, NEW t \in Tokens, t \notin signedOut, lastUse[t] # Never,
                      now < lastUse[t] + Half
               PROVE  Valid(t)
    BY DEF SlidingWindow
  <2>1. SessionSound(t) /\ sessions[t] \in Session /\ now \in Nat /\ lastUse[t] \in Times
    BY DEF IInv, TypeOK
  <2>2. lastUse[t] \in Nat /\ lastSeen[t] \in Int
    BY <2>1, SeenTyped DEF Times
  <2> QED BY <2>1, <2>2, Constants DEF SessionSound, Session, Valid, Never
<1> QED BY <1>1, Invariance, PTL

\* A session that no request presents is over after its lifetime: a save never carries
\* an expiry further than the last request does, in whatever order saves land, and
\* also if the request that made it failed afterwards.
THEOREM NoneOutlivesItsUse == Spec => []UnusedDies
<1>1. IInv => UnusedDies
  <2> SUFFICES ASSUME IInv, NEW t \in Tokens, Valid(t)
               PROVE  lastSeen[t] # Never /\ now < lastSeen[t] + TTL
    BY DEF UnusedDies
  <2>1. /\ SessionSound(t) /\ sessions[t] \in Session /\ now \in Nat
        /\ lastUse[t] \in Times /\ lastSeen[t] \in Times
    BY DEF IInv, TypeOK
  <2>2. /\ sessions[t].expires > now /\ sessions[t].expires <= lastSeen[t] + TTL
        /\ lastUse[t] # Never /\ lastUse[t] <= lastSeen[t]
    BY <2>1 DEF Valid, SessionSound
  <2> QED BY <2>1, <2>2, Constants DEF Session, Times, Never
<1> QED BY <1>1, Invariance, PTL

\* A session that expired, or was revoked, longer ago than a request can take
\* stays dead, although me() saves stale copies and re-inserts purged rows.
THEOREM DeadStaysDead == Spec => DeadForGood
<1>1. ASSUME IInv, [Next]_vars, NEW t \in Tokens, Dead(t) PROVE ~Valid(t)'
  <2> SUFFICES ASSUME Valid(t)' PROVE FALSE
    OBVIOUS
  <2>1. /\ now \in Nat /\ sessions[t] \in Session /\ SessionSound(t)
        /\ sessions[t].expires \in Nat /\ sessions[t].revoked \in Times
    BY <1>1 DEF IInv, TypeOK, Session
  <2>2. now' \in {now, now + 1}
    <3>1. CASE UNCHANGED vars
      BY <3>1 DEF vars
    <3>2. CASE Next
      BY <3>2 DEF Next, SignIn, Use, Request, UsePastHalf, SignOut, Continue, Save, Serve, Revoke,
                  RevokeFails, Abort, PurgeExpired, PurgeRevoked, Tick
    <3> QED BY <1>1, <3>1, <3>2
  <2>3. ~(sessions'[t].state = sessions[t].state /\ sessions'[t].expires = sessions[t].expires
          /\ sessions'[t].revoked = sessions[t].revoked)
    BY <1>1, <2>1, <2>2, Constants DEF Dead, Valid
  <2>4. ASSUME SignIn(t) PROVE FALSE
    BY <1>1, <2>1, <2>4 DEF SignIn, Dead, SessionSound
  <2>5. ASSUME NEW k \in Handlers, task[k].pc = "sliding", Write(k) PROVE FALSE
    <3>1. CASE task[k].token = t
      <4>1. TaskSound(k) /\ task[k].at \in Nat
        BY <1>1 DEF IInv, TypeOK, Task
      <4>2. /\ sessions[t].expires > task[k].at /\ now <= task[k].at + Latency
            /\ sessions[t].revoked # Never => sessions[t].revoked >= task[k].at
        BY <2>5, <3>1, <4>1 DEF TaskSound
      <4> QED BY <1>1, <2>1, <4>1, <4>2, Constants DEF Dead, Times, Never
    <3>2. CASE task[k].token # t
      BY <1>1, <2>3, <2>5, <3>2 DEF Write, IInv, TypeOK
    <3> QED BY <3>1, <3>2
  <2>6. ASSUME NEW u \in Tokens, MarkRevoked(u) PROVE FALSE
    <3>1. u = t => sessions'[t].revoked # Never \/ sessions'[t].state # "stored"
      BY <1>1, <2>1, <2>6 DEF MarkRevoked, Never, IInv, TypeOK, Session
    <3>2. u # t => sessions'[t] = sessions[t]
      BY <1>1, <2>6 DEF MarkRevoked, IInv, TypeOK
    <3> QED BY <2>3, <3>1, <3>2 DEF Valid
  <2>7. ASSUME NEW T \in SUBSET Tokens, Delete(T) PROVE FALSE
    BY <2>1, <2>3, <2>7 DEF Delete, Valid
  <2>8. CASE UNCHANGED sessions
    BY <2>3, <2>8
  <2>9. CASE Next
    <3>1. ASSUME NEW u \in Tokens, SignIn(u), u # t PROVE FALSE
      BY <1>1, <2>3, <3>1 DEF SignIn, IInv, TypeOK
    <3>2. ASSUME NEW k \in Handlers, Save(k) \/ Serve(k) \/ Abort(k) PROVE FALSE
      BY <2>5, <2>8, <3>2 DEF Save, Serve, Abort
    <3>3. ASSUME NEW k \in Handlers, Revoke(k) \/ RevokeFails(k) PROVE FALSE
      <4>1. task[k].token \in Tokens
        BY <1>1, <3>3, Constants DEF Revoke, RevokeFails, IInv, TaskSound
      <4> QED BY <2>6, <2>8, <3>3, <4>1 DEF Revoke, RevokeFails
    <3>4. CASE PurgeExpired \/ PurgeRevoked
      BY <2>7, <3>4 DEF PurgeExpired, PurgeRevoked
    <3> QED BY <2>4, <2>5, <2>8, <2>9, <3>1, <3>2, <3>3, <3>4
            DEF Next, Use, Request, UsePastHalf, SignOut, Continue, Tick
  <2> QED BY <1>1, <2>8, <2>9 DEF vars
<1>2. IInv /\ [Next]_vars => [\A t \in Tokens : Dead(t) => ~Valid(t)']_vars
  BY <1>1
<1> QED BY <1>2, Invariance, PTL DEF Spec, DeadForGood
=============================================================================
