---------------------------- MODULE TenancyProofs ----------------------------
(***************************************************************************)
(* What clients and tenants can rely on, for any users, projects, tokens   *)
(* and calls: proofs of Tenancy's safety properties.                       *)
(***************************************************************************)
EXTENDS Tenancy, TLAPS

USE IdsAssumption, InhabitedAssumption, MaxCallsAssumption

-----------------------------------------------------------------------------
(***************************************************************************)
(* The defaults have their types.                                          *)
(***************************************************************************)
LEMMA BlankTyped == Blank \in Form
<1>1. (CHOOSE v \in Values : TRUE) \in Values
  BY Zenon
<1> QED BY <1>1 DEF Blank, Form

LEMMA NoRowTyped == NoRow \in Project /\ NoRow.slug = NoSlug /\ NoRow.by = "nobody"
  BY BlankTyped DEF NoRow, Project

LEMMA UnissuedTyped ==
    /\ Unissued \in Token /\ Unissued.project = NoProject
    /\ Unissued.revoked = FALSE /\ Unissued.used = FALSE
  BY DEF Unissued, Token

LEMMA IdleCallTyped ==
    /\ IdleCall \in Call /\ IdleCall.pc = "idle" /\ IdleCall.told = "nothing"
    /\ IdleCall.done = FALSE /\ IdleCall.ok = FALSE /\ IdleCall.stale = FALSE
<1>1. (CHOOSE u \in Users : TRUE) \in Users /\ (CHOOSE k \in Columns : TRUE) \in Columns
  BY Zenon
<1> QED BY <1>1, BlankTyped, NoRowTyped, UnissuedTyped DEF IdleCall, Call, Ops

LEMMA IdleServiceTyped ==
    IdleService \in Service /\ IdleService.pc = "idle" /\ IdleService.late = FALSE
  BY DEF IdleService, Service

LEMMA RestTyped ==
    ASSUME NEW x \in Call, NEW pc \in {"idle", "answer"}
    PROVE  /\ Rest(x, pc) \in Call
           /\ Rest(x, pc).pc = pc /\ Rest(x, pc).op = x.op /\ Rest(x, pc).told = x.told
           /\ Rest(x, pc).done = x.done /\ Rest(x, pc).ok = FALSE
<1> DEFINE i == IdleCall
<1>1. i \in Call /\ i.ok = FALSE
  BY IdleCallTyped
<1>2. /\ x.op \in Ops /\ x.done \in BOOLEAN
      /\ x.told \in {"nothing", "waiting", "done", "failed"}
  BY DEF Call
<1> HIDE DEF i
<1> DEFINE y == [i EXCEPT !.pc = pc, !.op = x.op, !.told = x.told, !.done = x.done]
<1>3. y \in Call
  BY <1>1, <1>2 DEF Call
<1>4. y.pc = pc /\ y.op = x.op /\ y.told = x.told /\ y.done = x.done /\ y.ok = FALSE
  BY <1>1 DEF Call
<1> QED BY <1>3, <1>4 DEF Rest, i

-----------------------------------------------------------------------------
(***************************************************************************)
(* Tables that grow.                                                       *)
(***************************************************************************)

\* What exists keeps its identity, whoever belongs stays, what is revoked stays revoked.
Grown(P, R, T, P2, R2, T2) ==
    /\ \A p \in Projects : P[p].slug # NoSlug => P2[p].slug = P[p].slug /\ P2[p].by = P[p].by
    /\ \A u \in Users, p \in Projects : R[u][p] # "none" => R2[u][p] # "none"
    /\ \A t \in Tokens : T[t].project # NoProject => T2[t].project = T[t].project
    /\ \A t \in Tokens : T[t].revoked => T2[t].revoked

\* A call keeps what it relies on, unless its form or copy goes stale unnoticed.
LEMMA SoundStays ==
    ASSUME NEW x \in Call, NEW P, NEW R, NEW T, NEW P2, NEW R2, NEW T2,
           Sound(x, P, R, T), Grown(P, R, T, P2, R2, T2),
           \/ x.op # "update" \/ x.stale
           \/ x.project \in Projects => P2[x.project].columns = P[x.project].columns
    PROVE  Sound(x, P2, R2, T2)
<1>1. x.user \in Users /\ x.project \in Projects \cup {NoProject}
  BY DEF Call
<1>2. Authorized(x, R2)
  BY <1>1 DEF Sound, Authorized, Grown
<1>3. Filled(x, P2)
  BY <1>1 DEF Sound, Filled, Grown
<1>4. Copied(x, P2, T2)
  <2>1. ASSUME x.pc = "save", x.op = "update"
        PROVE  /\ x.copy.slug = x.slug /\ x.copy.by = P2[x.project].by
               /\ x.stale \/ x.copy.columns = P2[x.project].columns
    BY <1>1, <2>1 DEF Sound, Filled, Copied, Grown
  <2>2. ASSUME x.pc = "save", x.op = "revoke"
        PROVE  /\ T2[x.token].project = x.project /\ x.tcopy.project = x.project
    BY <1>1, <2>2 DEF Sound, Placed, Authorized, Copied, Grown
  <2> QED BY <2>1, <2>2 DEF Copied
<1>5. Committed(x, T2)
  BY DEF Sound, Committed, Grown
<1> QED BY <1>2, <1>3, <1>4, <1>5 DEF Sound

LEMMA ServiceStays ==
    ASSUME NEW x \in Service, NEW P, NEW R, NEW T, NEW P2, NEW R2, NEW T2,
           ServiceSound(x, T), Grown(P, R, T, P2, R2, T2)
    PROVE  ServiceSound(x, T2)
  BY DEF ServiceSound, Grown, Service

LEMMA LogStays ==
    ASSUME NEW A, NEW P, NEW R, NEW T, NEW P2, NEW R2, NEW T2,
           LogSound(A, T), Grown(P, R, T, P2, R2, T2)
    PROVE  LogSound(A, T2)
  BY DEF LogSound, Grown

LEMMA SameGrown == ASSUME NEW P, NEW R, NEW T PROVE Grown(P, R, T, P, R, T)
  BY DEF Grown

-----------------------------------------------------------------------------
(***************************************************************************)
(* Steps of one call.                                                      *)
(***************************************************************************)
CallsSound == \A c \in Calls : Sound(call[c], project, role, token)

\* A call stays sound when the tables grow and no project that exists is saved.
LEMMA SoundThrough ==
    ASSUME NEW x \in Call, Sound(x, project, role, token),
           Grown(project, role, token, project', role', token'),
           \A p \in Projects : Exists(p) => project'[p].columns = project[p].columns
    PROVE  Sound(x, project', role', token')
<1>1. CASE x.op = "update" /\ x.pc \in {"form", "guard", "read", "save"}
  <2>1. x.project \in Projects /\ Exists(x.project)
    BY <1>1 DEF Sound, Filled, Exists
  <2> QED BY <2>1, SoundStays
<1>2. CASE ~(x.op = "update" /\ x.pc \in {"form", "guard", "read", "save"})
  <2>1. Authorized(x, role')
    BY DEF Sound, Authorized, Grown, Call
  <2>2. Filled(x, project')
    BY <1>2 DEF Filled
  <2>3. Copied(x, project', token')
    BY <1>2 DEF Sound, Placed, Copied, Grown, Authorized
  <2>4. Committed(x, token')
    BY DEF Sound, Committed, Grown
  <2> QED BY <2>1, <2>2, <2>3, <2>4 DEF Sound
<1> QED BY <1>1, <1>2

LEMMA CallsStay ==
    ASSUME call \in [Calls -> Call], CallsSound,
           NEW c \in Calls, NEW y \in Call, call' = [call EXCEPT ![c] = y],
           Sound(y, project', role', token'),
           Grown(project, role, token, project', role', token'),
           \A p \in Projects : Exists(p) => project'[p].columns = project[p].columns
    PROVE  call' \in [Calls -> Call] /\ CallsSound'
<1>1. call' \in [Calls -> Call]
  OBVIOUS
<1>2. ASSUME NEW d \in Calls PROVE Sound(call'[d], project', role', token')
  <2>1. CASE d = c
    <3>1. call'[d] = y
      BY <2>1
    <3> QED BY <3>1
  <2>2. CASE d # c
    <3>1. call'[d] = call[d] /\ call[d] \in Call
      BY <2>2
    <3>2. Sound(call[d], project, role, token)
      BY DEF CallsSound
    <3> QED BY <3>1, <3>2, SoundThrough
  <2> QED BY <2>1, <2>2
<1> QED BY <1>1, <1>2 DEF CallsSound

\* A step of a call that leaves the tables alone.
LEMMA Quiet ==
    ASSUME IInv, NEW c \in Calls, NEW y \in Call, call' = [call EXCEPT ![c] = y],
           Sound(y, project, role, token), UNCHANGED <<service, tables>>, begun' \in Nat,
           call[c].pc = "join" => y.pc = "join" /\ y.project = call[c].project
    PROVE  IInv'
<1>1. UNCHANGED <<project, role, token, audit, abandoned, service>>
  BY DEF tables
<1>2. call' \in [Calls -> Call] /\ CallsSound'
  BY <1>1, CallsStay, SameGrown DEF IInv, TypeOK, CallsSound
<1>3. OrphansWereCutShort'
  <2>1. ASSUME NEW d \in Calls, call[d].pc = "join"
        PROVE  call'[d].pc = "join" /\ call'[d].project = call[d].project
    BY <2>1 DEF IInv, TypeOK
  <2> QED BY <1>1, <2>1 DEF IInv, OrphansWereCutShort
<1>4. TypeOK'
  BY <1>1, <1>2 DEF IInv, TypeOK
<1>5. OneSlugOneProject' /\ (\A t \in Tokens : ~Issued(t) => token[t] = Unissued)'
  BY <1>1 DEF IInv, OneSlugOneProject, Exists, Issued
<1>6. LogSound(audit, token)' /\ (\A k \in Services : ServiceSound(service[k], token))'
  BY <1>1 DEF IInv
<1>7. (\A d \in Calls : Sound(call[d], project, role, token))'
  BY <1>2 DEF CallsSound
<1> QED BY <1>3, <1>4, <1>5, <1>6, <1>7 DEF IInv

\* A call that is asked for, or whose form is shown.
LEMMA NewCall ==
    ASSUME NEW x \in Call, NEW P, NEW R, NEW T, x.pc \in {"form", "guard"},
           x.pc = "form" => x.op = "update", x.pc = "guard" => x.slug \in Slugs,
           x.op = "revoke" => x.token \in Tokens, x.told # "done", Filled(x, P)
    PROVE  Sound(x, P, R, T)
  BY DEF Sound, Placed, Authorized, Copied, Committed

LEMMA AskCreateInv ==
    ASSUME IInv, NEW c \in Calls, NEW u \in Users, NEW s \in Slugs, AskCreate(c, u, s)
    PROVE  IInv'
<1> DEFINE i == IdleCall
           y == [i EXCEPT !.pc = "guard", !.op = "create", !.user = u, !.slug = s,
                          !.told = "waiting"]
<1>1. i \in Call
  BY IdleCallTyped
<1>2. call' = [call EXCEPT ![c] = y] /\ UNCHANGED <<service, tables>> /\ begun' = begun + 1
  BY DEF AskCreate, Begin
<1> HIDE DEF i
<1>3. y \in Call
  BY <1>1 DEF Call, Ops
<1>4. y.pc = "guard" /\ y.op = "create" /\ y.slug = s /\ y.told = "waiting"
  BY <1>1 DEF Call
<1> HIDE DEF y
<1>5. Sound(y, project, role, token)
  BY <1>3, <1>4, NewCall DEF Filled
<1>6. call[c].pc # "join" /\ begun' \in Nat
  BY <1>2 DEF AskCreate, Ready, IInv, TypeOK
<1> QED BY <1>2, <1>3, <1>5, <1>6, Quiet

LEMMA AskTokenInv ==
    ASSUME IInv, NEW c \in Calls, NEW u \in Users, NEW s \in Slugs, NEW op \in Ops,
           NEW t \in Tokens \cup {NoToken}, AskToken(c, u, s, op, t)
    PROVE  IInv'
<1> DEFINE i == IdleCall
           y == [i EXCEPT !.pc = "guard", !.op = op, !.user = u, !.slug = s,
                          !.token = t, !.told = "waiting"]
<1>1. i \in Call
  BY IdleCallTyped
<1>2. call' = [call EXCEPT ![c] = y] /\ UNCHANGED <<service, tables>> /\ begun' = begun + 1
  BY DEF AskToken, Begin
<1> HIDE DEF i
<1>3. y \in Call
  BY <1>1 DEF Call
<1>4. y.pc = "guard" /\ y.op = op /\ y.slug = s /\ y.token = t /\ y.told = "waiting"
  BY <1>1 DEF Call
<1> HIDE DEF y
<1>5. Sound(y, project, role, token)
  BY <1>3, <1>4, NewCall DEF Filled, AskToken
<1>6. call[c].pc # "join" /\ begun' \in Nat
  BY <1>2 DEF AskToken, Ready, IInv, TypeOK
<1> QED BY <1>2, <1>3, <1>5, <1>6, Quiet

LEMMA ShowFormInv ==
    ASSUME IInv, NEW c \in Calls, NEW u \in Users, NEW p \in Projects, ShowForm(c, u, p)
    PROVE  IInv'
<1> DEFINE i == IdleCall
           y == [i EXCEPT !.pc = "form", !.op = "update", !.user = u,
                          !.slug = project[p].slug, !.form = project[p].columns,
                          !.project = p]
<1>1. i \in Call /\ i.told = "nothing"
  BY IdleCallTyped
<1>2. call' = [call EXCEPT ![c] = y] /\ UNCHANGED <<service, tables>> /\ begun' = begun + 1
  BY DEF ShowForm, Begin
<1>3. /\ project[p].slug \in Slugs /\ project[p].columns \in Form
  BY DEF ShowForm, Exists, IInv, TypeOK, Project
<1> HIDE DEF i
<1>4. y \in Call
  BY <1>1, <1>3 DEF Call, Ops
<1>5. /\ y.pc = "form" /\ y.op = "update" /\ y.slug = project[p].slug
      /\ y.form = project[p].columns /\ y.project = p /\ y.told = "nothing"
  BY <1>1 DEF Call
<1> HIDE DEF y
<1>6. Filled(y, project)
  BY <1>3, <1>5 DEF Filled
<1>7. Sound(y, project, role, token)
  BY <1>4, <1>5, <1>6, NewCall
<1>8. call[c].pc # "join" /\ begun' \in Nat
  BY <1>2 DEF ShowForm, Ready, IInv, TypeOK
<1> QED BY <1>2, <1>4, <1>7, <1>8, Quiet

\* Every call is typed and sound.
LEMMA OfCall ==
    ASSUME IInv, NEW c \in Calls
    PROVE  call[c] \in Call /\ Sound(call[c], project, role, token)
  BY DEF IInv, TypeOK

LEMMA SubmitFormInv ==
    ASSUME IInv, NEW c \in Calls, NEW k \in Columns, NEW v \in Values,
           NEW sent \in SUBSET Columns, SubmitForm(c, k, v, sent)
    PROVE  IInv'
<1> DEFINE x == call[c]
           f == [x.form EXCEPT ![k] = v]
           y == [x EXCEPT !.pc = "guard", !.form = f, !.field = k, !.sent = sent,
                          !.told = "waiting"]
<1>1. x \in Call /\ Sound(x, project, role, token) /\ x.pc = "form"
  BY OfCall DEF SubmitForm
<1>2. call' = [call EXCEPT ![c] = y] /\ UNCHANGED <<service, tables>> /\ begun' = begun
  BY DEF SubmitForm
<1> HIDE DEF x
<1>3. f \in Form /\ \A j \in Columns : j # k => f[j] = x.form[j]
  BY <1>1 DEF Call, Form
<1> HIDE DEF f
<1>4. y \in Call
  BY <1>1, <1>3 DEF Call
<1>5. /\ y.pc = "guard" /\ y.op = x.op /\ y.slug = x.slug /\ y.project = x.project
      /\ y.form = f /\ y.field = k /\ y.stale = x.stale /\ y.told = "waiting"
  BY <1>1 DEF Call
<1> HIDE DEF y
<1>6. Placed(y) /\ Authorized(y, role) /\ Copied(y, project, token) /\ Committed(y, token)
  <2>1. x.op = "update"
    BY <1>1 DEF Sound, Placed
  <2>2. x.slug \in Slugs
    BY <1>1, <2>1 DEF Sound, Filled
  <2> QED BY <1>5, <2>1, <2>2 DEF Placed, Authorized, Copied, Committed
<1>7. Filled(y, project)
  BY <1>1, <1>3, <1>5 DEF Sound, Filled
<1>8. begun' \in Nat
  BY <1>2 DEF IInv, TypeOK
<1>9. call[c].pc # "join"
  BY <1>1 DEF x
<1> QED BY <1>2, <1>4, <1>6, <1>7, <1>8, <1>9, Quiet DEF Sound

\* What is told of a call is true or bad news.
LEMMA Telling ==
    ASSUME NEW x \in Call, NEW P, NEW R, NEW T, Sound(x, P, R, T),
           NEW told \in {"nothing", "waiting", "done", "failed"},
           told = "done" => x.done \/ x.op = "revoke"
    PROVE  LET y == [x EXCEPT !.told = told]
           IN  /\ y \in Call /\ Sound(y, P, R, T)
               /\ y.pc = x.pc /\ y.project = x.project
<1> DEFINE y == [x EXCEPT !.told = told]
<1>1. y \in Call
  BY DEF Call
<1>2. /\ y.pc = x.pc /\ y.op = x.op /\ y.user = x.user /\ y.slug = x.slug
      /\ y.project = x.project /\ y.token = x.token /\ y.form = x.form /\ y.field = x.field
      /\ y.copy = x.copy /\ y.tcopy = x.tcopy /\ y.stale = x.stale /\ y.done = x.done
      /\ y.ok = x.ok /\ y.told = told
  BY DEF Call
<1> HIDE DEF y
<1>3. Sound(y, P, R, T)
  BY <1>2 DEF Sound, Placed, Authorized, Filled, Copied, Committed
<1> QED BY <1>1, <1>2, <1>3 DEF y

LEMMA GiveUpInv == ASSUME IInv, NEW c \in Calls, GiveUp(c) PROVE IInv'
<1> DEFINE x == call[c]
           y == [x EXCEPT !.told = "failed"]
<1>1. x \in Call /\ Sound(x, project, role, token)
  BY OfCall
<1>2. call' = [call EXCEPT ![c] = y] /\ UNCHANGED <<service, tables>> /\ begun' = begun
  BY DEF GiveUp
<1>3. /\ y \in Call /\ Sound(y, project, role, token)
      /\ y.pc = call[c].pc /\ y.project = call[c].project
  BY <1>1, Telling
<1> HIDE DEF y
<1> QED BY <1>2, <1>3, Quiet DEF IInv, TypeOK

\* A call that is over, but for the answer.
LEMMA Over ==
    ASSUME NEW x \in Call, NEW P, NEW R, NEW T, x.pc \in {"idle", "answer"},
           x.pc = "answer" /\ x.ok => x.done \/ x.op = "revoke",
           x.told = "done" => x.done \/ x.op = "revoke"
    PROVE  Sound(x, P, R, T)
  BY DEF Sound, Placed, Authorized, Filled, Copied, Committed

LEMMA AnswerInv == ASSUME IInv, NEW c \in Calls, Answer(c) PROVE IInv'
<1> DEFINE x == call[c]
           told == IF x.told = "waiting" THEN Understood(x) ELSE x.told
           y == [x EXCEPT !.pc = "idle", !.ok = FALSE, !.told = told]
<1>1. x \in Call /\ Sound(x, project, role, token) /\ x.pc = "answer"
  BY OfCall DEF Answer
<1>2. call' = [call EXCEPT ![c] = y] /\ UNCHANGED <<service, tables>> /\ begun' = begun
  BY DEF Answer
<1>3. call[c].pc # "join"
  BY <1>1
<1> HIDE DEF x
<1>4. /\ told \in {"nothing", "waiting", "done", "failed"}
      /\ told = "done" => x.done \/ x.op = "revoke"
  BY <1>1 DEF Call, Understood, Sound, Committed
<1> HIDE DEF told
<1>5. y \in Call
  BY <1>1, <1>4 DEF Call
<1>6. y.pc = "idle" /\ y.op = x.op /\ y.done = x.done /\ y.told = told
  BY <1>1 DEF Call
<1> HIDE DEF y
<1>7. Sound(y, project, role, token)
  BY <1>4, <1>5, <1>6, Over
<1> QED BY <1>2, <1>3, <1>5, <1>7, Quiet DEF IInv, TypeOK

\* The handler of a call ends.
LEMMA Finishing ==
    ASSUME NEW x \in Call, NEW P, NEW R, NEW T, Committed(x, T), NEW ok \in BOOLEAN,
           ok => x.done \/ x.op = "revoke"
    PROVE  LET y == [Rest(x, "answer") EXCEPT !.ok = ok]
           IN  y \in Call /\ Sound(y, P, R, T) /\ y.pc = "answer"
<1> DEFINE i == Rest(x, "answer")
           y == [i EXCEPT !.ok = ok]
<1>1. i \in Call /\ i.pc = "answer" /\ i.op = x.op /\ i.told = x.told /\ i.done = x.done
  BY RestTyped
<1> HIDE DEF i
<1>2. y \in Call
  BY <1>1 DEF Call
<1>3. y.pc = "answer" /\ y.op = x.op /\ y.told = x.told /\ y.done = x.done /\ y.ok = ok
  BY <1>1 DEF Call
<1> HIDE DEF y
<1>4. Sound(y, P, R, T)
  BY <1>2, <1>3, Over DEF Committed
<1> QED BY <1>2, <1>3, <1>4 DEF y, i

LEMMA FinishInv ==
    ASSUME IInv, NEW c \in Calls, NEW ok \in BOOLEAN, Finish(c, ok),
           ok => call[c].done \/ call[c].op = "revoke",
           call[c].pc # "join", UNCHANGED <<service, begun, tables>>
    PROVE  IInv'
<1> DEFINE y == [Rest(call[c], "answer") EXCEPT !.ok = ok]
<1>1. call' = [call EXCEPT ![c] = y]
  BY DEF Finish
<1>2. y \in Call /\ Sound(y, project, role, token)
  BY OfCall, Finishing DEF Sound
<1> HIDE DEF y
<1> QED BY <1>1, <1>2, Quiet DEF IInv, TypeOK

LEMMA RefuseInv == ASSUME IInv, NEW c \in Calls, Refuse(c) PROVE IInv'
  BY FinishInv DEF Refuse

LEMMA FailsInv == ASSUME IInv, NEW c \in Calls, Fails(c) PROVE IInv'
  BY FinishInv DEF Fails

\* A call goes on to its next await.
LEMMA GotoInv ==
    ASSUME IInv, NEW c \in Calls, NEW pc, pc \in {"look", "insert"}, Goto(c, pc),
           call[c].pc \in {"guard", "look"}, call[c].op = "create",
           UNCHANGED <<service, begun, tables>>
    PROVE  IInv'
<1> DEFINE x == call[c]
           y == [x EXCEPT !.pc = pc]
<1>1. x \in Call /\ Sound(x, project, role, token) /\ x.pc \in {"guard", "look"}
      /\ x.op = "create"
  BY OfCall
<1>2. call' = [call EXCEPT ![c] = y]
  BY DEF Goto
<1>3. call[c].pc # "join"
  BY <1>1
<1> HIDE DEF x
<1>4. y \in Call
  BY <1>1 DEF Call
<1>5. /\ y.pc = pc /\ y.op = x.op /\ y.slug = x.slug /\ y.done = x.done /\ y.told = x.told
  BY <1>1 DEF Call
<1> HIDE DEF y
<1>6. Sound(y, project, role, token)
  BY <1>1, <1>5 DEF Sound, Placed, Authorized, Filled, Copied, Committed
<1> QED BY <1>2, <1>3, <1>4, <1>6, Quiet DEF IInv, TypeOK

LEMMA AuthorizeInv == ASSUME IInv, NEW c \in Calls, Authorize(c) PROVE IInv'
<1>1. CASE call[c].op = "create" /\ Goto(c, "look")
  BY <1>1, GotoInv DEF Authorize
<1>2. ASSUME NEW p \in Projects, call[c].op # "create", project[p].slug = call[c].slug,
             role[call[c].user][p] = "owner",
             call' = [call EXCEPT ![c].pc = First(call[c].op), ![c].project = p]
      PROVE  IInv'
  <2> DEFINE x == call[c]
             pc == First(x.op)
             y == [x EXCEPT !.pc = pc, !.project = p]
  <2>1. /\ x \in Call /\ Sound(x, project, role, token) /\ x.pc = "guard"
        /\ x.op # "create" /\ project[p].slug = x.slug /\ role[x.user][p] = "owner"
    BY <1>2, OfCall DEF Authorize
  <2>2. call' = [call EXCEPT ![c] = y] /\ UNCHANGED <<service, begun, tables>>
    BY <1>2 DEF Authorize
  <2>3. call[c].pc # "join"
    BY <2>1
  <2> HIDE DEF x
  <2>4. pc \in {"insert", "read"} /\ (pc = "insert" <=> x.op = "issue")
    BY <2>1 DEF First, Call, Ops
  <2> HIDE DEF pc
  <2>5. y \in Call
    BY <2>1, <2>4 DEF Call
  <2>6. /\ y.pc = pc /\ y.op = x.op /\ y.user = x.user /\ y.slug = x.slug /\ y.project = p
        /\ y.form = x.form /\ y.field = x.field /\ y.stale = x.stale /\ y.done = x.done
        /\ y.told = x.told
    BY <2>1 DEF Call
  <2>7. /\ x.op \in {"update", "issue", "revoke"} /\ x.slug \in Slugs
        /\ y.token = x.token
    BY <2>1 DEF Call, Ops, Sound, Placed
  <2> HIDE DEF y
  <2>8. Placed(y) /\ Authorized(y, role) /\ Copied(y, project, token) /\ Committed(y, token)
    BY <2>1, <2>4, <2>6, <2>7 DEF Sound, Placed, Authorized, Copied, Committed
  <2>9. Filled(y, project)
    <3>1. CASE x.op = "update"
      <4>1. /\ x.project \in Projects /\ project[x.project].slug = x.slug
            /\ \/ x.stale
               \/ \A j \in Columns : \/ x.form[j] = project[x.project].columns[j]
                                     \/ j = x.field
        BY <2>1, <3>1 DEF Sound, Filled
      <4>2. x.project = p
        BY <2>1, <2>7, <4>1 DEF IInv, OneSlugOneProject, Exists
      <4> QED BY <2>1, <2>4, <2>6, <2>7, <4>1, <4>2 DEF Filled
    <3>2. CASE x.op # "update"
      BY <2>6, <3>2 DEF Filled
    <3> QED BY <3>1, <3>2
  <2> QED BY <2>2, <2>3, <2>5, <2>8, <2>9, Quiet DEF IInv, TypeOK, Sound
<1> QED BY <1>1, <1>2 DEF Authorize

LEMMA LookForSlugInv == ASSUME IInv, NEW c \in Calls, LookForSlug(c) PROVE IInv'
<1>1. call[c].op = "create"
  BY OfCall DEF LookForSlug, Sound, Placed
<1>2. CASE Finish(c, FALSE)
  BY <1>2, FinishInv DEF LookForSlug
<1>3. CASE Goto(c, "insert")
  BY <1>1, <1>3, GotoInv DEF LookForSlug
<1> QED BY <1>2, <1>3 DEF LookForSlug

LEMMA ReadProjectInv == ASSUME IInv, NEW c \in Calls, ReadProject(c) PROVE IInv'
<1> DEFINE x == call[c]
           y == [x EXCEPT !.pc = "save", !.copy = project[x.project]]
<1>1. x \in Call /\ Sound(x, project, role, token) /\ x.pc = "read" /\ x.op = "update"
  BY OfCall DEF ReadProject
<1>2. call' = [call EXCEPT ![c] = y] /\ UNCHANGED <<service, begun, tables>>
  BY DEF ReadProject
<1>3. call[c].pc # "join"
  BY <1>1
<1> HIDE DEF x
<1>4. x.project \in Projects
  BY <1>1 DEF Sound, Filled
<1>5. project[x.project] \in Project
  BY <1>4 DEF IInv, TypeOK
<1>6. y \in Call
  BY <1>1, <1>5 DEF Call
<1>7. /\ y.pc = "save" /\ y.op = "update" /\ y.user = x.user /\ y.slug = x.slug
      /\ y.project = x.project /\ y.form = x.form /\ y.field = x.field
      /\ y.copy = project[x.project] /\ y.stale = x.stale /\ y.done = x.done
      /\ y.told = x.told
  BY <1>1 DEF Call
<1> HIDE DEF y
<1>8. Sound(y, project, role, token)
  BY <1>1, <1>7 DEF Sound, Placed, Authorized, Filled, Copied, Committed
<1> QED BY <1>2, <1>3, <1>6, <1>8, Quiet DEF IInv, TypeOK

LEMMA ReadTokenInv == ASSUME IInv, NEW c \in Calls, ReadToken(c) PROVE IInv'
<1>1. CASE \E ok \in BOOLEAN : Finish(c, ok)
  BY <1>1, FinishInv DEF ReadToken
<1>2. ASSUME token[call[c].token].project = call[c].project,
             call' = [call EXCEPT ![c].pc = "save", ![c].tcopy = token[call[c].token]]
      PROVE  IInv'
  <2> DEFINE x == call[c]
             y == [x EXCEPT !.pc = "save", !.tcopy = token[x.token]]
  <2>1. /\ x \in Call /\ Sound(x, project, role, token) /\ x.pc = "read" /\ x.op = "revoke"
        /\ token[x.token].project = x.project
    BY <1>2, OfCall DEF ReadToken
  <2>2. call' = [call EXCEPT ![c] = y] /\ UNCHANGED <<service, begun, tables>>
    BY <1>2 DEF ReadToken
  <2>3. call[c].pc # "join"
    BY <2>1
  <2> HIDE DEF x
  <2>4. x.token \in Tokens
    BY <2>1 DEF Sound, Placed
  <2>5. token[x.token] \in Token
    BY <2>4 DEF IInv, TypeOK
  <2>6. y \in Call
    BY <2>1, <2>5 DEF Call
  <2>7. /\ y.pc = "save" /\ y.op = "revoke" /\ y.user = x.user /\ y.slug = x.slug
        /\ y.project = x.project /\ y.token = x.token /\ y.tcopy = token[x.token]
        /\ y.done = x.done /\ y.told = x.told
    BY <2>1 DEF Call
  <2> HIDE DEF y
  <2>8. Sound(y, project, role, token)
    BY <2>1, <2>4, <2>7 DEF Sound, Placed, Authorized, Filled, Copied, Committed
  <2> QED BY <2>2, <2>3, <2>6, <2>8, Quiet DEF IInv, TypeOK
<1> QED BY <1>1, <1>2 DEF ReadToken

-----------------------------------------------------------------------------
(***************************************************************************)
(* Steps that write the tables.                                            *)
(***************************************************************************)

\* What every such step keeps of the rest, once its tables have grown.
LEMMA RestStays ==
    ASSUME IInv, UNCHANGED service, Grown(project, role, token, project', role', token'),
           LogSound(audit', token')
    PROVE  /\ (\A k \in Services : ServiceSound(service[k], token))'
           /\ LogSound(audit, token)'
<1>1. \A k \in Services : service[k] \in Service /\ ServiceSound(service[k], token)
  BY DEF IInv, TypeOK
<1> QED BY <1>1, ServiceStays

LEMMA InsertProjectInv == ASSUME IInv, NEW c \in Calls, InsertProject(c) PROVE IInv'
<1>1. CASE Finish(c, FALSE) /\ UNCHANGED project
  BY <1>1, FinishInv DEF InsertProject, tables
<1>2. ASSUME IndexAdmits(call[c].slug), NEW p \in Projects, ~Exists(p),
             project' = [project EXCEPT ![p] =
                           [slug |-> call[c].slug, columns |-> Blank, by |-> "portal"]],
             call' = [call EXCEPT ![c].pc = "join", ![c].project = p]
      PROVE  IInv'
  <2> DEFINE x == call[c]
             row == [slug |-> x.slug, columns |-> Blank, by |-> "portal"]
             y == [x EXCEPT !.pc = "join", !.project = p]
  <2>1. /\ x \in Call /\ Sound(x, project, role, token) /\ x.pc = "insert" /\ x.op = "create"
        /\ IndexAdmits(x.slug)
    BY <1>2, OfCall DEF InsertProject
  <2>2. /\ call' = [call EXCEPT ![c] = y] /\ project' = [project EXCEPT ![p] = row]
        /\ UNCHANGED <<role, token, audit, service, begun, abandoned>>
    BY <1>2 DEF InsertProject
  <2>3. x.slug \in Slugs
    BY <2>1 DEF Sound, Placed
  <2>a. call[c].pc = "insert"
    BY <2>1
  <2> HIDE DEF x
  <2>4. y \in Call
    BY <2>1 DEF Call
  <2>5. /\ y.pc = "join" /\ y.op = "create" /\ y.project = p /\ y.done = x.done
        /\ y.told = x.told
    BY <2>1 DEF Call
  <2> HIDE DEF y
  <2>6. Sound(y, project', role', token')
    BY <2>1, <2>5 DEF Sound, Placed, Authorized, Filled, Copied, Committed
  <2>7. row \in Project /\ row.slug = x.slug /\ row.by = "portal"
    BY <2>3, BlankTyped DEF Project
  <2> HIDE DEF row
  <2>8. /\ project' \in [Projects -> Project] /\ project'[p] = row
        /\ \A q \in Projects : q # p => project'[q] = project[q]
    BY <2>2, <2>7 DEF IInv, TypeOK
  <2>9. Grown(project, role, token, project', role', token')
    BY <1>2, <2>2, <2>8 DEF Grown, Exists
  <2>10. \A q \in Projects : Exists(q) => project'[q].columns = project[q].columns
    BY <1>2, <2>8
  <2>11. call' \in [Calls -> Call] /\ CallsSound'
    BY <2>2, <2>4, <2>6, <2>9, <2>10, CallsStay DEF IInv, TypeOK, CallsSound
  <2>12. OneSlugOneProject'
    <3>1. \A q \in Projects : project[q].slug # x.slug
      BY <2>1 DEF IndexAdmits, Taken
    <3>2. ASSUME NEW q \in Projects, NEW r \in Projects, Exists(q)',
                 project'[q].slug = project'[r].slug
          PROVE  q = r
      BY <2>7, <2>8, <3>1, <3>2 DEF IInv, OneSlugOneProject, Exists
    <3> QED BY <3>2 DEF OneSlugOneProject
  <2>13. OrphansWereCutShort'
    <3>1. call'[c].pc = "join" /\ call'[c].project = p
      BY <2>2, <2>5 DEF IInv, TypeOK
    <3>2. ASSUME NEW d \in Calls, call[d].pc = "join" PROVE call'[d] = call[d]
      BY <2>2, <2>a, <3>2 DEF IInv, TypeOK
    <3> QED BY <2>2, <2>8, <3>1, <3>2 DEF IInv, OrphansWereCutShort
  <2>14. TypeOK'
    BY <2>2, <2>8, <2>11 DEF IInv, TypeOK
  <2>15. (\A t \in Tokens : ~Issued(t) => token[t] = Unissued)'
    BY <2>2 DEF IInv, Issued
  <2>16. LogSound(audit', token')
    BY <2>2 DEF IInv
  <2> QED BY <2>2, <2>9, <2>11, <2>12, <2>13, <2>14, <2>15, <2>16, RestStays DEF IInv, CallsSound
<1> QED BY <1>1, <1>2 DEF InsertProject

LEMMA JoinInv == ASSUME IInv, NEW c \in Calls, Join(c) PROVE IInv'
<1> DEFINE x == call[c]
           y == [x EXCEPT !.pc = "audit", !.done = TRUE]
           mine == [role[x.user] EXCEPT ![x.project] = "owner"]
<1>1. /\ x \in Call /\ Sound(x, project, role, token) /\ x.pc = "join"
  BY OfCall DEF Join
<1>2. /\ call' = [call EXCEPT ![c] = y] /\ role' = [role EXCEPT ![x.user] = mine]
      /\ UNCHANGED <<project, token, audit, service, begun, abandoned>>
  BY DEF Join
<1> HIDE DEF x
<1>3. x.op = "create" /\ x.project \in Projects /\ x.user \in Users
  BY <1>1 DEF Sound, Placed, Committed, Call
<1>4. y \in Call
  BY <1>1 DEF Call
<1>5. /\ y.pc = "audit" /\ y.op = "create" /\ y.project = x.project /\ y.done /\ y.told = x.told
  BY <1>1, <1>3 DEF Call
<1> HIDE DEF y
<1>6. Sound(y, project', role', token')
  BY <1>3, <1>5 DEF Sound, Placed, Authorized, Filled, Copied, Committed
<1>7. /\ mine \in [Projects -> Roles] /\ mine[x.project] = "owner"
      /\ \A p \in Projects : role[x.user][p] # "none" => mine[p] # "none"
  BY <1>3 DEF IInv, TypeOK, Roles
<1> HIDE DEF mine
<1>8. /\ role' \in [Users -> [Projects -> Roles]] /\ role'[x.user] = mine
      /\ \A u \in Users : u # x.user => role'[u] = role[u]
  BY <1>2, <1>3, <1>7 DEF IInv, TypeOK
<1>9. Grown(project, role, token, project', role', token')
  BY <1>2, <1>7, <1>8 DEF Grown
<1>10. call' \in [Calls -> Call] /\ CallsSound'
  BY <1>2, <1>4, <1>6, <1>9, CallsStay DEF IInv, TypeOK, CallsSound
<1>11. OrphansWereCutShort'
  <2>1. ASSUME NEW d \in Calls, d # c PROVE call'[d] = call[d]
    BY <1>2, <2>1 DEF IInv, TypeOK
  <2>2. role'[x.user][x.project] # "none"
    BY <1>7, <1>8
  <2>3. ASSUME NEW p \in Projects, project'[p].by = "portal"
        PROVE  \/ \E u \in Users : role'[u][p] # "none"
               \/ p \in abandoned'
               \/ \E d \in Calls : call'[d].pc = "join" /\ call'[d].project = p
    <3>1. CASE p = x.project
      BY <1>3, <2>2, <3>1
    <3>2. CASE p # x.project
      <4>1. \/ \E u \in Users : role[u][p] # "none"
            \/ p \in abandoned
            \/ \E d \in Calls : call[d].pc = "join" /\ call[d].project = p
        BY <1>2, <2>3 DEF IInv, OrphansWereCutShort
      <4>2. ASSUME NEW u \in Users, role[u][p] # "none" PROVE role'[u][p] # "none"
        BY <1>9, <4>2 DEF Grown
      <4> QED BY <1>2, <2>1, <3>2, <4>1, <4>2 DEF x
    <3> QED BY <3>1, <3>2
  <2> QED BY <2>3 DEF OrphansWereCutShort
<1>12. TypeOK'
  BY <1>2, <1>8, <1>10 DEF IInv, TypeOK
<1>13. OneSlugOneProject' /\ (\A t \in Tokens : ~Issued(t) => token[t] = Unissued)'
  BY <1>2 DEF IInv, OneSlugOneProject, Exists, Issued
<1>14. LogSound(audit', token')
  BY <1>2 DEF IInv
<1> QED BY <1>2, <1>9, <1>10, <1>11, <1>12, <1>13, <1>14, RestStays DEF IInv, CallsSound

LEMMA JoinFailsInv == ASSUME IInv, NEW c \in Calls, JoinFails(c) PROVE IInv'
<1> DEFINE x == call[c]
           y == [Rest(x, "answer") EXCEPT !.ok = FALSE]
<1>1. x \in Call /\ Sound(x, project, role, token) /\ x.pc = "join"
  BY OfCall DEF JoinFails
<1>2. /\ call' = [call EXCEPT ![c] = y] /\ abandoned' = abandoned \cup {x.project}
      /\ UNCHANGED <<project, role, token, audit, service, begun>>
  BY DEF JoinFails, Finish
<1> HIDE DEF x
<1>3. x.project \in Projects
  BY <1>1 DEF Sound, Committed
<1>4. y \in Call /\ Sound(y, project, role, token)
  BY <1>1, Finishing DEF Sound
<1> HIDE DEF y
<1>5. Grown(project, role, token, project', role', token')
  BY <1>2, SameGrown
<1>6. call' \in [Calls -> Call] /\ CallsSound'
  BY <1>2, <1>4, <1>5, CallsStay DEF IInv, TypeOK, CallsSound
<1>7. OrphansWereCutShort'
  <2>1. ASSUME NEW d \in Calls, d # c PROVE call'[d] = call[d]
    BY <1>2, <2>1 DEF IInv, TypeOK
  <2>2. ASSUME NEW d \in Calls, call[d].pc = "join"
        PROVE  \/ call'[d].pc = "join" /\ call'[d].project = call[d].project
               \/ call[d].project \in abandoned'
    BY <1>2, <2>1, <2>2 DEF x
  <2> QED BY <1>2, <2>2 DEF IInv, OrphansWereCutShort
<1>8. TypeOK'
  BY <1>2, <1>3, <1>6 DEF IInv, TypeOK
<1>9. OneSlugOneProject' /\ (\A t \in Tokens : ~Issued(t) => token[t] = Unissued)'
  BY <1>2 DEF IInv, OneSlugOneProject, Exists, Issued
<1>10. LogSound(audit', token')
  BY <1>2 DEF IInv
<1> QED BY <1>2, <1>5, <1>6, <1>7, <1>8, <1>9, <1>10, RestStays DEF IInv, CallsSound

\* What a save makes of the project it read, and of the call that saves.
LEMMA Saving ==
    ASSUME IInv, NEW c \in Calls, SaveProject(c)
    PROVE  LET p == call[c].project
           IN  /\ p \in Projects /\ Exists(p)
               /\ project' \in [Projects -> Project]
               /\ project'[p].slug = project[p].slug /\ project'[p].by = project[p].by
               /\ project'[p].columns = Merged(call[c])
               /\ \A q \in Projects : q # p => project'[q] = project[q]
<1> DEFINE x == call[c]
           old == x.copy
           new == Merged(x)
           row == [old EXCEPT !.columns = new]
<1>1. /\ x \in Call /\ Sound(x, project, role, token) /\ x.pc = "save" /\ x.op = "update"
  BY OfCall DEF SaveProject
<1>2. project' = [project EXCEPT ![x.project] = row]
  BY DEF SaveProject
<1> HIDE DEF x
<1>3. /\ x.project \in Projects /\ x.slug \in Slugs /\ project[x.project].slug = x.slug
      /\ x.copy.slug = x.slug /\ x.copy.by = project[x.project].by
  BY <1>1 DEF Sound, Filled, Copied
<1>4. new \in Form
  BY <1>1 DEF Merged, Form, Call, Project
<1> HIDE DEF new
<1>5. old \in Project /\ old.slug = x.slug /\ old.by = project[x.project].by
  BY <1>1, <1>3 DEF Call
<1> HIDE DEF old
<1>6. row \in Project /\ row.slug = x.slug /\ row.by = project[x.project].by /\ row.columns = new
  BY <1>4, <1>5 DEF Project
<1> HIDE DEF row
<1>7. /\ project' \in [Projects -> Project] /\ project'[x.project] = row
      /\ \A q \in Projects : q # x.project => project'[q] = project[q]
  BY <1>2, <1>3, <1>6 DEF IInv, TypeOK
<1>8. Exists(x.project)
  BY <1>3 DEF Exists
<1> QED BY <1>3, <1>6, <1>7, <1>8 DEF x, new

\* A save from elsewhere makes the form and the copy of a call stale.
LEMMA GoesStale ==
    ASSUME NEW x \in Call, NEW P, NEW R, NEW T, NEW P2, Sound(x, P, R, T),
           Grown(P, R, T, P2, R, T)
    PROVE  LET y == [x EXCEPT !.stale = TRUE]
           IN  /\ y \in Call /\ Sound(y, P2, R, T)
               /\ y.pc = x.pc /\ y.project = x.project
<1> DEFINE y == [x EXCEPT !.stale = TRUE]
<1>1. y \in Call
  BY DEF Call
<1>2. /\ y.pc = x.pc /\ y.op = x.op /\ y.user = x.user /\ y.slug = x.slug
      /\ y.project = x.project /\ y.token = x.token /\ y.form = x.form /\ y.field = x.field
      /\ y.copy = x.copy /\ y.tcopy = x.tcopy /\ y.stale = TRUE /\ y.done = x.done
      /\ y.ok = x.ok /\ y.told = x.told
  BY DEF Call
<1> HIDE DEF y
<1>3. Sound(y, P, R, T)
  BY <1>2 DEF Sound, Placed, Authorized, Filled, Copied, Committed
<1>4. Sound(y, P2, R, T)
  BY <1>1, <1>2, <1>3, SoundStays
<1> QED BY <1>1, <1>2, <1>4 DEF y

\* A call whose handler is done, but for the log.
LEMMA Done ==
    ASSUME NEW x \in Call, NEW P, NEW R, NEW T, x.pc = "audit", x.done,
           x.op \in {"create", "update"} => x.project \in Projects,
           x.op \in {"issue", "revoke"} => x.token \in Tokens /\ T[x.token].project # NoProject,
           x.op = "revoke" => T[x.token].revoked
    PROVE  Sound(x, P, R, T)
  BY DEF Sound, Placed, Authorized, Filled, Copied, Committed

LEMMA SaveProjectInv == ASSUME IInv, NEW c \in Calls, SaveProject(c) PROVE IInv'
<1> DEFINE x == call[c]
           p == x.project
           y == [x EXCEPT !.pc = "audit", !.done = TRUE]
<1>1. /\ x \in Call /\ x.op = "update" /\ x.pc = "save"
  BY OfCall DEF SaveProject
<1>2. /\ p \in Projects /\ Exists(p) /\ project' \in [Projects -> Project]
      /\ project'[p].slug = project[p].slug /\ project'[p].by = project[p].by
      /\ \A q \in Projects : q # p => project'[q] = project[q]
  BY Saving
<1>3. UNCHANGED <<role, token, audit, service, begun, abandoned>>
  BY DEF SaveProject
<1>4. /\ call' = [d \in Calls |->
                    IF d = c THEN y
                    ELSE IF call[d].project = p /\ call[d].op = "update"
                         THEN [call[d] EXCEPT !.stale = TRUE] ELSE call[d]]
  BY DEF SaveProject
<1>5. Grown(project, role, token, project', role', token')
  BY <1>2, <1>3 DEF Grown
<1>6. y \in Call /\ Sound(y, project', role', token') /\ y.pc = "audit"
  <2> HIDE DEF x
  <2>1. y \in Call
    BY <1>1 DEF Call
  <2>2. y.pc = "audit" /\ y.done /\ y.op = "update" /\ y.project = x.project
    BY <1>1 DEF Call
  <2> HIDE DEF y
  <2> QED BY <1>2, <2>1, <2>2, Done
<1> HIDE DEF y
<1>7. ASSUME NEW d \in Calls, d # c
      PROVE  /\ call'[d] \in Call /\ Sound(call'[d], project', role', token')
             /\ call'[d].pc = call[d].pc /\ call'[d].project = call[d].project
  <2>1. call[d] \in Call /\ Sound(call[d], project, role, token)
    BY OfCall
  <2>2. CASE call[d].project = p /\ call[d].op = "update"
    <3>1. call'[d] = [call[d] EXCEPT !.stale = TRUE]
      BY <1>4, <1>7, <2>2
    <3>2. Grown(project, role, token, project', role, token)
      BY <1>3, <1>5
    <3>3. /\ [call[d] EXCEPT !.stale = TRUE] \in Call
          /\ Sound([call[d] EXCEPT !.stale = TRUE], project', role, token)
          /\ [call[d] EXCEPT !.stale = TRUE].pc = call[d].pc
          /\ [call[d] EXCEPT !.stale = TRUE].project = call[d].project
      BY <2>1, <3>2, GoesStale
    <3> QED BY <1>3, <3>1, <3>3
  <2>3. CASE ~(call[d].project = p /\ call[d].op = "update")
    <3>1. call'[d] = call[d]
      BY <1>4, <1>7, <2>3
    <3>2. \/ call[d].op # "update"
          \/ call[d].project \in Projects =>
               project'[call[d].project].columns = project[call[d].project].columns
      BY <1>2, <2>3
    <3>3. Sound(call[d], project', role', token')
      BY <1>5, <2>1, <3>2, SoundStays
    <3> QED BY <2>1, <3>1, <3>3
  <2> QED BY <2>2, <2>3
<1>8. call'[c] = y
  BY <1>4
<1>9. call' \in [Calls -> Call]
  <2>1. \A d \in Calls : call'[d] \in Call
    BY <1>6, <1>7, <1>8
  <2>2. call' = [d \in Calls |-> call'[d]]
    BY <1>4
  <2> QED BY <2>1, <2>2
<1>10. CallsSound'
  BY <1>6, <1>7, <1>8 DEF CallsSound
<1>11. OrphansWereCutShort'
  <2>1. ASSUME NEW d \in Calls, call[d].pc = "join"
        PROVE  call'[d].pc = "join" /\ call'[d].project = call[d].project
    BY <1>1, <1>7, <2>1
  <2>2. \A q \in Projects : project'[q].by = project[q].by
    BY <1>2
  <2> QED BY <1>3, <2>1, <2>2 DEF IInv, OrphansWereCutShort
<1>12. OneSlugOneProject'
  <2>1. \A q \in Projects : project'[q].slug = project[q].slug
    BY <1>2
  <2> QED BY <2>1 DEF IInv, OneSlugOneProject, Exists
<1>13. TypeOK'
  BY <1>2, <1>3, <1>9 DEF IInv, TypeOK
<1>14. (\A t \in Tokens : ~Issued(t) => token[t] = Unissued)' /\ LogSound(audit', token')
  BY <1>3 DEF IInv, Issued
<1> QED BY <1>3, <1>5, <1>9, <1>10, <1>11, <1>12, <1>13, <1>14, RestStays DEF IInv, CallsSound

\* A step of a call that writes one row of the tokens.
LEMMA TokenWritten ==
    ASSUME IInv, NEW c \in Calls, NEW y \in Call, call' = [call EXCEPT ![c] = y],
           NEW t \in Tokens, NEW row \in Token, token' = [token EXCEPT ![t] = row],
           UNCHANGED <<project, role, audit, service, begun, abandoned>>,
           Issued(t) => row.project = token[t].project, token[t].revoked => row.revoked,
           row.project # NoProject, Sound(y, project', role', token'),
           call[c].pc # "join"
    PROVE  IInv'
<1>1. /\ token' \in [Tokens -> Token] /\ token'[t] = row
      /\ \A s \in Tokens : s # t => token'[s] = token[s]
  BY DEF IInv, TypeOK
<1>2. Grown(project, role, token, project', role', token')
  BY <1>1 DEF Grown, Issued
<1>3. call' \in [Calls -> Call] /\ CallsSound'
  BY <1>2, CallsStay DEF IInv, TypeOK, CallsSound
<1>4. OrphansWereCutShort'
  <2>1. ASSUME NEW d \in Calls, call[d].pc = "join" PROVE call'[d] = call[d]
    BY <2>1 DEF IInv, TypeOK
  <2> QED BY <2>1 DEF IInv, OrphansWereCutShort
<1>5. (\A s \in Tokens : ~Issued(s) => token[s] = Unissued)'
  BY <1>1 DEF IInv, Issued
<1>6. LogSound(audit', token')
  BY <1>2, LogStays DEF IInv
<1>7. OneSlugOneProject' /\ TypeOK'
  BY <1>1, <1>3 DEF IInv, TypeOK, OneSlugOneProject, Exists
<1> QED BY <1>2, <1>3, <1>4, <1>5, <1>6, <1>7, RestStays DEF IInv, CallsSound

LEMMA InsertTokenInv == ASSUME IInv, NEW c \in Calls, InsertToken(c) PROVE IInv'
<1>1. PICK t \in Tokens :
        /\ ~Issued(t)
        /\ token' = [token EXCEPT ![t] = [Unissued EXCEPT !.project = call[c].project]]
        /\ call' = [call EXCEPT ![c].pc = "audit", ![c].token = t, ![c].done = TRUE]
  BY DEF InsertToken
<1> DEFINE x == call[c]
           y == [x EXCEPT !.pc = "audit", !.token = t, !.done = TRUE]
           i == Unissued
           row == [i EXCEPT !.project = x.project]
<1>2. x \in Call /\ Sound(x, project, role, token) /\ x.pc = "insert" /\ x.op = "issue"
  BY OfCall DEF InsertToken
<1>3. /\ call' = [call EXCEPT ![c] = y] /\ token' = [token EXCEPT ![t] = row]
      /\ UNCHANGED <<project, role, audit, service, begun, abandoned>>
  BY <1>1 DEF InsertToken
<1>4. call[c].pc # "join"
  BY <1>2
<1> HIDE DEF x
<1>5. x.project \in Projects /\ x.project # NoProject
  BY <1>2 DEF Sound, Authorized
<1>6. y \in Call
  BY <1>2 DEF Call
<1>7. y.pc = "audit" /\ y.op = "issue" /\ y.token = t /\ y.done
  BY <1>2 DEF Call
<1> HIDE DEF y
<1>8. i \in Token
  BY UnissuedTyped
<1>9. token[t] = Unissued
  BY <1>1 DEF IInv
<1>10. token[t].revoked = FALSE
  BY <1>9, UnissuedTyped
<1> HIDE DEF i
<1>11. row \in Token /\ row.project = x.project
  BY <1>5, <1>8 DEF Token
<1> HIDE DEF row
<1>12. token'[t] = row
  BY <1>3 DEF IInv, TypeOK
<1>13. Sound(y, project', role', token')
  BY <1>5, <1>6, <1>7, <1>11, <1>12, Done
<1>14. /\ Issued(t) => row.project = token[t].project
       /\ token[t].revoked => row.revoked
       /\ row.project # NoProject
  BY <1>1, <1>5, <1>10, <1>11
<1> QED BY <1>3, <1>4, <1>6, <1>11, <1>13, <1>14, TokenWritten

LEMMA SaveTokenInv == ASSUME IInv, NEW c \in Calls, SaveToken(c) PROVE IInv'
<1> DEFINE x == call[c]
           y == [x EXCEPT !.pc = "audit", !.done = TRUE]
           i == x.tcopy
           row == [i EXCEPT !.revoked = TRUE]
<1>1. x \in Call /\ Sound(x, project, role, token) /\ x.pc = "save" /\ x.op = "revoke"
  BY OfCall DEF SaveToken
<1>2. /\ call' = [call EXCEPT ![c] = y] /\ token' = [token EXCEPT ![x.token] = row]
      /\ UNCHANGED <<project, role, audit, service, begun, abandoned>>
  BY DEF SaveToken
<1>3. call[c].pc # "join"
  BY <1>1
<1> HIDE DEF x
<1>4. /\ x.token \in Tokens /\ x.project \in Projects /\ x.project # NoProject
      /\ token[x.token].project = x.project /\ i.project = x.project
  BY <1>1 DEF Sound, Placed, Authorized, Copied
<1>5. y \in Call
  BY <1>1 DEF Call
<1>6. y.pc = "audit" /\ y.op = "revoke" /\ y.token = x.token /\ y.done
  BY <1>1 DEF Call
<1> HIDE DEF y
<1>7. i \in Token
  BY <1>1 DEF Call
<1> HIDE DEF i
<1>8. row \in Token /\ row.project = x.project /\ row.revoked
  BY <1>4, <1>7 DEF Token
<1> HIDE DEF row
<1>9. token'[x.token] = row
  BY <1>2, <1>4 DEF IInv, TypeOK
<1>10. Sound(y, project', role', token')
  BY <1>4, <1>5, <1>6, <1>8, <1>9, Done
<1> QED BY <1>2, <1>3, <1>4, <1>5, <1>8, <1>10, TokenWritten

LEMMA AuditInv == ASSUME IInv, NEW c \in Calls, Audit(c) PROVE IInv'
<1> DEFINE x == call[c]
           entry == <<x.op, IF x.op \in {"create", "update"} THEN x.project ELSE x.token>>
<1>1. x \in Call /\ Sound(x, project, role, token) /\ x.pc = "audit"
  BY OfCall DEF Audit
<1>2. PICK ok \in BOOLEAN : Finish(c, ok)
  BY DEF Audit
<1> DEFINE y == [Rest(x, "answer") EXCEPT !.ok = ok]
<1>3. /\ call' = [call EXCEPT ![c] = y] /\ audit' \in {audit, audit \cup {entry}}
      /\ UNCHANGED <<project, role, token, service, begun, abandoned>>
  BY <1>2 DEF Audit, Finish
<1>4. call[c].pc # "join"
  BY <1>1
<1> HIDE DEF x
<1>5. /\ x.done /\ x.op \in Ops
      /\ x.op \in {"create", "update"} => x.project \in Projects
      /\ x.op \in {"issue", "revoke"} => x.token \in Tokens /\ Issued(x.token)
      /\ x.op = "revoke" => token[x.token].revoked
  BY <1>1 DEF Sound, Committed, Issued, Call
<1>6. y \in Call /\ Sound(y, project, role, token)
  BY <1>1, <1>5, Finishing DEF Sound
<1> HIDE DEF y
<1>7. entry \in Ops \X (Projects \cup Tokens)
  BY <1>5 DEF Ops
<1>8. \A t \in Tokens : /\ entry = <<"issue", t>> => Issued(t)
                        /\ entry = <<"revoke", t>> => token[t].revoked
  BY <1>5
<1> HIDE DEF entry
<1>9. audit' \in SUBSET (Ops \X (Projects \cup Tokens))
  BY <1>3, <1>7 DEF IInv, TypeOK
<1>10. LogSound(audit', token')
  BY <1>3, <1>8 DEF IInv, LogSound, Issued
<1>11. Grown(project, role, token, project', role', token')
  BY <1>3, SameGrown
<1>12. call' \in [Calls -> Call] /\ CallsSound'
  BY <1>3, <1>6, <1>11, CallsStay DEF IInv, TypeOK, CallsSound
<1>13. OrphansWereCutShort'
  <2>1. ASSUME NEW d \in Calls, call[d].pc = "join" PROVE call'[d] = call[d]
    BY <1>3, <1>4, <2>1 DEF IInv, TypeOK
  <2> QED BY <1>3, <2>1 DEF IInv, OrphansWereCutShort
<1>14. TypeOK'
  BY <1>3, <1>9, <1>12 DEF IInv, TypeOK
<1>15. OneSlugOneProject' /\ (\A t \in Tokens : ~Issued(t) => token[t] = Unissued)'
  BY <1>3 DEF IInv, OneSlugOneProject, Exists, Issued
<1> QED BY <1>3, <1>10, <1>11, <1>12, <1>13, <1>14, <1>15, RestStays DEF IInv, CallsSound

-----------------------------------------------------------------------------
(***************************************************************************)
(* The operator and the calls with a token.                                *)
(***************************************************************************)

\* When no call moves.
LEMMA CallsWait ==
    ASSUME IInv, UNCHANGED call, Grown(project, role, token, project', role', token'),
           \A p \in Projects : Exists(p) => project'[p].columns = project[p].columns
    PROVE  CallsSound'
<1>1. ASSUME NEW c \in Calls PROVE Sound(call[c], project', role', token')
  BY OfCall, SoundThrough
<1> QED BY <1>1 DEF CallsSound

LEMMA OperatorCreatesInv ==
    ASSUME IInv, NEW p \in Projects, NEW s \in Slugs, OperatorCreates(p, s)
    PROVE  IInv'
<1> DEFINE row == [slug |-> s, columns |-> Blank, by |-> "operator"]
<1>1. /\ project' = [project EXCEPT ![p] = row] /\ begun' = begun + 1 /\ ~Exists(p)
      /\ IndexAdmits(s) /\ UNCHANGED <<role, token, audit, call, service, abandoned>>
  BY DEF OperatorCreates
<1>2. row \in Project /\ row.slug = s /\ row.by = "operator"
  BY BlankTyped DEF Project
<1> HIDE DEF row
<1>3. /\ project' \in [Projects -> Project] /\ project'[p] = row
      /\ \A q \in Projects : q # p => project'[q] = project[q]
  BY <1>1, <1>2 DEF IInv, TypeOK
<1>4. Grown(project, role, token, project', role', token')
  BY <1>1, <1>3 DEF Grown, Exists
<1>5. CallsSound'
  BY <1>1, <1>3, <1>4, CallsWait
<1>6. OneSlugOneProject'
  <2>1. \A q \in Projects : project[q].slug # s
    BY <1>1 DEF IndexAdmits, Taken
  <2>2. ASSUME NEW q \in Projects, NEW r \in Projects, Exists(q)',
               project'[q].slug = project'[r].slug
        PROVE  q = r
    BY <1>2, <1>3, <2>1, <2>2 DEF IInv, OneSlugOneProject, Exists
  <2> QED BY <2>2 DEF OneSlugOneProject
<1>7. OrphansWereCutShort'
  BY <1>1, <1>2, <1>3 DEF IInv, OrphansWereCutShort
<1>8. TypeOK'
  BY <1>1, <1>3 DEF IInv, TypeOK
<1>9. (\A t \in Tokens : ~Issued(t) => token[t] = Unissued)' /\ LogSound(audit', token')
  BY <1>1 DEF IInv, Issued
<1> QED BY <1>1, <1>4, <1>5, <1>6, <1>7, <1>8, <1>9, RestStays DEF IInv, CallsSound

LEMMA OperatorIssuesInv ==
    ASSUME IInv, NEW p \in Projects, NEW t \in Tokens, OperatorIssues(p, t)
    PROVE  IInv'
<1> DEFINE i == Unissued
           row == [i EXCEPT !.project = p]
<1>1. /\ token' = [token EXCEPT ![t] = row] /\ begun' = begun + 1 /\ ~Issued(t)
      /\ UNCHANGED <<project, role, audit, call, service, abandoned>>
  BY DEF OperatorIssues
<1>2. i \in Token
  BY UnissuedTyped
<1>3. ~token[t].revoked
  <2>1. token[t] = Unissued
    BY <1>1 DEF IInv
  <2> QED BY <2>1, UnissuedTyped
<1> HIDE DEF i
<1>4. row \in Token /\ row.project = p /\ p # NoProject
  BY <1>2 DEF Token
<1> HIDE DEF row
<1>5. /\ token' \in [Tokens -> Token] /\ token'[t] = row
      /\ \A s \in Tokens : s # t => token'[s] = token[s]
  BY <1>1, <1>4 DEF IInv, TypeOK
<1>6. Grown(project, role, token, project', role', token')
  BY <1>1, <1>3, <1>5 DEF Grown, Issued
<1>7. CallsSound'
  BY <1>1, <1>6, CallsWait
<1>8. (\A s \in Tokens : ~Issued(s) => token[s] = Unissued)'
  BY <1>4, <1>5 DEF IInv, Issued
<1>9. LogSound(audit', token')
  BY <1>1, <1>6, LogStays DEF IInv
<1>10. OneSlugOneProject' /\ OrphansWereCutShort' /\ TypeOK'
  BY <1>1, <1>5 DEF IInv, TypeOK, OneSlugOneProject, OrphansWereCutShort, Exists
<1> QED BY <1>1, <1>6, <1>7, <1>8, <1>9, <1>10, RestStays DEF IInv, CallsSound

LEMMA OperatorGrantsInv ==
    ASSUME IInv, NEW u \in Users, NEW p \in Projects, NEW r \in Roles, OperatorGrants(u, p, r)
    PROVE  IInv'
<1> DEFINE hers == [role[u] EXCEPT ![p] = r]
<1>1. /\ role' = [role EXCEPT ![u] = hers] /\ begun' = begun + 1 /\ r # "none"
      /\ UNCHANGED <<project, token, audit, call, service, abandoned>>
  BY DEF OperatorGrants
<1>2. /\ hers \in [Projects -> Roles]
      /\ \A q \in Projects : role[u][q] # "none" => hers[q] # "none"
  BY <1>1 DEF IInv, TypeOK
<1> HIDE DEF hers
<1>3. /\ role' \in [Users -> [Projects -> Roles]] /\ role'[u] = hers
      /\ \A v \in Users : v # u => role'[v] = role[v]
  BY <1>1, <1>2 DEF IInv, TypeOK
<1>4. Grown(project, role, token, project', role', token')
  BY <1>1, <1>2, <1>3 DEF Grown
<1>5. CallsSound'
  BY <1>1, <1>4, CallsWait
<1>6. OrphansWereCutShort'
  BY <1>1, <1>4 DEF IInv, OrphansWereCutShort, Grown
<1>7. /\ OneSlugOneProject' /\ TypeOK' /\ LogSound(audit', token')
      /\ (\A t \in Tokens : ~Issued(t) => token[t] = Unissued)'
  BY <1>1, <1>3 DEF IInv, TypeOK, OneSlugOneProject, Exists, Issued
<1> QED BY <1>1, <1>4, <1>5, <1>6, <1>7, RestStays DEF IInv, CallsSound

\* A step of a call with a token, which may note that the token was used.
LEMMA ServiceSteps ==
    ASSUME IInv, NEW k \in Services, NEW y \in Service, service' = [service EXCEPT ![k] = y],
           UNCHANGED <<project, role, audit, call, begun, abandoned>>,
           token' \in [Tokens -> Token],
           \A t \in Tokens : /\ token'[t].project = token[t].project
                             /\ token'[t].revoked = token[t].revoked
                             /\ ~Issued(t) => token'[t] = token[t],
           ServiceSound(y, token)
    PROVE  IInv'
<1>1. Grown(project, role, token, project', role', token')
  BY DEF Grown
<1>2. CallsSound'
  BY <1>1, CallsWait
<1>3. \A j \in Services : service[j] \in Service /\ ServiceSound(service[j], token)
  BY DEF IInv, TypeOK
<1>4. ASSUME NEW j \in Services PROVE ServiceSound(service'[j], token')
  <2>1. service'[j] \in {y, service[j]}
    BY DEF IInv, TypeOK
  <2> QED BY <1>1, <1>3, <2>1, ServiceStays
<1>5. LogSound(audit', token')
  BY <1>1, LogStays DEF IInv
<1>6. (\A t \in Tokens : ~Issued(t) => token[t] = Unissued)'
  BY DEF IInv, Issued
<1>7. OneSlugOneProject' /\ OrphansWereCutShort' /\ TypeOK'
  BY DEF IInv, TypeOK, OneSlugOneProject, OrphansWereCutShort, Exists
<1> QED BY <1>2, <1>4, <1>5, <1>6, <1>7 DEF IInv, CallsSound

LEMMA UseTokenInv ==
    ASSUME IInv, NEW k \in Services, NEW t \in Tokens, UseToken(k, t) PROVE IInv'
<1> DEFINE y == [pc |-> "guard", token |-> t, late |-> token[t].revoked]
<1>1. service' = [service EXCEPT ![k] = y]
      /\ UNCHANGED <<project, role, token, audit, call, begun, abandoned>> /\ Issued(t)
  BY DEF UseToken, tables
<1>2. token[t].revoked \in BOOLEAN
  BY DEF IInv, TypeOK, Token
<1>3. y \in Service
  BY <1>2 DEF Service
<1>4. ServiceSound(y, token)
  BY <1>1 DEF ServiceSound, Issued
<1> HIDE DEF y
<1>5. token' \in [Tokens -> Token]
  BY <1>1 DEF IInv, TypeOK
<1> QED BY <1>1, <1>3, <1>4, <1>5, ServiceSteps

LEMMA IdleServiceSound == ASSUME NEW T PROVE ServiceSound(IdleService, T)
  BY IdleServiceTyped DEF ServiceSound

LEMMA CheckTokenInv == ASSUME IInv, NEW k \in Services, CheckToken(k) PROVE IInv'
<1> DEFINE x == service[k]
           y == [x EXCEPT !.pc = "touch"]
<1>1. x \in Service /\ ServiceSound(x, token)
  BY DEF IInv, TypeOK
<1>2. /\ service' = [service EXCEPT ![k] = IF token[x.token].revoked THEN IdleService ELSE y]
      /\ UNCHANGED <<project, role, token, audit, call, begun, abandoned>>
  BY DEF CheckToken, tables
<1> HIDE DEF x
<1>3. y \in Service /\ y.pc = "touch" /\ y.token = x.token /\ y.late = x.late
  BY <1>1 DEF Service
<1> HIDE DEF y
<1>4. x.pc = "guard"
  BY DEF CheckToken, x
<1>5. token' \in [Tokens -> Token]
  BY <1>2 DEF IInv, TypeOK
<1>6. CASE token[x.token].revoked
  BY <1>2, <1>5, <1>6, IdleServiceTyped, IdleServiceSound, ServiceSteps
<1>7. CASE ~token[x.token].revoked
  <2>1. ServiceSound(y, token)
    BY <1>1, <1>3, <1>4, <1>7 DEF ServiceSound
  <2> QED BY <1>2, <1>3, <1>5, <1>7, <2>1, ServiceSteps
<1> QED BY <1>6, <1>7

LEMMA TouchInv == ASSUME IInv, NEW k \in Services, Touch(k) PROVE IInv'
<1> DEFINE x == service[k]
           y == [x EXCEPT !.pc = "handler"]
<1>1. x \in Service /\ ServiceSound(x, token) /\ x.pc = "touch"
  BY DEF Touch, IInv, TypeOK
<1>2. /\ service' = [service EXCEPT ![k] = y]
      /\ \/ token' = [token EXCEPT ![x.token].used = TRUE]
         \/ UNCHANGED token
      /\ UNCHANGED <<project, role, audit, call, begun, abandoned>>
  BY DEF Touch
<1> HIDE DEF x
<1>3. y \in Service /\ y.pc = "handler" /\ y.token = x.token /\ y.late = x.late
  BY <1>1 DEF Service
<1> HIDE DEF y
<1>4. x.token \in Tokens /\ Issued(x.token)
  BY <1>1 DEF ServiceSound, Issued
<1>5. ServiceSound(y, token)
  BY <1>1, <1>3 DEF ServiceSound
<1>6. /\ token' \in [Tokens -> Token]
      /\ \A t \in Tokens : /\ token'[t].project = token[t].project
                           /\ token'[t].revoked = token[t].revoked
                           /\ ~Issued(t) => token'[t] = token[t]
  <2> DEFINE i == token[x.token]
             row == [i EXCEPT !.used = TRUE]
  <2>1. i \in Token /\ token \in [Tokens -> Token]
    BY <1>4 DEF IInv, TypeOK
  <2>2. CASE token' = [token EXCEPT ![x.token].used = TRUE]
    <3>1. token' = [token EXCEPT ![x.token] = row]
      BY <2>2
    <3>2. row \in Token /\ row.project = i.project /\ row.revoked = i.revoked
      <4> HIDE DEF i
      <4> QED BY <2>1 DEF Token
    <3> HIDE DEF row
    <3> QED BY <1>4, <2>1, <3>1, <3>2
  <2>3. CASE UNCHANGED token
    BY <2>1, <2>3
  <2> QED BY <1>2, <2>2, <2>3
<1> QED BY <1>2, <1>3, <1>5, <1>6, ServiceSteps

LEMMA ServedInv == ASSUME IInv, NEW k \in Services, Served(k) PROVE IInv'
<1>1. /\ service' = [service EXCEPT ![k] = IdleService]
      /\ UNCHANGED <<project, role, token, audit, call, begun, abandoned>>
  BY DEF Served, tables
<1>2. token' \in [Tokens -> Token]
  BY <1>1 DEF IInv, TypeOK
<1> QED BY <1>1, <1>2, IdleServiceTyped, IdleServiceSound, ServiceSteps

LEMMA CrashInv == ASSUME IInv, Crash PROVE IInv'
<1>1. /\ abandoned' = abandoned \cup {call[c].project : c \in {d \in Calls : call[d].pc = "join"}}
      /\ service' = [k \in Services |-> IdleService]
      /\ UNCHANGED <<project, role, token, audit, begun>>
  BY DEF Crash
<1>2. ASSUME NEW c \in Calls
      PROVE  /\ call'[c] \in Call /\ Sound(call'[c], project, role, token)
             /\ call[c].pc = "join" => call[c].project \in Projects
  <2> DEFINE x == call[c]
             i == Rest(x, "idle")
             y == [i EXCEPT !.told = IF @ = "waiting" THEN "failed" ELSE @]
  <2>1. x \in Call /\ Sound(x, project, role, token)
    BY OfCall
  <2>2. call'[c] = IF x.pc \in {"idle", "form"} THEN x ELSE y
    BY DEF Crash
  <2> HIDE DEF x
  <2>3. i \in Call /\ i.pc = "idle" /\ i.op = x.op /\ i.told = x.told /\ i.done = x.done
    BY <2>1, RestTyped
  <2> HIDE DEF i
  <2>4. y \in Call
    BY <2>3 DEF Call
  <2>5. /\ y.pc = "idle" /\ y.op = x.op /\ y.done = x.done
        /\ y.told = "done" => x.told = "done"
    BY <2>3 DEF Call
  <2> HIDE DEF y
  <2>6. Sound(y, project, role, token)
    BY <2>1, <2>4, <2>5, Over DEF Sound, Committed
  <2>7. x.pc = "join" => x.project \in Projects
    BY <2>1 DEF Sound, Committed
  <2> QED BY <2>1, <2>2, <2>4, <2>6, <2>7 DEF x
<1>3. call' \in [Calls -> Call]
  <2>1. call' = [c \in Calls |-> call'[c]]
    BY DEF Crash
  <2> QED BY <1>2, <2>1
<1>4. abandoned' \in SUBSET Projects
  BY <1>1, <1>2 DEF IInv, TypeOK
<1>5. TypeOK'
  BY <1>1, <1>3, <1>4, IdleServiceTyped DEF IInv, TypeOK
<1>6. OrphansWereCutShort'
  <2>1. \A c \in Calls : call[c].pc = "join" => call[c].project \in abandoned'
    BY <1>1
  <2>2. abandoned \subseteq abandoned'
    BY <1>1
  <2> QED BY <1>1, <2>1, <2>2 DEF IInv, OrphansWereCutShort
<1>7. (\A c \in Calls : Sound(call[c], project, role, token))'
  BY <1>1, <1>2
<1>8. (\A k \in Services : ServiceSound(service[k], token))'
  BY <1>1, IdleServiceSound
<1>9. /\ OneSlugOneProject' /\ LogSound(audit, token)'
      /\ (\A t \in Tokens : ~Issued(t) => token[t] = Unissued)'
  BY <1>1 DEF IInv, OneSlugOneProject, Exists, Issued
<1> QED BY <1>5, <1>6, <1>7, <1>8, <1>9 DEF IInv

-----------------------------------------------------------------------------
(***************************************************************************)
(* The invariant.                                                          *)
(***************************************************************************)
LEMMA InitInv == ASSUME Init PROVE IInv
<1>1. PICK x \in Tables : project = x.project /\ role = x.role /\ token = x.token
  BY DEF Init
<1>2. Consistent(x)
  BY TablesAssumption
<1>3. /\ audit = {} /\ call = [c \in Calls |-> IdleCall] /\ begun = 0 /\ abandoned = {}
      /\ service = [k \in Services |-> IdleService]
  BY DEF Init
<1>4. TypeOK
  BY <1>1, <1>2, <1>3, IdleCallTyped, IdleServiceTyped DEF TypeOK, Consistent
<1>5. OneSlugOneProject /\ OrphansWereCutShort /\ \A t \in Tokens : ~Issued(t) => token[t] = Unissued
  BY <1>1, <1>2 DEF Consistent, OneSlugOneProject, OrphansWereCutShort, Exists, Issued
<1>6. \A c \in Calls : Sound(call[c], project, role, token)
  BY <1>3, IdleCallTyped, Over
<1>7. \A k \in Services : ServiceSound(service[k], token)
  BY <1>3, IdleServiceSound
<1>8. LogSound(audit, token)
  BY <1>3 DEF LogSound
<1> QED BY <1>4, <1>5, <1>6, <1>7, <1>8 DEF IInv

LEMMA HandleInv == ASSUME IInv, NEW c \in Calls, Handle(c) PROVE IInv'
  BY AuthorizeInv, RefuseInv, FailsInv, LookForSlugInv, InsertProjectInv, JoinInv,
     JoinFailsInv, ReadProjectInv, SaveProjectInv, InsertTokenInv, ReadTokenInv,
     SaveTokenInv, AuditInv
  DEF Handle

LEMMA StepInv == IInv /\ [Next]_vars => IInv'
<1> SUFFICES ASSUME IInv, [Next]_vars PROVE IInv'
  OBVIOUS
<1>1. ASSUME NEW c \in Calls,
             \/ \E u \in Users, s \in Slugs : AskCreate(c, u, s)
             \/ \E u \in Users, s \in Slugs, op \in Ops, t \in Tokens \cup {NoToken} :
                  AskToken(c, u, s, op, t)
             \/ \E u \in Users, p \in Projects : ShowForm(c, u, p)
             \/ \E k \in Columns, v \in Values, sent \in SUBSET Columns :
                  SubmitForm(c, k, v, sent)
             \/ GiveUp(c) \/ Answer(c) \/ Handle(c)
      PROVE  IInv'
  BY <1>1, AskCreateInv, AskTokenInv, ShowFormInv, SubmitFormInv, GiveUpInv, AnswerInv,
     HandleInv
<1>2. ASSUME \/ \E p \in Projects, s \in Slugs : OperatorCreates(p, s)
             \/ \E p \in Projects, t \in Tokens : OperatorIssues(p, t)
             \/ \E u \in Users, p \in Projects, r \in Roles : OperatorGrants(u, p, r)
      PROVE  IInv'
  BY <1>2, OperatorCreatesInv, OperatorIssuesInv, OperatorGrantsInv
<1>3. ASSUME NEW k \in Services,
             \/ \E t \in Tokens : UseToken(k, t)
             \/ CheckToken(k) \/ Touch(k) \/ Served(k)
      PROVE  IInv'
  BY <1>3, UseTokenInv, CheckTokenInv, TouchInv, ServedInv
<1>4. CASE UNCHANGED vars
  BY <1>4 DEF vars, IInv, TypeOK, OneSlugOneProject, OrphansWereCutShort, Exists, Issued
<1> QED BY <1>1, <1>2, <1>3, <1>4, CrashInv DEF Next

-----------------------------------------------------------------------------
\* IInv is an invariant: every call and every table agree at every await.
THEOREM Invariance == Spec => []IInv
<1> QED BY InitInv, StepInv, PTL DEF Spec

\* Types are preserved.
THEOREM TypeCorrect == Spec => []TypeOK
<1>1. IInv => TypeOK
  BY DEF IInv
<1> QED BY Invariance, <1>1, PTL

\* Whoever is told "done" can rely on it: the client of hee-api.ts, but for revocations,
\* and the reader of the audit log.
THEOREM DoneMeansDone == Spec => []ToldDone
<1>1. ASSUME IInv PROVE ToldDone
  <2>1. ASSUME NEW c \in Calls, call[c].told = "done", call[c].op # "revoke"
        PROVE  call[c].done
    BY <1>1, <2>1, OfCall DEF Sound, Committed
  <2> QED BY <1>1, <2>1 DEF IInv, LogSound, ToldDone, Issued
<1> QED BY Invariance, <1>1, PTL

\* A project of the portal without any member is one whose createProject() was cut short.
THEOREM Orphans == Spec => []OrphansWereCutShort
<1>1. IInv => OrphansWereCutShort
  BY DEF IInv
<1> QED BY Invariance, <1>1, PTL

\* The lookup before the insert is backed by the index: slugs are unique.
THEOREM UniqueSlugs == Spec => []OneSlugOneProject
<1>1. IInv => OneSlugOneProject
  BY DEF IInv
<1> QED BY Invariance, <1>1, PTL

\* ApiTokenGuard lets no request pass that began after the revocation of its token.
THEOREM RevocationIsImmediate == Spec => []NoneAfterRevoke
<1>1. IInv => NoneAfterRevoke
  BY DEF IInv, ServiceSound, NoneAfterRevoke
<1> QED BY Invariance, <1>1, PTL

\* What a step may write to the tables of projects and tokens.
LEMMA Writes ==
    ASSUME IInv, [Next]_vars
    PROVE  \/ UNCHANGED <<project, token>>
           \/ \E c \in Calls : \/ InsertProject(c) \/ SaveProject(c)
                               \/ InsertToken(c) \/ SaveToken(c)
           \/ \E p \in Projects, s \in Slugs : OperatorCreates(p, s)
           \/ \E p \in Projects, t \in Tokens : OperatorIssues(p, t)
           \/ \E k \in Services : Touch(k)
<1>1. ASSUME NEW c \in Calls, Handle(c)
      PROVE  \/ UNCHANGED <<project, token>>
             \/ InsertProject(c) \/ SaveProject(c) \/ InsertToken(c) \/ SaveToken(c)
  BY <1>1 DEF Handle, Authorize, Refuse, Fails, LookForSlug, Join, JoinFails, ReadProject,
     ReadToken, Audit, tables
<1>2. ASSUME NEW c \in Calls,
             \/ \E u \in Users, s \in Slugs : AskCreate(c, u, s)
             \/ \E u \in Users, s \in Slugs, op \in Ops, t \in Tokens \cup {NoToken} :
                  AskToken(c, u, s, op, t)
             \/ \E u \in Users, p \in Projects : ShowForm(c, u, p)
             \/ \E k \in Columns, v \in Values, sent \in SUBSET Columns :
                  SubmitForm(c, k, v, sent)
             \/ GiveUp(c) \/ Answer(c)
      PROVE  UNCHANGED <<project, token>>
  BY <1>2 DEF AskCreate, AskToken, ShowForm, Begin, SubmitForm, GiveUp, Answer, tables
<1>3. ASSUME NEW u \in Users, NEW p \in Projects, NEW r \in Roles, OperatorGrants(u, p, r)
      PROVE  UNCHANGED <<project, token>>
  BY <1>3 DEF OperatorGrants
<1>4. ASSUME NEW k \in Services, (\E t \in Tokens : UseToken(k, t)) \/ CheckToken(k) \/ Served(k)
      PROVE  UNCHANGED <<project, token>>
  BY <1>4 DEF UseToken, CheckToken, Served, tables
<1>5. (Crash \/ UNCHANGED vars) => UNCHANGED <<project, token>>
  BY DEF Crash, vars
<1> QED BY <1>1, <1>2, <1>3, <1>4, <1>5 DEF Next

\* How the table of tokens changes: a row is issued, revoked, or touched.
LEMMA TokenWrites ==
    ASSUME IInv, [Next]_vars, NEW t \in Tokens, Issued(t), token'[t].revoked # token[t].revoked
    PROVE  \E c \in Calls : SaveToken(c) /\ call[c].token = t
<1>1. ASSUME NEW c \in Calls, InsertProject(c) \/ SaveProject(c) PROVE UNCHANGED token
  BY <1>1 DEF InsertProject, SaveProject
<1>2. ASSUME NEW c \in Calls, InsertToken(c) PROVE token'[t] = token[t]
  BY <1>2 DEF InsertToken, IInv, TypeOK
<1>3. ASSUME NEW c \in Calls, SaveToken(c), call[c].token # t PROVE token'[t] = token[t]
  BY <1>3 DEF SaveToken, IInv, TypeOK
<1>4. ASSUME NEW p \in Projects, NEW s \in Slugs, OperatorCreates(p, s) PROVE UNCHANGED token
  BY <1>4 DEF OperatorCreates
<1>5. ASSUME NEW p \in Projects, NEW s \in Tokens, OperatorIssues(p, s)
      PROVE  token'[t] = token[t]
  BY <1>5 DEF OperatorIssues, IInv, TypeOK
<1>6. ASSUME NEW k \in Services, Touch(k) PROVE token'[t].revoked = token[t].revoked
  BY <1>6 DEF Touch, IInv, TypeOK, Token
<1> QED BY <1>1, <1>2, <1>3, <1>4, <1>5, <1>6, Writes

\* Nothing brings a revoked token back: not the save of an older copy, and not the
\* unawaited write of last_used_at.
THEOREM RevocationIsFinal == Spec => RevokedForGood
<1>1. ASSUME IInv, [Next]_vars, NEW t \in Tokens, token[t].revoked
      PROVE  token'[t].revoked
  <2>1. Issued(t)
    BY <1>1, UnissuedTyped DEF IInv
  <2>2. ASSUME NEW c \in Calls, SaveToken(c), call[c].token = t PROVE token'[t].revoked
    <3> DEFINE i == call[c].tcopy
    <3>1. token' = [token EXCEPT ![t] = [i EXCEPT !.revoked = TRUE]]
      BY <2>2 DEF SaveToken
    <3>2. i \in Token
      BY <1>1, OfCall DEF Call
    <3> HIDE DEF i
    <3>3. [i EXCEPT !.revoked = TRUE].revoked
      BY <3>2 DEF Token
    <3> QED BY <1>1, <3>1, <3>3 DEF IInv, TypeOK
  <2> QED BY <1>1, <2>1, <2>2, TokenWrites
<1>2. IInv /\ [Next]_vars => [\A t \in Tokens : token[t].revoked => token'[t].revoked]_vars
  BY <1>1
<1> QED BY Invariance, <1>2, PTL DEF Spec, RevokedForGood

\* How a project that exists changes: by the save of a call that works on it.
LEMMA ProjectWrites ==
    ASSUME IInv, [Next]_vars, NEW p \in Projects, Exists(p), project'[p] # project[p]
    PROVE  \E c \in Calls : SaveProject(c) /\ call[c].project = p
<1>1. ASSUME NEW c \in Calls, InsertProject(c) PROVE project'[p] = project[p]
  BY <1>1 DEF InsertProject, IInv, TypeOK
<1>2. ASSUME NEW c \in Calls, SaveProject(c), call[c].project # p PROVE project'[p] = project[p]
  BY <1>2, Saving
<1>3. ASSUME NEW c \in Calls, InsertToken(c) \/ SaveToken(c) PROVE UNCHANGED project
  BY <1>3 DEF InsertToken, SaveToken
<1>4. ASSUME NEW q \in Projects, NEW s \in Slugs, OperatorCreates(q, s)
      PROVE  project'[p] = project[p]
  BY <1>4 DEF OperatorCreates, IInv, TypeOK
<1>5. ASSUME NEW q \in Projects, NEW s \in Tokens, OperatorIssues(q, s) PROVE UNCHANGED project
  BY <1>5 DEF OperatorIssues
<1>6. ASSUME NEW k \in Services, Touch(k) PROVE UNCHANGED project
  BY <1>6 DEF Touch
<1> QED BY <1>1, <1>2, <1>3, <1>4, <1>5, <1>6, Writes

\* How a token comes to a project: a call or the operator issues it.
LEMMA TokenIssued ==
    ASSUME IInv, [Next]_vars, NEW t \in Tokens, token'[t].project # token[t].project
    PROVE  /\ ~Issued(t)
           /\ \/ \E c \in Calls : InsertToken(c) /\ token'[t].project = call[c].project
              \/ \E p \in Projects : OperatorIssues(p, t)
<1>1. ASSUME NEW c \in Calls, InsertProject(c) \/ SaveProject(c) PROVE UNCHANGED token
  BY <1>1 DEF InsertProject, SaveProject
<1>2. ASSUME NEW c \in Calls, InsertToken(c)
      PROVE  ~Issued(t) /\ token'[t].project = call[c].project
  BY <1>2 DEF InsertToken, Unissued, IInv, TypeOK
<1>3. ASSUME NEW c \in Calls, SaveToken(c) PROVE token'[t].project = token[t].project
  <2> DEFINE i == call[c].tcopy
  <2>1. token' = [token EXCEPT ![call[c].token] = [i EXCEPT !.revoked = TRUE]]
    BY <1>3 DEF SaveToken
  <2>2. i \in Token /\ token[call[c].token].project = i.project
    BY <1>3, OfCall DEF SaveToken, Sound, Copied, Call
  <2> HIDE DEF i
  <2>3. [i EXCEPT !.revoked = TRUE].project = i.project
    BY <2>2 DEF Token
  <2> QED BY <2>1, <2>2, <2>3 DEF IInv, TypeOK
<1>4. ASSUME NEW p \in Projects, NEW s \in Slugs, OperatorCreates(p, s) PROVE UNCHANGED token
  BY <1>4 DEF OperatorCreates
<1>5. ASSUME NEW p \in Projects, NEW s \in Tokens, OperatorIssues(p, s)
      PROVE  ~Issued(t) /\ s = t
  BY <1>5 DEF OperatorIssues, IInv, TypeOK
<1>6. ASSUME NEW k \in Services, Touch(k) PROVE token'[t].project = token[t].project
  <2> DEFINE i == service[k].token
             r == token[t]
  <2>1. token' = [token EXCEPT ![i].used = TRUE] \/ UNCHANGED token
    BY <1>6 DEF Touch
  <2> HIDE DEF i
  <2>2. token'[t] = r \/ token'[t] = [r EXCEPT !.used = TRUE]
    BY <2>1 DEF IInv, TypeOK
  <2>3. r \in Token
    BY DEF IInv, TypeOK
  <2> HIDE DEF r
  <2>4. [r EXCEPT !.used = TRUE].project = r.project
    BY <2>3 DEF Token
  <2> QED BY <2>2, <2>4 DEF r
<1> QED BY <1>1, <1>2, <1>3, <1>4, <1>5, <1>6, Writes

\* Whoever changes a project, or revokes or issues a token of it, belongs to it.
THEOREM TenantsApart == Spec => OwnTenantOnly
<1>1. ASSUME IInv, [Next]_vars, NEW p \in Projects, Exists(p), project'[p] # project[p]
      PROVE  \E c \in Calls : Commits(c, "update", p)
  <2>1. PICK c \in Calls : SaveProject(c) /\ call[c].project = p
    BY <1>1, ProjectWrites
  <2>2. call[c].pc = "save" /\ call[c].op = "update" /\ call'[c].pc = "audit"
    BY <1>1, <2>1, OfCall DEF SaveProject, Call
  <2>3. role[call[c].user][p] # "none"
    BY <1>1, <2>1, <2>2, OfCall DEF Sound, Authorized
  <2> QED BY <2>1, <2>2, <2>3 DEF Commits
<1>2. ASSUME IInv, [Next]_vars, NEW t \in Tokens, Issued(t), token'[t].revoked # token[t].revoked
      PROVE  \E c \in Calls : Commits(c, "revoke", token[t].project)
  <2>1. PICK c \in Calls : SaveToken(c) /\ call[c].token = t
    BY <1>2, TokenWrites
  <2>2. call[c].pc = "save" /\ call[c].op = "revoke" /\ call'[c].pc = "audit"
    BY <1>2, <2>1, OfCall DEF SaveToken, Call, IInv, TypeOK
  <2>3. role[call[c].user][token[t].project] # "none" /\ call[c].project = token[t].project
    BY <1>2, <2>1, <2>2, OfCall DEF Sound, Authorized, Copied
  <2> QED BY <2>2, <2>3 DEF Commits
<1>3. ASSUME IInv, [Next]_vars, NEW t \in Tokens, token'[t].project # token[t].project
      PROVE  /\ ~Issued(t)
             /\ \/ \E c \in Calls : Commits(c, "issue", token'[t].project)
                \/ \E p \in Projects : OperatorIssues(p, t)
  <2>1. ASSUME NEW c \in Calls, InsertToken(c), token'[t].project = call[c].project
        PROVE  Commits(c, "issue", token'[t].project)
    <3>1. call[c].pc = "insert" /\ call[c].op = "issue" /\ call'[c].pc = "audit"
      BY <1>3, <2>1, OfCall DEF InsertToken, Call, IInv, TypeOK
    <3>2. role[call[c].user][call[c].project] # "none"
      BY <1>3, <3>1, OfCall DEF Sound, Authorized
    <3> QED BY <2>1, <3>1, <3>2 DEF Commits
  <2> QED BY <1>3, <2>1, TokenIssued
<1>4. IInv /\ [Next]_vars =>
        [/\ \A p \in Projects : Exists(p) /\ project'[p] # project[p] =>
              \E c \in Calls : Commits(c, "update", p)
         /\ \A t \in Tokens : Issued(t) /\ token'[t].revoked # token[t].revoked =>
              \E c \in Calls : Commits(c, "revoke", token[t].project)
         /\ \A t \in Tokens : token'[t].project # token[t].project =>
              /\ ~Issued(t)
              /\ \/ \E c \in Calls : Commits(c, "issue", token'[t].project)
                 \/ \E p \in Projects : OperatorIssues(p, t)]_vars
  BY <1>1, <1>2, <1>3
<1> QED BY Invariance, <1>4, PTL DEF Spec, OwnTenantOnly

\* A column its user did not touch is undone only by a form or a copy older than
\* somebody else's save.
THEOREM OnlyOverlapsUndo == Spec => OnlyStaleSavesUndo
<1>1. ASSUME IInv, [Next]_vars, NEW p \in Projects, NEW k \in Columns,
             Exists(p), project'[p].columns[k] # project[p].columns[k]
      PROVE  \E c \in Calls : /\ call[c].pc = "save" /\ call[c].project = p
                              /\ k = call[c].field \/ call[c].stale
  <2>1. PICK c \in Calls : SaveProject(c) /\ call[c].project = p
    BY <1>1, ProjectWrites
  <2> DEFINE x == call[c]
  <2>2. /\ x \in Call /\ Sound(x, project, role, token) /\ x.pc = "save" /\ x.op = "update"
        /\ x.project = p
    BY <1>1, <2>1, OfCall DEF SaveProject
  <2>3. project'[p].columns = Merged(x)
    BY <1>1, <2>1, Saving
  <2> HIDE DEF x
  <2>4. Merged(x)[k] = IF k \in x.sent THEN x.form[k] ELSE x.copy.columns[k]
    BY DEF Merged
  <2>5. ASSUME ~x.stale, k # x.field PROVE FALSE
    <3>1. x.form[k] = project[p].columns[k] /\ x.copy.columns[k] = project[p].columns[k]
      BY <2>2, <2>5 DEF Sound, Filled, Copied
    <3> QED BY <1>1, <2>3, <2>4, <3>1
  <2> QED BY <2>2, <2>5 DEF x
<1>2. IInv /\ [Next]_vars =>
        [\A p \in Projects, k \in Columns :
           Exists(p) /\ project'[p].columns[k] # project[p].columns[k] =>
             \E c \in Calls : /\ call[c].pc = "save" /\ call[c].project = p
                              /\ k = call[c].field \/ call[c].stale]_vars
  BY <1>1
<1> QED BY Invariance, <1>2, PTL DEF Spec, OnlyStaleSavesUndo
=============================================================================
