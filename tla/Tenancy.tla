------------------------------- MODULE Tenancy -------------------------------
(***************************************************************************)
(* Projects and their API tokens: PortalService and PortalController with  *)
(* SessionGuard's memberships, the operator's ProjectsService, ApiToken-   *)
(* Guard, and at the other end of the wire what the portal's server        *)
(* actions and the SDK tell the person who asked.                          *)
(*                                                                         *)
(* Every call is a task of the control plane that pauses at its awaits,    *)
(* and a client that waits for it five seconds at most; the task goes on   *)
(* when the client has given up.  As elsewhere, save(entity) writes every  *)
(* column in which the copy that was read differs from the row.            *)
(***************************************************************************)
EXTENDS Integers, FiniteSets

CONSTANTS
    Users,
    Projects,    \* bound: rows of the projects table
    NoProject,
    Slugs,
    NoSlug,      \* the row does not exist
    Columns,     \* the columns a form sets
    Values,
    Tokens,      \* bound: rows of the api_tokens table
    NoToken,
    Calls,       \* calls of the portal
    Services,    \* calls with an API token
    Tables,      \* the tables the system may start with
    MaxCalls     \* bound: calls of the portal and of the operator

ASSUME IdsAssumption == NoProject \notin Projects /\ NoToken \notin Tokens /\ NoSlug \notin Slugs
ASSUME InhabitedAssumption == Users # {} /\ Values # {} /\ Columns # {}
ASSUME MaxCallsAssumption == MaxCalls \in Nat

VARIABLES
    project,    \* the projects table
    role,       \* project_members: the role of every user in every project
    token,      \* the api_tokens table
    audit,      \* the audit log
    call,       \* every call of the portal
    service,    \* every call with a token
    begun,      \* calls of the portal and of the operator so far
    abandoned   \* history: projects whose creation ended before its membership

tables == <<project, role, token, audit, abandoned>>
vars == <<project, role, token, audit, call, service, begun, abandoned>>

-----------------------------------------------------------------------------
Roles == {"none", "member", "owner"}
Ops == {"create", "update", "issue", "revoke"}

Form == [Columns -> Values]
\* Also what a new project's form sets.
Blank == [k \in Columns |-> CHOOSE v \in Values : TRUE]

\* by tells the portal's projects from the operator's.
Project == [slug : Slugs \cup {NoSlug}, columns : Form, by : {"nobody", "portal", "operator"}]

\* used is last_used_at.
Token == [project : Projects \cup {NoProject}, revoked : BOOLEAN, used : BOOLEAN]

\* pc: "idle", "form" (the page is shown), "guard", then where the handler is.
\* told: what the client makes of it.
Call == [pc : {"idle", "form", "guard", "look", "insert", "join", "read", "save",
               "audit", "answer"},
         op : Ops, user : Users, slug : Slugs \cup {NoSlug},
         project : Projects \cup {NoProject}, token : Tokens \cup {NoToken},
         form : Form, field : Columns, sent : SUBSET Columns,
         copy : Project, tcopy : Token,
         stale : BOOLEAN,     \* history: the project was saved since the form was shown
         done : BOOLEAN,      \* history: what was asked for is committed
         ok : BOOLEAN,        \* the status of the answer
         told : {"nothing", "waiting", "done", "failed"}]

Service == [pc : {"idle", "guard", "handler", "touch"}, token : Tokens \cup {NoToken},
            late : BOOLEAN]   \* history: it began after the token was revoked

NoRow == [slug |-> NoSlug, columns |-> Blank, by |-> "nobody"]
Unissued == [project |-> NoProject, revoked |-> FALSE, used |-> FALSE]
IdleCall == [pc |-> "idle", op |-> "create", user |-> CHOOSE u \in Users : TRUE,
             slug |-> NoSlug, project |-> NoProject, token |-> NoToken, form |-> Blank,
             field |-> CHOOSE k \in Columns : TRUE, sent |-> {}, copy |-> NoRow,
             tcopy |-> Unissued, stale |-> FALSE, done |-> FALSE, ok |-> FALSE,
             told |-> "nothing"]
IdleService == [pc |-> "idle", token |-> NoToken, late |-> FALSE]

Exists(p) == project[p].slug # NoSlug
Issued(t) == token[t].project # NoProject

TypeOK ==
    /\ project \in [Projects -> Project]
    /\ role \in [Users -> [Projects -> Roles]]
    /\ token \in [Tokens -> Token]
    /\ audit \in SUBSET (Ops \X (Projects \cup Tokens))
    /\ call \in [Calls -> Call]
    /\ service \in [Services -> Service]
    /\ begun \in Nat
    /\ abandoned \in SUBSET Projects

\* What earlier calls can have left.
Consistent(x) ==
    /\ x.project \in [Projects -> Project]
    /\ x.role \in [Users -> [Projects -> Roles]]
    /\ x.token \in [Tokens -> Token]
    /\ \A t \in Tokens : x.token[t].project = NoProject => x.token[t] = Unissued
    /\ \A p, q \in Projects :
         x.project[p].slug # NoSlug /\ x.project[p].slug = x.project[q].slug => p = q
    /\ \A p \in Projects : x.project[p].by = "portal" => \E u \in Users : x.role[u][p] # "none"

ASSUME TablesAssumption == \A x \in Tables : Consistent(x)

Init ==
    /\ \E x \in Tables : project = x.project /\ role = x.role /\ token = x.token
    /\ audit = {}
    /\ call = [c \in Calls |-> IdleCall]
    /\ service = [k \in Services |-> IdleService]
    /\ begun = 0
    /\ abandoned = {}

-----------------------------------------------------------------------------
(***************************************************************************)
(* The portal: server actions over heeApi.                                 *)
(***************************************************************************)
Ready(c) == call[c].pc = "idle" /\ call[c].told # "waiting"

Begin(c, x) ==
    /\ begun < MaxCalls
    /\ begun' = begun + 1
    /\ call' = [call EXCEPT ![c] = x]
    /\ UNCHANGED <<service, tables>>

\* createProject() of projects/new, issueTokenAction() and revokeTokenAction(): the
\* browser names a slug, and a token by its id.
AskCreate(c, u, s) ==
    /\ Ready(c)
    /\ Begin(c, [IdleCall EXCEPT !.pc = "guard", !.op = "create", !.user = u, !.slug = s,
                                 !.told = "waiting"])

AskToken(c, u, s, op, t) ==
    /\ Ready(c) /\ op \in {"issue", "revoke"} /\ (op = "issue" <=> t = NoToken)
    /\ Begin(c, [IdleCall EXCEPT !.pc = "guard", !.op = op, !.user = u, !.slug = s,
                                 !.token = t, !.told = "waiting"])

\* The settings page shows a form filled with what getProject() returns to a member.
ShowForm(c, u, p) ==
    /\ Ready(c) /\ Exists(p) /\ role[u][p] # "none"
    /\ Begin(c, [IdleCall EXCEPT !.pc = "form", !.op = "update", !.user = u,
                                 !.slug = project[p].slug, !.form = project[p].columns,
                                 !.project = p])

\* updateProjectAction(): one field was changed.  Which others are sent is left open:
\* a blank name or upstream is not, errorPageUrl always is, as its value or null.
SubmitForm(c, k, v, sent) ==
    /\ call[c].pc = "form"
    /\ k \in sent /\ sent \subseteq Columns
    /\ call' = [call EXCEPT ![c].pc = "guard", ![c].form[k] = v, ![c].field = k,
                            ![c].sent = sent, ![c].told = "waiting"]
    /\ UNCHANGED <<service, begun, tables>>

\* The client aborts after five seconds, or the connection breaks: "failed", whatever
\* the control plane goes on to do.
GiveUp(c) ==
    /\ call[c].told = "waiting"
    /\ call' = [call EXCEPT ![c].told = "failed"]
    /\ UNCHANGED <<service, begun, tables>>

\* Mutant of Understood: no call looks at the status.
UnderstoodRaw(x) == "done"

\* json() throws on any status but 2xx; revokeToken() only awaits raw(), which does not.
Understood(x) == IF x.ok \/ x.op = "revoke" THEN "done" ELSE "failed"

\* The answer arrives, or nobody waits for it any more.
Answer(c) ==
    /\ call[c].pc = "answer"
    /\ call' = [call EXCEPT ![c].pc = "idle", ![c].ok = FALSE,
                            ![c].told = IF @ = "waiting" THEN Understood(call[c]) ELSE @]
    /\ UNCHANGED <<service, begun, tables>>

-----------------------------------------------------------------------------
(***************************************************************************)
(* SessionGuard and requireProjectAccess().                                *)
(***************************************************************************)
Goto(c, pc) == call' = [call EXCEPT ![c].pc = pc]

\* What is left of a call when its handler has returned.
Rest(x, pc) == [IdleCall EXCEPT !.pc = pc, !.op = x.op, !.told = x.told, !.done = x.done]
Finish(c, ok) == call' = [call EXCEPT ![c] = [Rest(@, "answer") EXCEPT !.ok = ok]]

First(op) == CASE op = "create" -> "look" [] op = "issue" -> "insert" [] OTHER -> "read"

\* The memberships are read once; from here on the project is the one the slug meant.
Authorize(c) ==
    /\ call[c].pc = "guard"
    /\ \/ /\ call[c].op = "create"
          /\ Goto(c, "look")
       \/ \E p \in Projects :
            /\ call[c].op # "create" /\ project[p].slug = call[c].slug
            /\ role[call[c].user][p] = "owner"
            /\ call' = [call EXCEPT ![c].pc = First(call[c].op), ![c].project = p]
    /\ UNCHANGED <<service, begun, tables>>

\* 401, 403.
Refuse(c) ==
    /\ call[c].pc = "guard" /\ call[c].op # "create"
    /\ \A p \in Projects : project[p].slug = call[c].slug => role[call[c].user][p] # "owner"
    /\ Finish(c, FALSE)
    /\ UNCHANGED <<service, begun, tables>>

\* An await throws before the call has done anything: 500.
Fails(c) ==
    /\ call[c].pc \in {"guard", "look", "insert", "read", "save"}
    /\ Finish(c, FALSE)
    /\ UNCHANGED <<service, begun, tables>>

-----------------------------------------------------------------------------
(***************************************************************************)
(* createProject().                                                        *)
(***************************************************************************)
Taken(s) == \E p \in Projects : project[p].slug = s

LookForSlug(c) ==
    /\ call[c].pc = "look"
    /\ IF Taken(call[c].slug) THEN Finish(c, FALSE) ELSE Goto(c, "insert")
    /\ UNCHANGED <<service, begun, tables>>

\* Mutant of IndexAdmits: the lookup is all there is.
NoIndex(s) == TRUE

\* The unique index on slug.
IndexAdmits(s) == ~Taken(s)

InsertProject(c) ==
    /\ call[c].pc = "insert" /\ call[c].op = "create"
    /\ IF IndexAdmits(call[c].slug)
         THEN \E p \in Projects :
                /\ ~Exists(p)
                /\ project' = [project EXCEPT ![p] =
                                 [slug |-> call[c].slug, columns |-> Blank, by |-> "portal"]]
                /\ call' = [call EXCEPT ![c].pc = "join", ![c].project = p]
         ELSE Finish(c, FALSE) /\ UNCHANGED project
    /\ UNCHANGED <<role, token, audit, service, begun, abandoned>>

\* Mutant of Join: an error of the second insert is swallowed.
JoinSwallowed(c) ==
    /\ call[c].pc = "join"
    /\ \/ role' = [role EXCEPT ![call[c].user][call[c].project] = "owner"]
       \/ UNCHANGED role
    /\ call' = [call EXCEPT ![c].pc = "audit", ![c].done = TRUE]
    /\ UNCHANGED <<project, token, audit, service, begun, abandoned>>

Join(c) ==
    /\ call[c].pc = "join"
    /\ role' = [role EXCEPT ![call[c].user][call[c].project] = "owner"]
    /\ call' = [call EXCEPT ![c].pc = "audit", ![c].done = TRUE]
    /\ UNCHANGED <<project, token, audit, service, begun, abandoned>>

\* There is no transaction: the project stays behind.
JoinFails(c) ==
    /\ call[c].pc = "join"
    /\ Finish(c, FALSE)
    /\ abandoned' = abandoned \cup {call[c].project}
    /\ UNCHANGED <<project, role, token, audit, service, begun>>

-----------------------------------------------------------------------------
(***************************************************************************)
(* updateProject().                                                        *)
(***************************************************************************)
ReadProject(c) ==
    /\ call[c].pc = "read" /\ call[c].op = "update"
    /\ call' = [call EXCEPT ![c].pc = "save", ![c].copy = project[call[c].project]]
    /\ UNCHANGED <<service, begun, tables>>

\* Mutant of Merged: a column that was not sent is reset.
MergedOrReset(x) == [k \in Columns |-> IF k \in x.sent THEN x.form[k] ELSE Blank[k]]

Merged(x) == [k \in Columns |-> IF k \in x.sent THEN x.form[k] ELSE x.copy.columns[k]]

SaveProject(c) ==
    /\ call[c].pc = "save" /\ call[c].op = "update"
    /\ LET p == call[c].project
       IN  /\ project' = [project EXCEPT ![p] = [call[c].copy EXCEPT !.columns = Merged(call[c])]]
           /\ call' = [d \in Calls |->
                         IF d = c THEN [call[c] EXCEPT !.pc = "audit", !.done = TRUE]
                         ELSE IF call[d].project = p /\ call[d].op = "update"
                              THEN [call[d] EXCEPT !.stale = TRUE]
                              ELSE call[d]]
    /\ UNCHANGED <<role, token, audit, service, begun, abandoned>>

-----------------------------------------------------------------------------
(***************************************************************************)
(* issueToken() and revokeToken().                                         *)
(***************************************************************************)
InsertToken(c) ==
    /\ call[c].pc = "insert" /\ call[c].op = "issue"
    /\ \E t \in Tokens :
         /\ ~Issued(t)
         /\ token' = [token EXCEPT ![t] = [Unissued EXCEPT !.project = call[c].project]]
         /\ call' = [call EXCEPT ![c].pc = "audit", ![c].token = t, ![c].done = TRUE]
    /\ UNCHANGED <<project, role, audit, service, begun, abandoned>>

\* Mutant of ReadToken: the token is looked up by its id alone.
ReadTokenAnywhere(c) ==
    /\ call[c].pc = "read" /\ call[c].op = "revoke"
    /\ LET t == call[c].token
       IN  IF ~Issued(t) THEN Finish(c, FALSE)
           ELSE IF token[t].revoked THEN Finish(c, TRUE)
           ELSE call' = [call EXCEPT ![c].pc = "save", ![c].tcopy = token[t]]
    /\ UNCHANGED <<service, begun, tables>>

\* Not in this project: 404.  Already revoked: done.
ReadToken(c) ==
    /\ call[c].pc = "read" /\ call[c].op = "revoke"
    /\ LET t == call[c].token
       IN  IF token[t].project # call[c].project THEN Finish(c, FALSE)
           ELSE IF token[t].revoked
                THEN Finish(c, TRUE)
           ELSE call' = [call EXCEPT ![c].pc = "save", ![c].tcopy = token[t]]
    /\ UNCHANGED <<service, begun, tables>>

\* The copy goes back with its last_used_at.
SaveToken(c) ==
    /\ call[c].pc = "save" /\ call[c].op = "revoke"
    /\ token' = [token EXCEPT ![call[c].token] = [call[c].tcopy EXCEPT !.revoked = TRUE]]
    /\ call' = [call EXCEPT ![c].pc = "audit", ![c].done = TRUE]
    /\ UNCHANGED <<project, role, audit, service, begun, abandoned>>

\* AuditService.record() is awaited and never throws; then the answer, for which
\* updateProject() reads the project once more.
Audit(c) ==
    /\ call[c].pc = "audit"
    /\ \E ok \in BOOLEAN : (ok \/ call[c].op = "update") /\ Finish(c, ok)
    /\ \/ audit' = audit \cup {<<call[c].op, IF call[c].op \in {"create", "update"}
                                              THEN call[c].project ELSE call[c].token>>}
       \/ UNCHANGED audit
    /\ UNCHANGED <<project, role, token, service, begun, abandoned>>

-----------------------------------------------------------------------------
(***************************************************************************)
(* The operator: ProjectsService.create(), issueToken() and addMember(),   *)
(* each as of its last write.                                              *)
(***************************************************************************)
OperatorCreates(p, s) ==
    /\ ~Exists(p) /\ IndexAdmits(s)
    /\ begun < MaxCalls
    /\ begun' = begun + 1
    /\ project' = [project EXCEPT ![p] = [slug |-> s, columns |-> Blank, by |-> "operator"]]
    /\ UNCHANGED <<role, token, audit, call, service, abandoned>>

OperatorIssues(p, t) ==
    /\ Exists(p) /\ ~Issued(t)
    /\ begun < MaxCalls
    /\ begun' = begun + 1
    /\ token' = [token EXCEPT ![t] = [Unissued EXCEPT !.project = p]]
    /\ UNCHANGED <<project, role, audit, call, service, abandoned>>

\* So does an invitation that is accepted (Membership).  Nothing takes a membership away.
OperatorGrants(u, p, r) ==
    /\ Exists(p) /\ r # "none" /\ role[u][p] # r
    /\ begun < MaxCalls
    /\ begun' = begun + 1
    /\ role' = [role EXCEPT ![u][p] = r]
    /\ UNCHANGED <<project, token, audit, call, service, abandoned>>

-----------------------------------------------------------------------------
(***************************************************************************)
(* A call with an API token, by the SDK: ApiTokenGuard, then the handler,  *)
(* which is DomainRegistry's subject.                                      *)
(***************************************************************************)
UseToken(k, t) ==
    /\ service[k].pc = "idle" /\ Issued(t)
    /\ service' = [service EXCEPT ![k] = [pc |-> "guard", token |-> t, late |-> token[t].revoked]]
    /\ UNCHANGED <<call, begun, tables>>

\* Mutant of CheckToken: the guard forgets to look at revoked_at.
CheckTokenHash(k) ==
    /\ service[k].pc = "guard"
    /\ service' = [service EXCEPT ![k].pc = "touch"]
    /\ UNCHANGED <<call, begun, tables>>

CheckToken(k) ==
    /\ service[k].pc = "guard"
    /\ service' = [service EXCEPT ![k] =
                     IF token[@.token].revoked THEN IdleService ELSE [@ EXCEPT !.pc = "touch"]]
    /\ UNCHANGED <<call, begun, tables>>

\* Mutant of Touch: the row the guard has read, not yet revoked, is saved.
TouchBySave(k) ==
    /\ service[k].pc = "touch"
    /\ service' = [service EXCEPT ![k].pc = "handler"]
    /\ token' = [token EXCEPT ![service[k].token].used = TRUE,
                              ![service[k].token].revoked = FALSE]
    /\ UNCHANGED <<project, role, audit, call, begun, abandoned>>

\* last_used_at is written behind the guard's back, or is not.
Touch(k) ==
    /\ service[k].pc = "touch"
    /\ service' = [service EXCEPT ![k].pc = "handler"]
    /\ \/ token' = [token EXCEPT ![service[k].token].used = TRUE]
       \/ UNCHANGED token
    /\ UNCHANGED <<project, role, audit, call, begun, abandoned>>

Served(k) ==
    /\ service[k].pc = "handler"
    /\ service' = [service EXCEPT ![k] = IdleService]
    /\ UNCHANGED <<call, begun, tables>>

-----------------------------------------------------------------------------
\* The process dies: whoever waits is told of a failure.
Crash ==
    /\ \E c \in Calls : call[c].pc \notin {"idle", "form"}
    /\ call' = [c \in Calls |->
                  IF call[c].pc \in {"idle", "form"} THEN call[c]
                  ELSE [Rest(call[c], "idle") EXCEPT !.told =
                          IF @ = "waiting" THEN "failed" ELSE @]]
    /\ service' = [k \in Services |-> IdleService]
    /\ abandoned' = abandoned \cup {call[c].project : c \in {d \in Calls : call[d].pc = "join"}}
    /\ UNCHANGED <<project, role, token, audit, begun>>

Handle(c) ==
    \/ Authorize(c) \/ Refuse(c) \/ Fails(c) \/ LookForSlug(c) \/ InsertProject(c) \/ Join(c)
    \/ JoinFails(c) \/ ReadProject(c) \/ SaveProject(c) \/ InsertToken(c) \/ ReadToken(c)
    \/ SaveToken(c) \/ Audit(c)

Next ==
    \/ \E c \in Calls :
         \/ \E u \in Users, s \in Slugs : AskCreate(c, u, s)
         \/ \E u \in Users, s \in Slugs, op \in Ops, t \in Tokens \cup {NoToken} :
              AskToken(c, u, s, op, t)
         \/ \E u \in Users, p \in Projects : ShowForm(c, u, p)
         \/ \E k \in Columns, v \in Values, sent \in SUBSET Columns : SubmitForm(c, k, v, sent)
         \/ GiveUp(c) \/ Answer(c) \/ Handle(c)
    \/ \E p \in Projects, s \in Slugs : OperatorCreates(p, s)
    \/ \E p \in Projects, t \in Tokens : OperatorIssues(p, t)
    \/ \E u \in Users, p \in Projects, r \in Roles : OperatorGrants(u, p, r)
    \/ \E k \in Services :
         \/ \E t \in Tokens : UseToken(k, t)
         \/ CheckToken(k) \/ Touch(k) \/ Served(k)
    \/ Crash

Spec == Init /\ [][Next]_vars

-----------------------------------------------------------------------------
(***************************************************************************)
(* Safety.                                                                 *)
(***************************************************************************)

\* Whoever is told that it was done can rely on it, the client and the reader of the
\* log, although the control plane may fail or die at any await and the client may give
\* up at any moment.  Of "failed" the converse is not true, and of what the client
\* makes of a revocation neither is.
ToldDone ==
    /\ \A c \in Calls : call[c].told = "done" /\ call[c].op # "revoke" => call[c].done
    /\ \A t \in Tokens : /\ <<"issue", t>> \in audit => Issued(t)
                        /\ <<"revoke", t>> \in audit => token[t].revoked

\* createProject() without a transaction: a project of the portal has an owner's
\* membership, unless its call is about to write it or has been cut short there.
OrphansWereCutShort ==
    \A p \in Projects : project[p].by = "portal" =>
        \/ \E u \in Users : role[u][p] # "none"
        \/ p \in abandoned
        \/ \E c \in Calls : call[c].pc = "join" /\ call[c].project = p

\* "Slug unique across the platform".
OneSlugOneProject ==
    \A p, q \in Projects : Exists(p) /\ project[p].slug = project[q].slug => p = q

\* docs quickstart.md:28 "this invalidates every outstanding use immediately": no call
\* that begins after the revocation gets past the guard.
NoneAfterRevoke == \A k \in Services : service[k].pc \in {"touch", "handler"} => ~service[k].late

(***************************************************************************)
(* The inductive invariant: a call x and the tables it works on.           *)
(***************************************************************************)

\* Which operation awaits what.
Placed(x) ==
    /\ x.pc = "form" => x.op = "update"
    /\ x.pc \in {"look", "join"} => x.op = "create"
    /\ x.pc = "insert" => x.op \in {"create", "issue"}
    /\ x.pc \in {"read", "save"} => x.op \in {"update", "revoke"}
    /\ x.pc \in {"guard", "look", "insert"} => x.slug \in Slugs
    /\ x.op = "revoke" /\ x.pc \in {"guard", "read", "save"} => x.token \in Tokens

\* What was authorized stays so.
Authorized(x, R) ==
    x.pc \in {"insert", "read", "save"} /\ x.op # "create" =>
        x.project \in Projects /\ R[x.user][x.project] # "none"

\* The project of a form is the one its slug means, and the form is the project's as
\* long as nobody else saves it.
Filled(x, P) ==
    x.op = "update" /\ x.pc \in {"form", "guard", "read", "save"} =>
        /\ x.project \in Projects /\ x.slug \in Slugs /\ P[x.project].slug = x.slug
        /\ \/ x.stale
           \/ \A j \in Columns : \/ x.form[j] = P[x.project].columns[j]
                                 \/ j = x.field /\ x.pc # "form"

\* So are the copies that are about to be saved.
Copied(x, P, T) ==
    /\ x.pc = "save" /\ x.op = "update" =>
         /\ x.copy.slug = x.slug /\ x.copy.by = P[x.project].by
         /\ x.stale \/ x.copy.columns = P[x.project].columns
    /\ x.pc = "save" /\ x.op = "revoke" =>
         T[x.token].project = x.project /\ x.tcopy.project = x.project

\* What a call has reached it has done.
Committed(x, T) ==
    /\ x.pc = "join" => x.project \in Projects
    /\ x.pc = "audit" =>
         /\ x.done
         /\ x.op \in {"create", "update"} => x.project \in Projects
         /\ x.op \in {"issue", "revoke"} => x.token \in Tokens /\ T[x.token].project # NoProject
         /\ x.op = "revoke" => T[x.token].revoked
    /\ x.pc = "answer" /\ x.ok => x.done \/ x.op = "revoke"
    /\ x.told = "done" => x.done \/ x.op = "revoke"

Sound(x, P, R, T) ==
    Placed(x) /\ Authorized(x, R) /\ Filled(x, P) /\ Copied(x, P, T) /\ Committed(x, T)

\* A call with a token: late means that the guard will find it revoked.
ServiceSound(x, T) ==
    /\ x.pc # "idle" => x.token \in Tokens /\ T[x.token].project # NoProject
    /\ x.late => x.pc = "guard" /\ T[x.token].revoked

LogSound(A, T) ==
    \A t \in Tokens : /\ <<"issue", t>> \in A => T[t].project # NoProject
                      /\ <<"revoke", t>> \in A => T[t].revoked

IInv ==
    /\ TypeOK
    /\ OneSlugOneProject
    /\ OrphansWereCutShort
    /\ \A t \in Tokens : ~Issued(t) => token[t] = Unissued
    /\ LogSound(audit, token)
    /\ \A c \in Calls : Sound(call[c], project, role, token)
    /\ \A k \in Services : ServiceSound(service[k], token)

(***************************************************************************)
(* What a step may never do.                                               *)
(***************************************************************************)

\* Neither the unawaited write of last_used_at nor a save of an older copy brings a
\* revoked token back.
RevokedForGood == [][\A t \in Tokens : token[t].revoked => token'[t].revoked]_vars

\* Call c commits what it was asked to do in project p, for a user who belongs there.
Commits(c, op, p) ==
    /\ call[c].op = op /\ call[c].project = p /\ role[call[c].user][p] # "none"
    /\ call[c].pc \in {"insert", "save"} /\ call'[c].pc = "audit"

\* requireProjectAccess() decides, an await or more before the write and on the slug the
\* browser names; the write goes by an id.  Still the call that changes a project, or
\* revokes or issues a token of it, is one of a user who belongs to that project (as an
\* owner when he was asked, if no longer); only the operator issues tokens besides.
OwnTenantOnly ==
    [][/\ \A p \in Projects : Exists(p) /\ project'[p] # project[p] =>
            \E c \in Calls : Commits(c, "update", p)
       /\ \A t \in Tokens : Issued(t) /\ token'[t].revoked # token[t].revoked =>
            \E c \in Calls : Commits(c, "revoke", token[t].project)
       /\ \A t \in Tokens : token'[t].project # token[t].project =>
            /\ ~Issued(t)
            /\ \/ \E c \in Calls : Commits(c, "issue", token'[t].project)
               \/ \E p \in Projects : OperatorIssues(p, t)]_vars

\* The form and the entity are older than the save: a column that its user did not
\* touch is changed by a save, but only if another save came in between.
OnlyStaleSavesUndo ==
    [][\A p \in Projects, k \in Columns :
         Exists(p) /\ project'[p].columns[k] # project[p].columns[k] =>
           \E c \in Calls : /\ call[c].pc = "save" /\ call[c].project = p
                            /\ k = call[c].field \/ call[c].stale]_vars
=============================================================================
