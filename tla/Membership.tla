----------------------------- MODULE Membership -----------------------------
(***************************************************************************)
(* Who belongs to a project: the tables users, project_members and         *)
(* project_invitations, and the requests that write them: InvitationsService *)
(* (invite, revoke, accept, one-click accept) and ProjectsService.addMember. *)
(* One project; the tasks interleave at their awaits.                      *)
(*                                                                         *)
(* As everywhere in the control plane, repository.save(entity) writes every *)
(* column in which the task's copy differs from the table, and inserts the *)
(* row again if it is no longer there.                                     *)
(*                                                                         *)
(* Data: a user is an e-mail address, a link is the invitation it is for.  *)
(***************************************************************************)
EXTENDS FiniteSets, Naturals

CONSTANTS
    Emails,      \* addresses, lower case
    Ids,         \* bound: invitations, removed ones included
    NoId,
    Handlers,    \* request handlers
    MaxEvents    \* bound: calls of addMember and awaits that throw, together

ASSUME InhabitedAssumption == Emails # {}
ASSUME IdsAssumption == NoId \notin Ids
ASSUME MaxEventsAssumption == MaxEvents \in Nat

VARIABLES
    users,     \* addresses with a row in users
    members,   \* the role every address has in the project, or "none"
    invites,   \* the project_invitations table
    expired,   \* invitations past their seven days
    links,     \* invitations whose link somebody holds
    task,      \* the local state of every request
    faults,    \* awaits that have thrown
    granted    \* history: what the operator has asked addMember for

vars == <<users, members, invites, expired, links, task, faults, granted>>

-----------------------------------------------------------------------------
Roles == {"owner", "member"}

\* "gone": the row was deleted.
Invite == [state : {"none", "stored", "gone"}, email : Emails, role : Roles,
           accepted : BOOLEAN, revoked : BOOLEAN]

Entity == [id : Ids \cup {NoId}, row : Invite]

Task == [pc : {"idle", "lookup", "supersede", "insert", "send", "undo", "revoke",
               "user", "adduser", "member", "join", "rerole", "consume"},
         ent : Entity,            \* the invitation the task works on
         email : Emails,          \* the address it is about
         role : Roles]

NoInvite == [state |-> "none", email |-> CHOOSE e \in Emails : TRUE, role |-> "member",
             accepted |-> FALSE, revoked |-> FALSE]
NoEntity == [id |-> NoId, row |-> NoInvite]
Idle == [pc |-> "idle", ent |-> NoEntity, email |-> CHOOSE e \in Emails : TRUE,
         role |-> "member"]

Live(row) == row.state = "stored" /\ ~row.accepted /\ ~row.revoked
Copy(i) == [id |-> i, row |-> invites[i]]

TypeOK ==
    /\ users \in SUBSET Emails
    /\ members \in [Emails -> Roles \cup {"none"}]
    /\ invites \in [Ids -> Invite]
    /\ expired \in SUBSET Ids
    /\ links \in SUBSET Ids
    /\ task \in [Handlers -> Task]
    /\ faults \in Nat
    /\ granted \in SUBSET (Emails \X Roles)

\* A project the operator has just created.
Init ==
    /\ users = {}
    /\ members = [e \in Emails |-> "none"]
    /\ invites = [i \in Ids |-> NoInvite]
    /\ expired = {}
    /\ links = {}
    /\ task = [k \in Handlers |-> Idle]
    /\ faults = 0
    /\ granted = {}

-----------------------------------------------------------------------------
(***************************************************************************)
(* The invitations table.                                                  *)
(***************************************************************************)

\* Mutant of IndexAdmits: no unique index.
NoIndex(i, row) == TRUE

\* The partial unique index: one live invitation per address.
IndexAdmits(i, row) ==
    Live(row) => \A j \in Ids \ {i} : ~(Live(invites[j]) /\ invites[j].email = row.email)

Save(e) == invites' = [invites EXCEPT ![e.id] = e.row]

Goto(k, pc) == task' = [task EXCEPT ![k].pc = pc]
Finish(k) == task' = [task EXCEPT ![k] = Idle]
Started(pc, ent, email, role) == [pc |-> pc, ent |-> ent, email |-> email, role |-> role]
Begin(k, pc, ent, email, role) ==
    /\ task[k].pc = "idle"
    /\ task' = [task EXCEPT ![k] = Started(pc, ent, email, role)]

-----------------------------------------------------------------------------
(***************************************************************************)
(* invite(), for an owner.                                                 *)
(***************************************************************************)

\* The address is not a member (409 otherwise).
StartInvite(k, e, r) ==
    /\ \E o \in Emails : members[o] = "owner"
    /\ members[e] = "none"
    /\ Begin(k, "lookup", NoEntity, e, r)
    /\ UNCHANGED <<users, members, invites, expired, links, faults, granted>>

\* Is a live invitation outstanding, expired or not?
LookUpLive(k) ==
    /\ task[k].pc = "lookup"
    /\ LET live == {i \in Ids : Live(invites[i]) /\ invites[i].email = task[k].email}
       IN  IF live = {} THEN Goto(k, "insert")
           ELSE \E i \in live :
                  task' = [task EXCEPT ![k].pc = "supersede", ![k].ent = Copy(i)]
    /\ UNCHANGED <<users, members, invites, expired, links, faults, granted>>

\* "The most recent link should be the valid one": the older is revoked first.
Supersede(k) ==
    /\ task[k].pc = "supersede"
    /\ Save([task[k].ent EXCEPT !.row.revoked = TRUE])
    /\ Goto(k, "insert")
    /\ UNCHANGED <<users, members, expired, links, faults, granted>>

NewInvite(e, r) ==
    [state |-> "stored", email |-> e, role |-> r, accepted |-> FALSE, revoked |-> FALSE]

\* The new invitation, with a fresh token.
InsertInvite(k) ==
    /\ task[k].pc = "insert"
    /\ \E i \in Ids :
        LET e == [id |-> i, row |-> NewInvite(task[k].email, task[k].role)]
        IN  /\ invites[i].state = "none"
            /\ IndexAdmits(i, e.row)
            /\ Save(e)
            /\ task' = [task EXCEPT ![k].pc = "send", ![k].ent = e]
    /\ UNCHANGED <<users, members, expired, links, faults, granted>>

\* The index refuses it: another invite() for the address came between.
InsertRefused(k) ==
    /\ task[k].pc = "insert"
    /\ ~IndexAdmits(NoId, NewInvite(task[k].email, task[k].role))
    /\ Finish(k)
    /\ UNCHANGED <<users, members, invites, expired, links, faults, granted>>

\* Postmark takes the mail; the response carries the link too.
SendMail(k) ==
    /\ task[k].pc = "send"
    /\ links' = links \cup {task[k].ent.id}
    /\ Finish(k)
    /\ UNCHANGED <<users, members, invites, expired, faults, granted>>

\* Postmark fails, after it has sent the mail or not.
SendFails(k) ==
    /\ task[k].pc = "send"
    /\ links' \in {links, links \cup {task[k].ent.id}}
    /\ Goto(k, "undo")
    /\ UNCHANGED <<users, members, invites, expired, faults, granted>>

\* invites.remove(row): "don't leave a ghost invite".
Undo(k) ==
    /\ task[k].pc = "undo"
    /\ invites' = [invites EXCEPT ![task[k].ent.id].state = "gone"]
    /\ Finish(k)
    /\ UNCHANGED <<users, members, expired, links, faults, granted>>

-----------------------------------------------------------------------------
(***************************************************************************)
(* revoke(), for an owner.                                                 *)
(***************************************************************************)
StartRevoke(k, i) ==
    /\ \E o \in Emails : members[o] = "owner"
    /\ Live(invites[i])
    /\ Begin(k, "revoke", Copy(i), invites[i].email, invites[i].role)
    /\ UNCHANGED <<users, members, invites, expired, links, faults, granted>>

Revoke(k) ==
    /\ task[k].pc = "revoke"
    /\ Save([task[k].ent EXCEPT !.row.revoked = TRUE])
    /\ Finish(k)
    /\ UNCHANGED <<users, members, expired, links, faults, granted>>

-----------------------------------------------------------------------------
(***************************************************************************)
(* accept(), acceptAndMintSession() and addMember(): a user, a membership, *)
(* and the invitation marked.                                              *)
(***************************************************************************)

\* The link is of a live invitation that has not expired.
Usable(i) == i \in links /\ Live(invites[i]) /\ i \notin expired

\* accept(): a signed-in user follows the link.
Accept(k, i, e) ==
    /\ Usable(i)
    /\ e \in users
    /\ e = invites[i].email
    /\ Begin(k, "member", Copy(i), e, invites[i].role)
    /\ UNCHANGED <<users, members, invites, expired, links, faults, granted>>

\* acceptAndMintSession(): the link alone.
AcceptByLink(k, i) ==
    /\ Usable(i)
    /\ Begin(k, "user", Copy(i), invites[i].email, invites[i].role)
    /\ UNCHANGED <<users, members, invites, expired, links, faults, granted>>

\* addMember(), for the operator.
AddMember(k, e, r) ==
    /\ Begin(k, "user", NoEntity, e, r)
    /\ granted' = granted \cup {<<e, r>>}
    /\ Cardinality(granted') + faults <= MaxEvents
    /\ UNCHANGED <<users, members, invites, expired, links, faults>>

FindUser(k) ==
    /\ task[k].pc = "user"
    /\ Goto(k, IF task[k].email \in users THEN "member" ELSE "adduser")
    /\ UNCHANGED <<users, members, invites, expired, links, faults, granted>>

\* The unique index on the address lets one of two concurrent inserts through.
AddUser(k) ==
    /\ task[k].pc = "adduser"
    /\ IF task[k].email \in users THEN Finish(k) ELSE Goto(k, "member")
    /\ users' = users \cup {task[k].email}
    /\ UNCHANGED <<members, invites, expired, links, faults, granted>>

\* Mutant of FindMember: the query forgets the user.
FindAnyMember(k) ==
    /\ task[k].pc = "member"
    /\ IF \A e \in Emails : members[e] = "none" THEN Goto(k, "join")
       ELSE IF task[k].ent.id # NoId THEN Goto(k, "consume")
       ELSE IF members[task[k].email] # task[k].role THEN Goto(k, "rerole")
       ELSE Finish(k)
    /\ UNCHANGED <<users, members, invites, expired, links, faults, granted>>

\* With a membership, an invitation is only marked, and addMember changes the
\* role if it is given one ("owner" is its default for a new member only).
FindMember(k) ==
    LET t == task[k]
    IN  /\ t.pc = "member"
        /\ \/ members[t.email] = "none" /\ Goto(k, "join")
           \/ members[t.email] # "none" /\ t.ent.id # NoId /\ Goto(k, "consume")
           \/ members[t.email] \notin {"none", t.role} /\ t.ent.id = NoId /\ Goto(k, "rerole")
           \/ members[t.email] # "none" /\ t.ent.id = NoId
              /\ t.role \in {members[t.email], "owner"} /\ Finish(k)
        /\ UNCHANGED <<users, members, invites, expired, links, faults, granted>>

\* Mutant of Join: the role of the invitation is not handed on.
JoinAsOwner(k) ==
    LET t == task[k]
    IN  /\ t.pc = "join"
        /\ IF members[t.email] = "none"
             THEN /\ members' = [members EXCEPT ![t.email] = "owner"]
                  /\ IF t.ent.id # NoId THEN Goto(k, "consume") ELSE Finish(k)
             ELSE /\ UNCHANGED members
                  /\ Finish(k)
        /\ UNCHANGED <<users, invites, expired, links, faults, granted>>

\* The insert; the unique index on user and project refuses a second one.
Join(k) ==
    LET t == task[k]
    IN  /\ t.pc = "join"
        /\ IF members[t.email] = "none"
             THEN /\ members' = [members EXCEPT ![t.email] = t.role]
                  /\ IF t.ent.id # NoId THEN Goto(k, "consume") ELSE Finish(k)
             ELSE /\ UNCHANGED members
                  /\ Finish(k)
        /\ UNCHANGED <<users, invites, expired, links, faults, granted>>

ChangeRole(k) ==
    /\ task[k].pc = "rerole"
    /\ members' = [members EXCEPT ![task[k].email] = task[k].role]
    /\ Finish(k)
    /\ UNCHANGED <<users, invites, expired, links, faults, granted>>

\* Mutant of Consume: update() of accepted_at instead of save().
ConsumeUpdates(k) ==
    /\ task[k].pc = "consume"
    /\ invites' = [invites EXCEPT ![task[k].ent.id].accepted = TRUE]
    /\ Finish(k)
    /\ UNCHANGED <<users, members, expired, links, faults, granted>>

\* Mutant of Consume: the assignment of acceptedAt is missing.
ConsumeForgets(k) ==
    /\ task[k].pc = "consume"
    /\ Save(task[k].ent)
    /\ Finish(k)
    /\ UNCHANGED <<users, members, expired, links, faults, granted>>

\* invite.acceptedAt = new Date(); save(invite).  (The session that a one-click
\* accept mints comes after it.)
Consume(k) ==
    /\ task[k].pc = "consume"
    /\ Save([task[k].ent EXCEPT !.row.accepted = TRUE])
    /\ Finish(k)
    /\ UNCHANGED <<users, members, expired, links, faults, granted>>

-----------------------------------------------------------------------------
(***************************************************************************)
(* The world around it.                                                    *)
(***************************************************************************)

\* Somebody asks for a magic link, which makes him a user.
SignUp(e) ==
    /\ users' = users \cup {e}
    /\ UNCHANGED <<members, invites, expired, links, task, faults, granted>>

Expire(i) ==
    /\ invites[i].state = "stored"
    /\ expired' = expired \cup {i}
    /\ UNCHANGED <<users, members, invites, links, task, faults, granted>>

\* An await throws or the process dies: the request ends where it is.
Abort(k) ==
    /\ task[k].pc # "idle"
    /\ Cardinality(granted) + faults < MaxEvents
    /\ faults' = faults + 1
    /\ Finish(k)
    /\ UNCHANGED <<users, members, invites, expired, links, granted>>

-----------------------------------------------------------------------------
Request(k) ==
    \/ \E e \in Emails, r \in Roles : StartInvite(k, e, r) \/ AddMember(k, e, r)
    \/ \E i \in Ids : StartRevoke(k, i) \/ AcceptByLink(k, i)
    \/ \E i \in Ids, e \in Emails : Accept(k, i, e)

Inviting(k) ==
    \/ LookUpLive(k) \/ Supersede(k) \/ InsertInvite(k) \/ InsertRefused(k)
    \/ SendMail(k) \/ SendFails(k) \/ Undo(k)

Joining(k) ==
    \/ FindUser(k) \/ AddUser(k) \/ FindMember(k) \/ Join(k) \/ ChangeRole(k) \/ Consume(k)

Next ==
    \/ \E k \in Handlers : Request(k) \/ Inviting(k) \/ Revoke(k) \/ Joining(k) \/ Abort(k)
    \/ \E e \in Emails : SignUp(e)
    \/ \E i \in Ids : Expire(i)

Spec == Init /\ [][Next]_vars
-----------------------------------------------------------------------------
(***************************************************************************)
(* Safety.                                                                 *)
(***************************************************************************)

\* An address never has two live invitations, so never two usable links: though
\* invite() looks first and inserts later, and rows are saved back and deleted.
OneLiveInvitation ==
    \A i, j \in Ids : Live(invites[i]) /\ Live(invites[j])
                       /\ invites[i].email = invites[j].email => i = j

\* An invitation is never both accepted and revoked, even if it is revoked while
\* its link is being followed: because save() writes the whole copy.
NeverBoth ==
    \A i \in Ids : invites[i].state = "stored" => ~(invites[i].accepted /\ invites[i].revoked)

\* Every member was given that role by the operator, or by an invitation of that
\* address whose link got out.
MembersWereInvited ==
    \A e \in Emails : members[e] # "none" =>
        \/ <<e, members[e]>> \in granted
        \/ \E i \in links : invites[i].email = e /\ invites[i].role = members[e]

\* Seats come from grants and from links that were live, sent and in time when the
\* request under way followed them; links end for good and one at a time: the
\* requests implement Seats, however they interleave and wherever they fail.
JoinPhases == {"user", "adduser", "member", "join", "rerole", "consume"}
Joiners == {k \in Handlers : task[k].pc \in JoinPhases}
Followed == {task[k].ent.id : k \in Joiners} \ {NoId}
Granted == {<<task[k].email, task[k].role>> : k \in {j \in Joiners : task[j].ent.id = NoId}}
OfferState(row) ==
    CASE row.state = "none" -> "none"
      [] Live(row) -> "open"
      [] row.state = "stored" /\ row.accepted -> "used"
      [] OTHER -> "void"
Offered == [i \in Ids |-> [state |-> OfferState(invites[i]), email |-> invites[i].email,
                          role |-> invites[i].role]]
Promise == INSTANCE Seats WITH seat <- members, offer <- Offered, sent <- links,
                               lapsed <- expired, taking <- Followed, granting <- Granted
ImplementsSeats == Promise!SeatsSpec

\* A link is used up only by a request that has made its addressee a member: a
\* failure half-way leaves the link usable.
AcceptedMeansJoined ==
    \A i \in Ids : invites[i].state = "stored" /\ invites[i].accepted
                     => members[invites[i].email] # "none"

\* An invitation that was accepted, revoked or deleted never becomes live again,
\* whatever stale copies are saved over it or inserted again after it.
Dead(row) == row.state = "gone" \/ row.accepted \/ row.revoked
LinksDieForGood == [][\A i \in Ids : Dead(invites[i]) => Dead(invites'[i])]_vars

(***************************************************************************)
(* The inductive invariant behind them.                                    *)
(***************************************************************************)

\* A row that was never written bears no mark and no link.
RowsSound ==
    \A i \in Ids : invites[i].state = "none"
                     => ~invites[i].accepted /\ ~invites[i].revoked /\ i \notin links

\* A task's copy is of a row that exists, as it was when it was live.
CopySound(e) ==
    /\ e.id \in Ids
    /\ invites[e.id].state # "none"
    /\ Live(e.row)
    /\ e.row.email = invites[e.id].email /\ e.row.role = invites[e.id].role

TaskSound(k) ==
    LET t == task[k]
    IN  /\ t.ent.id # NoId => CopySound(t.ent)
        /\ t.pc \in {"supersede", "send", "undo", "revoke", "consume"} => t.ent.id # NoId
        /\ t.pc \in {"user", "adduser", "member", "join", "rerole", "consume"} =>
             IF t.ent.id = NoId THEN <<t.email, t.role>> \in granted
             ELSE t.ent.id \in links /\ t.email = t.ent.row.email /\ t.role = t.ent.row.role
        /\ t.pc = "rerole" => t.ent.id = NoId
        /\ t.pc = "consume" => members[t.email] # "none"

IInv ==
    /\ TypeOK
    /\ OneLiveInvitation
    /\ NeverBoth
    /\ MembersWereInvited
    /\ AcceptedMeansJoined
    /\ RowsSound
    /\ \A k \in Handlers : TaskSound(k)

(***************************************************************************)
(* What a comment says and the code does not do.                           *)
(***************************************************************************)

\* "acceptedAt and revokedAt are mutually exclusive terminal states".
StatesAreTerminal ==
    [][\A i \in Ids : invites[i].state = "stored" /\ invites'[i].state = "stored" =>
         /\ invites[i].accepted => invites'[i].accepted
         /\ invites[i].revoked => invites'[i].revoked]_vars
=============================================================================
