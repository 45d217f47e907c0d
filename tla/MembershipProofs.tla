-------------------------- MODULE MembershipProofs --------------------------
(***************************************************************************)
(* Membership's safety properties hold for any addresses, invitations and  *)
(* requests, with stale saves, re-inserted rows and failing awaits.        *)
(***************************************************************************)
EXTENDS Membership, TLAPS

USE InhabitedAssumption, IdsAssumption, MaxEventsAssumption

Phases == {"idle", "lookup", "supersede", "insert", "send", "undo", "revoke",
           "user", "adduser", "member", "join", "rerole", "consume"}

LEMMA Constants ==
    /\ NoInvite \in Invite /\ NoInvite.state = "none" /\ ~NoInvite.accepted /\ ~NoInvite.revoked
    /\ NoEntity \in Entity /\ NoEntity.id = NoId
    /\ Idle \in Task /\ Idle.pc = "idle" /\ Idle.ent = NoEntity
BY DEF NoInvite, Invite, Roles, NoEntity, Entity, Idle, Task

LEMMA BeginTypes ==
    ASSUME NEW pc \in Phases, NEW e \in Entity, NEW email \in Emails, NEW r \in Roles
    PROVE  /\ Started(pc, e, email, r) \in Task
           /\ Started(pc, e, email, r).pc = pc /\ Started(pc, e, email, r).ent = e
           /\ Started(pc, e, email, r).email = email /\ Started(pc, e, email, r).role = r
BY DEF Started, Task, Phases

LEMMA InitInv == Init => IInv
<1> SUFFICES ASSUME Init PROVE IInv
  OBVIOUS
<1>1. \A i \in Ids : invites[i] = NoInvite
  BY DEF Init
<1>2. TypeOK
  BY Constants DEF Init, TypeOK
<1>3. OneLiveInvitation /\ NeverBoth /\ AcceptedMeansJoined /\ RowsSound
  BY <1>1, Constants DEF Init, OneLiveInvitation, NeverBoth, AcceptedMeansJoined, RowsSound, Live
<1>4. MembersWereInvited
  BY DEF Init, MembersWereInvited
<1>5. \A k \in Handlers : TaskSound(k)
  BY Constants DEF Init, TaskSound
<1> QED BY <1>2, <1>3, <1>4, <1>5 DEF IInv

-----------------------------------------------------------------------------
\* What every step does to the state that a request depends on: an invitation
\* keeps its address and its role, nobody leaves, and what was granted or sent
\* stays so.
Grows ==
    /\ \A i \in Ids : invites[i].state # "none" =>
         /\ invites'[i].state # "none"
         /\ invites'[i].email = invites[i].email /\ invites'[i].role = invites[i].role
    /\ \A e \in Emails : members[e] # "none" => members'[e] # "none"
    /\ links \subseteq links'
    /\ granted \subseteq granted'

\* So a request that does not move stays sound.
LEMMA TaskStays ==
    ASSUME IInv, NEW k \in Handlers, task'[k] = task[k], Grows
    PROVE  TaskSound(k)'
<1>1. task[k] \in Task /\ TaskSound(k)
  BY DEF IInv, TypeOK
<1>2. task[k].ent.id # NoId => CopySound(task[k].ent)'
  BY <1>1 DEF TaskSound, CopySound, Grows
<1>3. task[k].pc = "consume" => members'[task[k].email] # "none"
  BY <1>1 DEF Task, TaskSound, Grows
<1> QED BY <1>1, <1>2, <1>3 DEF TaskSound, Grows

LEMMA IdleSound == ASSUME NEW k \in Handlers, task'[k] = Idle PROVE TaskSound(k)'
BY Constants DEF TaskSound

\* The requests other than k, when k takes a step.
LEMMA OthersStay ==
    ASSUME IInv, NEW k \in Handlers, NEW t, task' = [task EXCEPT ![k] = t], TaskSound(k)', Grows
    PROVE  \A j \in Handlers : TaskSound(j)'
<1> SUFFICES ASSUME NEW j \in Handlers, j # k PROVE TaskSound(j)'
  OBVIOUS
<1>1. task'[j] = task[j]
  BY DEF IInv, TypeOK
<1> QED BY <1>1, TaskStays

\* A step of request k that leaves invitations and members alone.
LEMMA TaskStepInv ==
    ASSUME IInv, NEW k \in Handlers, NEW t \in Task, task' = [task EXCEPT ![k] = t],
           TaskSound(k)', UNCHANGED <<invites, members, expired>>,
           users' \in SUBSET Emails, faults' \in Nat,
           links \subseteq links', links' \in SUBSET {i \in Ids : i \in links \/ invites[i].state # "none"},
           granted \subseteq granted', granted' \in SUBSET (Emails \X Roles)
    PROVE  IInv'
<1> USE DEF IInv
<1>1. TypeOK'
  BY DEF TypeOK
<1>2. OneLiveInvitation' /\ NeverBoth' /\ AcceptedMeansJoined'
  BY DEF OneLiveInvitation, NeverBoth, AcceptedMeansJoined
<1>3. MembersWereInvited'
  BY DEF MembersWereInvited
<1>4. RowsSound'
  BY DEF RowsSound
<1>5. Grows
  BY DEF Grows
<1> QED BY <1>1, <1>2, <1>3, <1>4, <1>5, OthersStay

\* A step of request k that writes the row of invitation i.
LEMMA RowStepInv ==
    ASSUME IInv, NEW k \in Handlers, NEW t \in Task, task' = [task EXCEPT ![k] = t],
           TaskSound(k)', UNCHANGED <<users, members, expired, links, faults, granted>>,
           NEW i \in Ids, NEW row \in Invite, invites' = [invites EXCEPT ![i] = row],
           row.state # "none",
           IndexAdmits(i, row),
           row.state = "stored" => ~(row.accepted /\ row.revoked),
           row.state = "stored" /\ row.accepted => members[row.email] # "none",
           invites[i].state # "none" => row.email = invites[i].email /\ row.role = invites[i].role
    PROVE  IInv'
<1> USE DEF IInv
<1>1. \A j \in Ids : invites'[j] = IF j = i THEN row ELSE invites[j]
  BY DEF TypeOK
<1>2. TypeOK'
  BY DEF TypeOK
<1>3. OneLiveInvitation'
  BY <1>1 DEF OneLiveInvitation, IndexAdmits, Live
<1>4. NeverBoth' /\ AcceptedMeansJoined'
  BY <1>1 DEF NeverBoth, AcceptedMeansJoined
<1>5. RowsSound'
  BY <1>1 DEF RowsSound
<1>6. Grows
  BY <1>1 DEF Grows
<1>7. MembersWereInvited'
  <2>1. \A j \in links : j \in Ids /\ invites'[j].email = invites[j].email
                         /\ invites'[j].role = invites[j].role
    BY <1>6 DEF Grows, RowsSound, TypeOK
  <2> QED BY <2>1 DEF MembersWereInvited
<1> QED BY <1>2, <1>3, <1>4, <1>5, <1>6, <1>7, OthersStay

\* A step of request k that gives an address a role it was granted or invited to.
LEMMA MemberStepInv ==
    ASSUME IInv, NEW k \in Handlers, NEW t \in Task, task' = [task EXCEPT ![k] = t],
           TaskSound(k)', UNCHANGED <<users, invites, expired, links, faults, granted>>,
           NEW e \in Emails, NEW r \in Roles, members' = [members EXCEPT ![e] = r],
           <<e, r>> \in granted \/ \E i \in links : invites[i].email = e /\ invites[i].role = r
    PROVE  IInv'
<1> USE DEF IInv
<1>1. \A d \in Emails : members'[d] = IF d = e THEN r ELSE members[d]
  BY DEF TypeOK
<1>2. r # "none"
  BY DEF Roles
<1>3. TypeOK'
  BY DEF TypeOK
<1>4. OneLiveInvitation' /\ NeverBoth' /\ RowsSound'
  BY DEF OneLiveInvitation, NeverBoth, RowsSound
<1>5. AcceptedMeansJoined'
  BY <1>1, <1>2 DEF AcceptedMeansJoined, TypeOK, Invite
<1>6. MembersWereInvited'
  BY <1>1 DEF MembersWereInvited
<1>7. Grows
  BY <1>1, <1>2 DEF Grows
<1> QED BY <1>3, <1>4, <1>5, <1>6, <1>7, OthersStay
\* A step of request k that writes nothing at all.
LEMMA OnlyTaskInv ==
    ASSUME IInv, NEW k \in Handlers, NEW t \in Task, task' = [task EXCEPT ![k] = t],
           TaskSound(k)', UNCHANGED <<users, members, invites, expired, links, faults, granted>>
    PROVE  IInv'
<1>1. users' \in SUBSET Emails /\ faults' \in Nat /\ granted' \in SUBSET (Emails \X Roles)
  BY DEF IInv, TypeOK
<1>2. links' \in SUBSET {i \in Ids : i \in links \/ invites[i].state # "none"}
  BY DEF IInv, TypeOK
<1>3. links \subseteq links' /\ granted \subseteq granted'
  OBVIOUS
<1> QED BY <1>1, <1>2, <1>3, TaskStepInv
-----------------------------------------------------------------------------
\* A request moves on to another phase.
LEMMA GotoTypes ==
    ASSUME IInv, NEW k \in Handlers, NEW pc \in Phases, Goto(k, pc)
    PROVE  /\ task' = [task EXCEPT ![k] = [task[k] EXCEPT !.pc = pc]]
           /\ [task[k] EXCEPT !.pc = pc] \in Task
           /\ task'[k].pc = pc /\ task'[k].ent = task[k].ent
           /\ task'[k].email = task[k].email /\ task'[k].role = task[k].role
BY DEF IInv, TypeOK, Goto, Task, Phases

LEMMA GotoInv ==
    ASSUME IInv, NEW k \in Handlers, NEW pc \in Phases, Goto(k, pc), TaskSound(k)',
           UNCHANGED <<users, members, invites, expired, links, faults, granted>>
    PROVE  IInv'
<1> DEFINE t == [task[k] EXCEPT !.pc = pc]
<1>1. t \in Task /\ task' = [task EXCEPT ![k] = t]
  BY GotoTypes
<1> HIDE DEF t
<1> QED BY <1>1, OnlyTaskInv

\* A request begins, with the copy it has just read or with none.
LEMMA BeginInv ==
    ASSUME IInv, NEW k \in Handlers, NEW pc \in {"lookup", "revoke", "member", "user"},
           NEW e \in Entity, NEW email \in Emails, NEW r \in Roles, Begin(k, pc, e, email, r),
           UNCHANGED <<users, members, invites, expired, links, faults>>,
           granted \subseteq granted', granted' \in SUBSET (Emails \X Roles),
           e.id # NoId => CopySound(e),
           pc = "revoke" => e.id # NoId,
           pc \in {"member", "user"} =>
             IF e.id = NoId THEN <<email, r>> \in granted'
             ELSE e.id \in links /\ email = e.row.email /\ r = e.row.role
    PROVE  IInv'
<1> DEFINE t == Started(pc, e, email, r)
<1>1. t \in Task /\ t.pc = pc /\ t.ent = e /\ t.email = email /\ t.role = r
  BY BeginTypes DEF Phases
<1>2. task' = [task EXCEPT ![k] = t] /\ task'[k] = t
  BY DEF Begin, IInv, TypeOK
<1>3. TaskSound(k)'
  BY <1>1, <1>2 DEF TaskSound, CopySound
<1> QED BY <1>1, <1>2, <1>3, TaskStepInv DEF IInv, TypeOK

\* The copy of an invitation that is live.
LEMMA CopyTypes ==
    ASSUME IInv, NEW i \in Ids, Live(invites[i])
    PROVE  /\ Copy(i) \in Entity /\ Copy(i).id = i /\ Copy(i).row = invites[i] /\ CopySound(Copy(i))
           /\ invites[i].email \in Emails /\ invites[i].role \in Roles
BY DEF IInv, TypeOK, Copy, CopySound, Live, Entity, Invite

\* A request begins with the copy of a live invitation.
LEMMA BeginCopyInv ==
    ASSUME IInv, NEW k \in Handlers, NEW pc \in {"revoke", "member", "user"},
           NEW i \in Ids, Live(invites[i]), pc # "revoke" => i \in links,
           Begin(k, pc, Copy(i), invites[i].email, invites[i].role),
           UNCHANGED <<users, members, invites, expired, links, faults, granted>>
    PROVE  IInv'
<1> DEFINE e == Copy(i)
           email == invites[i].email
           r == invites[i].role
<1>1. /\ e \in Entity /\ e.id = i /\ CopySound(e)
      /\ email \in Emails /\ r \in Roles /\ email = e.row.email /\ r = e.row.role
  BY CopyTypes
<1>2. pc \in {"lookup", "revoke", "member", "user"}
  OBVIOUS
<1>3. e.id # NoId
  BY <1>1
<1>4. granted \subseteq granted' /\ granted' \in SUBSET (Emails \X Roles)
  BY DEF IInv, TypeOK
<1>5. pc \in {"member", "user"} =>
        IF e.id = NoId THEN <<email, r>> \in granted'
        ELSE e.id \in links /\ email = e.row.email /\ r = e.row.role
  BY <1>1, <1>3
<1>6. /\ Begin(k, pc, e, email, r)
      /\ UNCHANGED <<users, members, invites, expired, links, faults>>
  OBVIOUS
<1> HIDE DEF e, email, r
<1> QED BY <1>1, <1>2, <1>3, <1>4, <1>5, <1>6, BeginInv

LEMMA RequestInv == ASSUME IInv, NEW k \in Handlers, Request(k) PROVE IInv'
<1>0. granted \in SUBSET (Emails \X Roles)
  BY DEF IInv, TypeOK
<1>1. ASSUME NEW e \in Emails, NEW r \in Roles, StartInvite(k, e, r) PROVE IInv'
  <2>1. /\ Begin(k, "lookup", NoEntity, e, r)
        /\ UNCHANGED <<users, members, invites, expired, links, faults, granted>>
    BY <1>1 DEF StartInvite
  <2> QED BY <1>0, <2>1, Constants, BeginInv
<1>2. ASSUME NEW e \in Emails, NEW r \in Roles, AddMember(k, e, r) PROVE IInv'
  <2>1. /\ granted' = granted \cup {<<e, r>>} /\ Begin(k, "user", NoEntity, e, r)
        /\ UNCHANGED <<users, members, invites, expired, links, faults>>
    BY <1>2 DEF AddMember
  <2>2. granted' \in SUBSET (Emails \X Roles) /\ granted \subseteq granted' /\ <<e, r>> \in granted'
    BY <1>0, <2>1
  <2> QED BY <2>1, <2>2, Constants, BeginInv
<1>3. ASSUME NEW i \in Ids, StartRevoke(k, i) PROVE IInv'
  <2>1. /\ Live(invites[i]) /\ Begin(k, "revoke", Copy(i), invites[i].email, invites[i].role)
        /\ UNCHANGED <<users, members, invites, expired, links, faults, granted>>
    BY <1>3 DEF StartRevoke
  <2> QED BY <2>1, BeginCopyInv
<1>4. ASSUME NEW i \in Ids, AcceptByLink(k, i) PROVE IInv'
  <2>1. /\ Live(invites[i]) /\ i \in links
        /\ Begin(k, "user", Copy(i), invites[i].email, invites[i].role)
        /\ UNCHANGED <<users, members, invites, expired, links, faults, granted>>
    BY <1>4 DEF AcceptByLink, Usable
  <2> QED BY <2>1, BeginCopyInv
<1>5. ASSUME NEW i \in Ids, NEW e \in Emails, Accept(k, i, e) PROVE IInv'
  <2>1. /\ Live(invites[i]) /\ i \in links /\ e = invites[i].email
        /\ Begin(k, "member", Copy(i), invites[i].email, invites[i].role)
        /\ UNCHANGED <<users, members, invites, expired, links, faults, granted>>
    BY <1>5 DEF Accept, Usable
  <2> QED BY <2>1, BeginCopyInv
<1> QED BY <1>1, <1>2, <1>3, <1>4, <1>5 DEF Request

\* A request that ends.
LEMMA FinishInv ==
    ASSUME IInv, NEW k \in Handlers, Finish(k), UNCHANGED <<users, members, invites, expired, granted>>,
           faults' \in Nat, links \subseteq links',
           links' \in SUBSET {i \in Ids : i \in links \/ invites[i].state # "none"}
    PROVE  IInv'
<1>1. task' = [task EXCEPT ![k] = Idle] /\ task'[k] = Idle
  BY DEF Finish, IInv, TypeOK
<1> QED BY <1>1, Constants, IdleSound, TaskStepInv DEF IInv, TypeOK

\* Saving the copy of a request that ends, with one mark on it.
LEMMA MarkInv ==
    ASSUME IInv, NEW k \in Handlers, NEW row \in Invite, NEW t \in Task,
           task' = [task EXCEPT ![k] = t], TaskSound(k)',
           task[k].ent.id # NoId,
           invites' = [invites EXCEPT ![task[k].ent.id] = row],
           row.state # "none", ~Live(row), ~(row.accepted /\ row.revoked),
           row.accepted => members[row.email] # "none",
           row.email = task[k].ent.row.email, row.role = task[k].ent.row.role,
           UNCHANGED <<users, members, expired, links, faults, granted>>
    PROVE  IInv'
<1>1. CopySound(task[k].ent)
  BY DEF IInv, TaskSound
<1> QED BY <1>1, RowStepInv DEF CopySound, IndexAdmits

LEMMA InvitingInv == ASSUME IInv, NEW k \in Handlers, Inviting(k) \/ Revoke(k) PROVE IInv'
<1> USE DEF IInv
<1> DEFINE t == task[k]
<1>1. t \in Task /\ TaskSound(k) /\ links \subseteq Ids
  BY DEF TypeOK
<1>2. CASE LookUpLive(k)
  <2> DEFINE live == {i \in Ids : Live(invites[i]) /\ invites[i].email = t.email}
  <2>1. t.pc = "lookup" /\ UNCHANGED <<users, members, invites, expired, links, faults, granted>>
    BY <1>2 DEF LookUpLive
  <2>2. CASE live = {}
    <3>1. Goto(k, "insert")
      BY <1>2, <2>2 DEF LookUpLive
    <3>2. TaskSound(k)'
      BY <1>1, <2>1, <3>1, GotoTypes DEF TaskSound, CopySound, Phases
    <3> QED BY <2>1, <3>1, <3>2, GotoInv DEF Phases
  <2>3. ASSUME NEW i \in live, task' = [task EXCEPT ![k].pc = "supersede", ![k].ent = Copy(i)]
        PROVE  IInv'
    <3> DEFINE n == [t EXCEPT !.pc = "supersede", !.ent = Copy(i)]
    <3>1. task' = [task EXCEPT ![k] = n] /\ task'[k] = n
      BY <2>3 DEF TypeOK
    <3>2. n \in Task /\ n.pc = "supersede" /\ n.ent = Copy(i)
      BY <1>1, CopyTypes DEF Task
    <3> HIDE DEF n
    <3>3. TaskSound(k)'
      <4>1. Copy(i).id = i /\ Copy(i).row = invites[i] /\ CopySound(Copy(i))
        BY CopyTypes
      <4>2. task'[k].ent = Copy(i) /\ task'[k].pc = "supersede" /\ invites' = invites
        BY <2>1, <3>1, <3>2
      <4>3. CopySound(task[k].ent)'
        BY <4>1, <4>2 DEF CopySound, Copy
      <4>4. task'[k].ent.id # NoId
        BY <4>1, <4>2
      <4> QED BY <4>2, <4>3, <4>4 DEF TaskSound
    <3> QED BY <2>1, <3>1, <3>2, <3>3, OnlyTaskInv
  <2> QED BY <1>2, <2>2, <2>3 DEF LookUpLive
<1>3. CASE Supersede(k)
  <2> DEFINE row == [t.ent.row EXCEPT !.revoked = TRUE]
  <2>1. CopySound(t.ent) /\ t.ent.id # NoId /\ t.ent \in Entity
    BY <1>1, <1>3 DEF Supersede, TaskSound, Task
  <2>2. /\ row \in Invite /\ row.state = "stored" /\ row.revoked /\ ~row.accepted
        /\ row.email = t.ent.row.email /\ row.role = t.ent.row.role
    BY <2>1 DEF CopySound, Live, Entity, Invite
  <2>3. invites' = [invites EXCEPT ![t.ent.id] = row]
    BY <1>3, <2>1 DEF Supersede, Save, Entity
  <2>4. Goto(k, "insert")
    BY <1>3 DEF Supersede
  <2>5. TaskSound(k)'
    <3>1. invites'[t.ent.id] = row /\ task'[k].ent = t.ent /\ task'[k].pc = "insert"
      BY <2>1, <2>3, <2>4, GotoTypes DEF CopySound, TypeOK, Phases
    <3>2. CopySound(task[k].ent)'
      BY <2>1, <2>2, <3>1 DEF CopySound
    <3> QED BY <3>1, <3>2 DEF TaskSound
  <2> QED BY <1>3, <2>1, <2>2, <2>3, <2>4, <2>5, GotoTypes, MarkInv DEF Supersede, Live, Phases
<1>4. CASE InsertInvite(k)
  <2> DEFINE row == NewInvite(t.email, t.role)
  <2>1. PICK i \in Ids : /\ invites[i].state = "none" /\ IndexAdmits(i, row)
                         /\ Save([id |-> i, row |-> row])
                         /\ task' = [task EXCEPT ![k].pc = "send", ![k].ent = [id |-> i, row |-> row]]
    BY <1>4 DEF InsertInvite
  <2>2. /\ row \in Invite /\ row.state = "stored" /\ ~row.accepted /\ ~row.revoked
    BY <1>1 DEF NewInvite, Invite, Task
  <2> DEFINE n == [t EXCEPT !.pc = "send", !.ent = [id |-> i, row |-> row]]
  <2>3. invites' = [invites EXCEPT ![i] = row] /\ invites'[i] = row
    BY <2>1 DEF Save, TypeOK
  <2>4. /\ task' = [task EXCEPT ![k] = n] /\ task'[k] = n /\ n \in Task
        /\ n.pc = "send" /\ n.ent = [id |-> i, row |-> row]
    BY <1>1, <2>1, <2>2 DEF Task, Entity, TypeOK
  <2>5. TaskSound(k)'
    <3> HIDE DEF row, n
    <3>1. task'[k].pc = "send" /\ task'[k].ent.id = i /\ task'[k].ent.row = row
      BY <2>4
    <3>2. CopySound(task[k].ent)'
      BY <2>2, <2>3, <3>1 DEF CopySound, Live
    <3> QED BY <3>1, <3>2 DEF TaskSound
  <2> QED BY <1>4, <2>1, <2>2, <2>3, <2>4, <2>5, RowStepInv DEF InsertInvite
<1>5. CASE InsertRefused(k)
  BY <1>1, <1>5, FinishInv DEF InsertRefused, TypeOK
<1>6. CASE SendMail(k)
  <2>1. t.ent.id \in Ids /\ invites[t.ent.id].state # "none"
    BY <1>1, <1>6 DEF SendMail, TaskSound, CopySound
  <2> QED BY <1>1, <1>6, <2>1, FinishInv DEF SendMail, TypeOK
<1>7. CASE SendFails(k)
  <2>1. t.pc = "send" /\ t.ent.id \in Ids /\ invites[t.ent.id].state # "none" /\ Goto(k, "undo")
    BY <1>1, <1>7 DEF SendFails, TaskSound, CopySound
  <2>2. /\ links \subseteq links' /\ links' \subseteq links \cup {t.ent.id}
        /\ UNCHANGED <<users, members, invites, expired, faults, granted>>
    BY <1>7 DEF SendFails
  <2>3. TaskSound(k)'
    <3>1. task'[k].ent = t.ent /\ task'[k].pc = "undo"
      BY <2>1, GotoTypes DEF Phases
    <3>2. CopySound(task[k].ent)'
      BY <1>1, <2>1, <2>2, <3>1 DEF TaskSound, CopySound
    <3> QED BY <2>1, <3>1, <3>2 DEF TaskSound
  <2>4. links' \in SUBSET {i \in Ids : i \in links \/ invites[i].state # "none"}
    BY <1>1, <2>1, <2>2
  <2>5. users' \in SUBSET Emails /\ faults' \in Nat /\ granted' \in SUBSET (Emails \X Roles)
    BY <2>2 DEF TypeOK
  <2>6. /\ task' = [task EXCEPT ![k] = [t EXCEPT !.pc = "undo"]]
        /\ [t EXCEPT !.pc = "undo"] \in Task
    BY <2>1, GotoTypes DEF Phases
  <2> HIDE DEF IInv
  <2> QED BY <2>2, <2>3, <2>4, <2>5, <2>6, TaskStepInv
<1>8. CASE Undo(k)
  <2> DEFINE i == t.ent.id
             row == [invites[i] EXCEPT !.state = "gone"]
  <2>1. i \in Ids /\ i # NoId /\ invites[i] \in Invite /\ invites[i].state # "none"
    BY <1>1, <1>8 DEF Undo, TaskSound, CopySound, TypeOK
  <2>2. /\ row \in Invite /\ row.state = "gone"
        /\ row.email = invites[i].email /\ row.role = invites[i].role
    BY <2>1 DEF Invite
  <2>3. invites' = [invites EXCEPT ![i] = row] /\ task' = [task EXCEPT ![k] = Idle]
    BY <1>8 DEF Undo, Finish, TypeOK
  <2>4. TaskSound(k)'
    BY <2>3, IdleSound DEF TypeOK
  <2> QED BY <1>8, <2>1, <2>2, <2>3, <2>4, Constants, RowStepInv DEF Undo, IndexAdmits, Live
<1>9. CASE Revoke(k)
  <2> DEFINE row == [t.ent.row EXCEPT !.revoked = TRUE]
  <2>1. CopySound(t.ent) /\ t.ent.id # NoId /\ t.ent \in Entity
    BY <1>1, <1>9 DEF Revoke, TaskSound, Task
  <2>2. /\ row \in Invite /\ row.state = "stored" /\ row.revoked /\ ~row.accepted
        /\ row.email = t.ent.row.email /\ row.role = t.ent.row.role
    BY <2>1 DEF CopySound, Live, Entity, Invite
  <2>3. invites' = [invites EXCEPT ![t.ent.id] = row] /\ task' = [task EXCEPT ![k] = Idle]
    BY <1>9, <2>1 DEF Revoke, Save, Entity, Finish
  <2>4. TaskSound(k)'
    BY <2>3, IdleSound DEF TypeOK
  <2> QED BY <1>9, <2>1, <2>2, <2>3, <2>4, Constants, MarkInv DEF Revoke, Live
<1> QED BY <1>2, <1>3, <1>4, <1>5, <1>6, <1>7, <1>8, <1>9 DEF Inviting

-----------------------------------------------------------------------------
LEMMA JoiningInv == ASSUME IInv, NEW k \in Handlers, Joining(k) PROVE IInv'
<1> USE DEF IInv
<1> DEFINE t == task[k]
<1>1. t \in Task /\ TaskSound(k) /\ links \subseteq Ids /\ faults \in Nat
  BY DEF TypeOK
\* Moving between the phases that look things up.
<1>2. ASSUME NEW pc \in {"member", "adduser", "join", "rerole", "consume"}, Goto(k, pc),
             t.pc \in {"user", "adduser", "member"},
             pc = "rerole" => t.ent.id = NoId,
             pc = "consume" => t.ent.id # NoId /\ members[t.email] # "none",
             UNCHANGED <<members, invites, expired, links, faults, granted>>,
             users' \in SUBSET Emails
      PROVE  IInv'
  <2>1. TaskSound(k)'
    BY <1>1, <1>2, GotoTypes DEF TaskSound, CopySound, Phases
  <2> QED BY <1>1, <1>2, <2>1, GotoTypes, TaskStepInv DEF TypeOK, Phases
<1>3. CASE FindUser(k)
  BY <1>2, <1>3 DEF FindUser, TypeOK
<1>4. CASE AddUser(k)
  <2>1. users' \in SUBSET Emails
    BY <1>1, <1>4 DEF AddUser, TypeOK, Task
  <2>2. CASE t.email \in users
    BY <1>1, <1>4, <2>2, FinishInv DEF AddUser, TypeOK
  <2>3. CASE t.email \notin users
    BY <1>2, <1>4, <2>1, <2>3 DEF AddUser
  <2> QED BY <2>2, <2>3
<1>5. CASE FindMember(k)
  <2>1. t.pc = "member" /\ UNCHANGED <<users, members, invites, expired, links, faults, granted>>
    BY <1>5 DEF FindMember
  <2>2. CASE Goto(k, "join")
    BY <1>2, <2>1, <2>2 DEF TypeOK
  <2>3. CASE members[t.email] # "none" /\ t.ent.id # NoId /\ Goto(k, "consume")
    BY <1>2, <2>1, <2>3 DEF TypeOK
  <2>4. CASE t.ent.id = NoId /\ Goto(k, "rerole")
    BY <1>2, <2>1, <2>4 DEF TypeOK
  <2>5. CASE Finish(k)
    BY <1>1, <2>1, <2>5, FinishInv DEF TypeOK
  <2> QED BY <1>5, <2>2, <2>3, <2>4, <2>5 DEF FindMember
\* The role a request hands out.
<1>6. ASSUME t.pc \in {"join", "rerole"}
      PROVE  /\ t.email \in Emails /\ t.role \in Roles
             /\ \/ <<t.email, t.role>> \in granted
                \/ \E i \in links : invites[i].email = t.email /\ invites[i].role = t.role
  <2>1. t.email \in Emails /\ t.role \in Roles
    BY <1>1 DEF Task
  <2>2. CASE t.ent.id = NoId
    BY <1>1, <1>6, <2>1, <2>2 DEF TaskSound
  <2>3. CASE t.ent.id # NoId
    BY <1>1, <1>6, <2>1, <2>3 DEF TaskSound, CopySound
  <2> QED BY <2>1, <2>2, <2>3
<1>7. CASE Join(k)
  <2>1. t.pc = "join" /\ UNCHANGED <<users, invites, expired, links, faults, granted>>
    BY <1>7 DEF Join
  <2>2. CASE members[t.email] # "none"
    BY <1>1, <1>7, <2>1, <2>2, FinishInv DEF Join, TypeOK
  <2>3. CASE members[t.email] = "none"
    <3>1. members' = [members EXCEPT ![t.email] = t.role] /\ members'[t.email] = t.role
      BY <1>6, <1>7, <2>1, <2>3 DEF Join, TypeOK
    <3>2. CASE t.ent.id # NoId
      <4>1. Goto(k, "consume")
        BY <1>7, <2>3, <3>2 DEF Join
      <4>2. TaskSound(k)'
        BY <1>1, <1>6, <2>1, <3>1, <3>2, <4>1, GotoTypes DEF TaskSound, CopySound, Phases, Roles
      <4> QED BY <1>6, <2>1, <3>1, <4>1, <4>2, GotoTypes, MemberStepInv DEF Phases
    <3>3. CASE t.ent.id = NoId
      <4>1. task' = [task EXCEPT ![k] = Idle] /\ task'[k] = Idle
        BY <1>7, <2>3, <3>3 DEF Join, Finish, TypeOK
      <4> QED BY <1>6, <2>1, <3>1, <4>1, Constants, IdleSound, MemberStepInv
    <3> QED BY <3>2, <3>3
  <2> QED BY <2>2, <2>3
<1>8. CASE ChangeRole(k)
  <2>1. /\ t.pc = "rerole" /\ members' = [members EXCEPT ![t.email] = t.role]
        /\ task' = [task EXCEPT ![k] = Idle] /\ task'[k] = Idle
        /\ UNCHANGED <<users, invites, expired, links, faults, granted>>
    BY <1>8 DEF ChangeRole, Finish, TypeOK
  <2> QED BY <1>6, <2>1, Constants, IdleSound, MemberStepInv
<1>9. CASE Consume(k)
  <2> DEFINE row == [t.ent.row EXCEPT !.accepted = TRUE]
  <2>1. /\ CopySound(t.ent) /\ t.ent.id # NoId /\ t.ent \in Entity
        /\ t.email = t.ent.row.email /\ members[t.email] # "none"
    BY <1>1, <1>9 DEF Consume, TaskSound, Task
  <2>2. /\ row \in Invite /\ row.state = "stored" /\ row.accepted /\ ~row.revoked
        /\ row.email = t.ent.row.email /\ row.role = t.ent.row.role
    BY <2>1 DEF CopySound, Live, Entity, Invite
  <2>3. invites' = [invites EXCEPT ![t.ent.id] = row] /\ task' = [task EXCEPT ![k] = Idle]
    BY <1>9, <2>1 DEF Consume, Save, Entity, Finish
  <2>4. TaskSound(k)'
    BY <2>3, IdleSound DEF TypeOK
  <2> QED BY <1>9, <2>1, <2>2, <2>3, <2>4, Constants, MarkInv DEF Consume, Live
<1> QED BY <1>3, <1>4, <1>5, <1>7, <1>8, <1>9 DEF Joining

\* A request dies.
LEMMA AbortInv == ASSUME IInv, NEW k \in Handlers, Abort(k) PROVE IInv'
<1>1. links \subseteq Ids /\ faults' \in Nat
  BY DEF IInv, TypeOK, Abort
<1> QED BY <1>1, FinishInv DEF Abort

\* The environment: no request moves.
LEMMA WorldInv ==
    ASSUME IInv, UNCHANGED <<members, invites, links, task, faults, granted>>,
           users' \in SUBSET Emails, expired' \in SUBSET Ids
    PROVE  IInv'
<1> USE DEF IInv
<1>1. TypeOK'
  BY DEF TypeOK
<1>2. OneLiveInvitation' /\ NeverBoth' /\ AcceptedMeansJoined' /\ RowsSound' /\ MembersWereInvited'
  BY DEF OneLiveInvitation, NeverBoth, AcceptedMeansJoined, RowsSound, MembersWereInvited
<1>3. \A k \in Handlers : TaskSound(k)'
  BY DEF TaskSound, CopySound
<1> QED BY <1>1, <1>2, <1>3

LEMMA NextInv == IInv /\ [Next]_vars => IInv'
<1> SUFFICES ASSUME IInv, [Next]_vars PROVE IInv'
  OBVIOUS
<1>1. CASE UNCHANGED vars
  BY <1>1, WorldInv DEF vars, IInv, TypeOK
<1>2. ASSUME NEW k \in Handlers,
             Request(k) \/ Inviting(k) \/ Revoke(k) \/ Joining(k) \/ Abort(k)
      PROVE  IInv'
  BY <1>2, RequestInv, InvitingInv, JoiningInv, AbortInv
<1>3. ASSUME NEW e \in Emails, SignUp(e) PROVE IInv'
  BY <1>3, WorldInv DEF SignUp, IInv, TypeOK
<1>4. ASSUME NEW i \in Ids, Expire(i) PROVE IInv'
  BY <1>4, WorldInv DEF Expire, IInv, TypeOK
<1> QED BY <1>1, <1>2, <1>3, <1>4 DEF Next

\* The inductive invariant holds in every reachable state.
THEOREM Invariance == Spec => []IInv
BY InitInv, NextInv, PTL DEF Spec

\* Every variable keeps its type.
THEOREM TypeCorrect == Spec => []TypeOK
<1>1. IInv => TypeOK
  BY DEF IInv
<1> QED BY <1>1, Invariance, PTL

\* However many invite() calls overlap, and whatever they delete or save back, an
\* address has one live invitation at most.
THEOREM OneLink == Spec => []OneLiveInvitation
<1>1. IInv => OneLiveInvitation
  BY DEF IInv
<1> QED BY <1>1, Invariance, PTL

\* No invitation is both accepted and revoked, even when revoke() races accept().
THEOREM OneEnd == Spec => []NeverBoth
<1>1. IInv => NeverBoth
  BY DEF IInv
<1> QED BY <1>1, Invariance, PTL

\* Every role in the project was granted by the operator or offered in a link.
THEOREM RolesWereGiven == Spec => []MembersWereInvited
<1>1. IInv => MembersWereInvited
  BY DEF IInv
<1> QED BY <1>1, Invariance, PTL

\* accept() marks an invitation only once its addressee is a member, wherever it
\* may fail.
THEOREM UsedUpByMembers == Spec => []AcceptedMeansJoined
<1>1. IInv => AcceptedMeansJoined
  BY DEF IInv
<1> QED BY <1>1, Invariance, PTL

\* A dead invitation stays dead: every copy that is saved bears a new mark.
THEOREM NoResurrection == Spec => LinksDieForGood
<1>1. ASSUME IInv, [Next]_vars, NEW i \in Ids, Dead(invites[i]) PROVE Dead(invites'[i])
  <2>1. CASE UNCHANGED invites
    BY <1>1, <2>1
  <2>2. ASSUME NEW e \in Entity, NEW row \in Invite, Dead(row), e.id \in Ids,
               invites' = [invites EXCEPT ![e.id] = row]
        PROVE  Dead(invites'[i])
    BY <1>1, <2>2 DEF IInv, TypeOK
  <2>3. ASSUME NEW k \in Handlers, Supersede(k) \/ Revoke(k) \/ Consume(k)
        PROVE  Dead(invites'[i])
    <3> DEFINE e == task[k].ent
    <3>1. e \in Entity /\ e.id \in Ids /\ e.row \in Invite
      BY <1>1, <2>3 DEF Supersede, Revoke, Consume, IInv, TypeOK, Task, Entity, TaskSound, CopySound
    <3>2. CASE Save([e EXCEPT !.row.revoked = TRUE])
      <4>1. invites' = [invites EXCEPT ![e.id] = [e.row EXCEPT !.revoked = TRUE]]
        BY <3>1, <3>2 DEF Save, Entity
      <4>2. [e.row EXCEPT !.revoked = TRUE] \in Invite /\ Dead([e.row EXCEPT !.revoked = TRUE])
        BY <3>1 DEF Invite, Dead
      <4> QED BY <2>2, <3>1, <4>1, <4>2
    <3>3. CASE Save([e EXCEPT !.row.accepted = TRUE])
      <4>1. invites' = [invites EXCEPT ![e.id] = [e.row EXCEPT !.accepted = TRUE]]
        BY <3>1, <3>3 DEF Save, Entity
      <4>2. [e.row EXCEPT !.accepted = TRUE] \in Invite /\ Dead([e.row EXCEPT !.accepted = TRUE])
        BY <3>1 DEF Invite, Dead
      <4> QED BY <2>2, <3>1, <4>1, <4>2
    <3> QED BY <2>3, <3>2, <3>3 DEF Supersede, Revoke, Consume
  <2>4. ASSUME NEW k \in Handlers, InsertInvite(k) PROVE Dead(invites'[i])
    <3>1. PICK j \in Ids : /\ invites[j].state = "none"
                           /\ Save([id |-> j, row |-> NewInvite(task[k].email, task[k].role)])
      BY <2>4 DEF InsertInvite
    <3>2. j # i
      BY <1>1, <3>1 DEF Dead, IInv, RowsSound
    <3>3. invites'[i] = invites[i]
      BY <1>1, <3>1, <3>2 DEF Save, IInv, TypeOK
    <3> QED BY <1>1, <3>3
  <2>5. ASSUME NEW k \in Handlers, Undo(k) PROVE Dead(invites'[i])
    BY <1>1, <2>5 DEF Undo, Dead, IInv, TypeOK, Invite
  <2> QED BY <1>1, <2>1, <2>3, <2>4, <2>5
          DEF Next, vars, Request, StartInvite, AddMember, StartRevoke, AcceptByLink, Accept,
              Inviting, LookUpLive, InsertRefused, SendMail, SendFails,
              Joining, FindUser, AddUser, FindMember, Join, ChangeRole, Abort, SignUp, Expire
<1>2. IInv /\ [Next]_vars => [\A i \in Ids : Dead(invites[i]) => Dead(invites'[i])]_vars
  BY <1>1
<1> QED BY <1>2, Invariance, PTL DEF Spec, LinksDieForGood
-----------------------------------------------------------------------------
(***************************************************************************)
(* The requests implement Seats: every step is a step of the promise, or   *)
(* changes nothing in it.                                                  *)
(***************************************************************************)
Step == [Promise!SeatsNext]_(Promise!seatVars)

\* An offer that a request has followed, a grant that a request carries out.
LEMMA JoinersOf ==
    /\ \A i : i \in Followed <=>
         i # NoId /\ \E j \in Handlers : task[j].pc \in JoinPhases /\ task[j].ent.id = i
    /\ \A g : g \in Granted <=>
         \E j \in Handlers : /\ task[j].pc \in JoinPhases /\ task[j].ent.id = NoId
                             /\ g = <<task[j].email, task[j].role>>
BY DEF Followed, Granted, Joiners

\* A request that leaves or goes on takes nobody else along.
Leaves(k, t) ==
    \/ t.pc \notin JoinPhases
    \/ /\ task[k].pc \in JoinPhases
       /\ t.ent.id = task[k].ent.id /\ t.email = task[k].email /\ t.role = task[k].role

LEMMA FewerFollow ==
    ASSUME IInv, NEW k \in Handlers, NEW t \in Task, task' = [task EXCEPT ![k] = t], Leaves(k, t)
    PROVE  Promise!SomeGone
<1>1. \A j \in Handlers : task'[j] = IF j = k THEN t ELSE task[j]
  BY DEF IInv, TypeOK
<1>2. ASSUME NEW j \in Handlers, task'[j].pc \in JoinPhases
      PROVE  /\ task[j].pc \in JoinPhases /\ task[j].ent.id = task'[j].ent.id
             /\ task[j].email = task'[j].email /\ task[j].role = task'[j].role
  BY <1>1, <1>2 DEF Leaves
<1>3. \A i \in Followed' : i # NoId /\ \E j \in Handlers : task'[j].pc \in JoinPhases /\ task'[j].ent.id = i
  BY DEF Followed, Joiners
<1>4. \A g \in Granted' : \E j \in Handlers :
         /\ task'[j].pc \in JoinPhases /\ task'[j].ent.id = NoId
         /\ g = <<task'[j].email, task'[j].role>>
  BY DEF Granted, Joiners
<1>5. Followed' \subseteq Followed
  BY <1>2, <1>3, JoinersOf
<1>6. Granted' \subseteq Granted
  BY <1>2, <1>4, JoinersOf
<1> QED BY <1>5, <1>6 DEF Promise!SomeGone

\* Requests that do not join leave both sets as they are.
LEMMA NobodyFollows ==
    ASSUME IInv, NEW k \in Handlers, NEW t \in Task, task' = [task EXCEPT ![k] = t],
           task[k].pc \notin JoinPhases, t.pc \notin JoinPhases
    PROVE  Followed' = Followed /\ Granted' = Granted
<1>1. \A j \in Handlers : task'[j] = IF j = k THEN t ELSE task[j]
  BY DEF IInv, TypeOK
<1>2. /\ Joiners' = Joiners
      /\ \A j \in Joiners : task'[j] = task[j]
  BY <1>1 DEF Joiners
<1> QED BY <1>2 DEF Followed, Granted, Joiners

\* A request that begins to join adds what it follows, or what it was asked for.
LEMMA OneFollows ==
    ASSUME IInv, NEW k \in Handlers, NEW t \in Task, task' = [task EXCEPT ![k] = t],
           task[k].pc \notin JoinPhases, t.pc \in JoinPhases
    PROVE  IF t.ent.id = NoId
             THEN Followed' = Followed /\ Granted' = Granted \cup {<<t.email, t.role>>}
             ELSE Followed' = Followed \cup {t.ent.id} /\ Granted' = Granted
<1>1. \A j \in Handlers : task'[j] = IF j = k THEN t ELSE task[j]
  BY DEF IInv, TypeOK
<1>2. \A i : i \in Followed' <=>
         i # NoId /\ \E j \in Handlers : task'[j].pc \in JoinPhases /\ task'[j].ent.id = i
  BY DEF Followed, Joiners
<1>3. \A g : g \in Granted' <=>
         \E j \in Handlers : /\ task'[j].pc \in JoinPhases /\ task'[j].ent.id = NoId
                             /\ g = <<task'[j].email, task'[j].role>>
  BY DEF Granted, Joiners
<1>4. \A i : i \in Followed' <=> i \in Followed \/ (i # NoId /\ i = t.ent.id)
  BY <1>1, <1>2, JoinersOf
<1>5. \A g : g \in Granted' <=> g \in Granted \/ (t.ent.id = NoId /\ g = <<t.email, t.role>>)
  BY <1>1, <1>3, JoinersOf
<1> QED BY <1>4, <1>5

\* How a write of one row looks to the promise.
Made(row) == [state |-> OfferState(row), email |-> row.email, role |-> row.role]

LEMMA OfferedOf ==
    ASSUME IInv, NEW i \in Ids
    PROVE  /\ Offered[i] = Made(invites[i])
           /\ Offered[i].state = OfferState(invites[i])
           /\ Offered[i].email = invites[i].email /\ Offered[i].role = invites[i].role
BY DEF Offered, Made

LEMMA RowMade ==
    ASSUME IInv, NEW i \in Ids, NEW row \in Invite, invites' = [invites EXCEPT ![i] = row]
    PROVE  Offered' = [Offered EXCEPT ![i] = Made(row)]
<1>1. \A j \in Ids : invites'[j] = IF j = i THEN row ELSE invites[j]
  BY DEF IInv, TypeOK
<1>2. Offered' = [j \in Ids |-> Made(invites'[j])]
  BY DEF Offered, Made
<1>3. Offered = [j \in Ids |-> Made(invites[j])]
  BY DEF Offered, Made
<1> QED BY <1>1, <1>2, <1>3

\* A request that only moves on, or ends.
LEMMA MoveRefines ==
    ASSUME IInv, NEW k \in Handlers, NEW t \in Task, task' = [task EXCEPT ![k] = t], Leaves(k, t),
           UNCHANGED <<members, invites, links, expired>>
    PROVE  Step
<1>1. Promise!SomeGone
  BY FewerFollow
<1>2. UNCHANGED Offered
  BY DEF Offered
<1>3. Promise!GiveUp
  BY <1>1, <1>2 DEF Promise!GiveUp
<1> QED BY <1>3 DEF Step, Promise!SeatsNext

\* A request that ends.
LEMMA EndRefines ==
    ASSUME IInv, NEW k \in Handlers, Finish(k), UNCHANGED <<members, invites, links, expired>>
    PROVE  Step
<1>1. task' = [task EXCEPT ![k] = Idle] /\ Leaves(k, Idle)
  BY Constants DEF Finish, Leaves, JoinPhases
<1> QED BY <1>1, Constants, MoveRefines

\* A request that goes on, with what it has followed.
LEMMA GotoRefines ==
    ASSUME IInv, NEW k \in Handlers, NEW pc \in Phases, Goto(k, pc),
           pc \in JoinPhases => task[k].pc \in JoinPhases,
           UNCHANGED <<members, invites, links, expired>>
    PROVE  Step
<1> DEFINE t == [task[k] EXCEPT !.pc = pc]
<1>1. t \in Task /\ task' = [task EXCEPT ![k] = t]
  BY GotoTypes
<1>2. t.pc = pc /\ t.ent = task[k].ent /\ t.email = task[k].email /\ t.role = task[k].role
  BY DEF IInv, TypeOK, Task
<1>3. Leaves(k, t)
  BY <1>2 DEF Leaves
<1> HIDE DEF t
<1> QED BY <1>1, <1>3, MoveRefines

\* A write that leaves the row of an invitation with a mark, or gone: the offer ends.
LEMMA MarkRefines ==
    ASSUME IInv, NEW k \in Handlers, NEW t \in Task, task' = [task EXCEPT ![k] = t], Leaves(k, t),
           NEW i \in Ids, NEW row \in Invite, invites' = [invites EXCEPT ![i] = row],
           invites[i].state # "none", row.state # "none", ~Live(row),
           row.email = invites[i].email, row.role = invites[i].role,
           row.state = "stored" /\ row.accepted => members[row.email] # "none",
           UNCHANGED <<members, links, expired>>
    PROVE  Step
<1>1. Promise!SomeGone
  BY FewerFollow
<1>2. Offered[i].state # "none"
  BY OfferedOf DEF OfferState, Live
<1>3. Offered' = [Offered EXCEPT ![i] = Made(row)]
  BY RowMade
<1>4. \A s : [Offered[i] EXCEPT !.state = s] = [state |-> s, email |-> row.email, role |-> row.role]
  BY DEF Offered
<1>5. Offered \in [Ids -> {Offered[j] : j \in Ids}]
  BY DEF Offered
<1>6. \A s : [Offered EXCEPT ![i].state = s]
              = [Offered EXCEPT ![i] = [state |-> s, email |-> row.email, role |-> row.role]]
  BY <1>4, <1>5
<1>7. OfferState(row) = IF row.state = "stored" /\ row.accepted THEN "used" ELSE "void"
  BY DEF OfferState, Live
<1>8. Promise!End(i)
  BY <1>1, <1>2, <1>3, <1>6, <1>7, OfferedOf DEF Promise!End, Made
<1> QED BY <1>8 DEF Step, Promise!SeatsNext

\* The copy a request holds, with one more mark.
LEMMA CopyMarkRefines ==
    ASSUME IInv, NEW k \in Handlers, NEW t \in Task, task' = [task EXCEPT ![k] = t], Leaves(k, t),
           task[k].ent.id # NoId, NEW row \in Invite,
           invites' = [invites EXCEPT ![task[k].ent.id] = row],
           row.state # "none", ~Live(row), row.accepted => members[row.email] # "none",
           row.email = task[k].ent.row.email, row.role = task[k].ent.row.role,
           UNCHANGED <<members, links, expired>>
    PROVE  Step
<1>1. CopySound(task[k].ent)
  BY DEF IInv, TaskSound
<1> QED BY <1>1, MarkRefines DEF CopySound

LEMMA InvitingRefines == ASSUME IInv, NEW k \in Handlers, Inviting(k) \/ Revoke(k) PROVE Step
<1> DEFINE t == task[k]
<1>1. t \in Task /\ TaskSound(k)
  BY DEF IInv, TypeOK
<1>2. Leaves(k, Idle) /\ Idle \in Task
  BY Constants DEF Leaves, JoinPhases
<1>3. CASE LookUpLive(k)
  <2>1. t.pc = "lookup" /\ UNCHANGED <<members, invites, links, expired>>
    BY <1>3 DEF LookUpLive
  <2>2. CASE Goto(k, "insert")
    BY <2>1, <2>2, GotoRefines DEF Phases, JoinPhases
  <2>3. ASSUME NEW i \in Ids, Live(invites[i]),
               task' = [task EXCEPT ![k].pc = "supersede", ![k].ent = Copy(i)]
        PROVE  Step
    <3> DEFINE n == [t EXCEPT !.pc = "supersede", !.ent = Copy(i)]
    <3>1. task' = [task EXCEPT ![k] = n]
      BY <2>3 DEF IInv, TypeOK
    <3>2. n \in Task /\ n.pc = "supersede"
      BY <1>1, <2>3, CopyTypes DEF Task
    <3>3. Leaves(k, n)
      BY <3>2 DEF Leaves, JoinPhases
    <3> HIDE DEF n
    <3> QED BY <2>1, <3>1, <3>2, <3>3, MoveRefines
  <2> QED BY <1>3, <2>2, <2>3 DEF LookUpLive
<1>4. ASSUME Save([t.ent EXCEPT !.row.revoked = TRUE]), t.ent.id # NoId,
             NEW n \in Task, task' = [task EXCEPT ![k] = n], Leaves(k, n),
             UNCHANGED <<members, links, expired>>
      PROVE  Step
  <2> DEFINE row == [t.ent.row EXCEPT !.revoked = TRUE]
  <2>1. CopySound(t.ent) /\ t.ent \in Entity
    BY <1>1, <1>4 DEF TaskSound, Task
  <2>2. /\ row \in Invite /\ row.state = "stored" /\ ~Live(row) /\ ~row.accepted
        /\ row.email = t.ent.row.email /\ row.role = t.ent.row.role
    BY <2>1 DEF CopySound, Live, Entity, Invite
  <2>3. invites' = [invites EXCEPT ![t.ent.id] = row]
    BY <1>4, <2>1 DEF Save, Entity
  <2> HIDE DEF row
  <2> QED BY <1>4, <2>2, <2>3, CopyMarkRefines
<1>5. CASE Supersede(k)
  <2> DEFINE n == [t EXCEPT !.pc = "insert"]
  <2>1. t.ent.id # NoId /\ Goto(k, "insert")
    BY <1>1, <1>5 DEF Supersede, TaskSound
  <2>2. n \in Task /\ n.pc = "insert" /\ task' = [task EXCEPT ![k] = n]
    BY <1>1, <2>1, GotoTypes DEF Phases, Task
  <2>3. Leaves(k, n)
    BY <2>2 DEF Leaves, JoinPhases
  <2> HIDE DEF n
  <2> QED BY <1>4, <1>5, <2>1, <2>2, <2>3 DEF Supersede
<1>6. CASE Revoke(k)
  BY <1>1, <1>2, <1>4, <1>6 DEF Revoke, TaskSound, Finish
<1>7. CASE InsertInvite(k)
  <2> DEFINE row == NewInvite(t.email, t.role)
  <2>1. PICK i \in Ids : /\ invites[i].state = "none" /\ IndexAdmits(i, row)
                         /\ Save([id |-> i, row |-> row])
                         /\ task' = [task EXCEPT ![k].pc = "send", ![k].ent = [id |-> i, row |-> row]]
    BY <1>7 DEF InsertInvite
  <2>2. /\ row \in Invite /\ Live(row) /\ row.email = t.email /\ row.role = t.role
        /\ t.email \in Emails /\ t.role \in Roles
    BY <1>1 DEF NewInvite, Invite, Task, Live
  <2> DEFINE n == [t EXCEPT !.pc = "send", !.ent = [id |-> i, row |-> row]]
  <2>3. task' = [task EXCEPT ![k] = n] /\ n \in Task /\ n.pc = "send"
    BY <1>1, <2>1, <2>2 DEF Task, Entity, IInv, TypeOK
  <2>4. t.pc = "insert" /\ UNCHANGED <<members, links, expired>>
    BY <1>7 DEF InsertInvite
  <2>5. Followed' = Followed /\ Granted' = Granted
    <3> HIDE DEF n
    <3> QED BY <2>3, <2>4, NobodyFollows DEF JoinPhases
  <2>6. Offered' = [Offered EXCEPT ![i] = Made(row)]
    BY <2>1, <2>2, RowMade DEF Save
  <2>7. OfferState(row) = "open" /\ OfferState(invites[i]) = "none"
    BY <2>1, <2>2 DEF OfferState, Live
  <2>8. \A j \in Ids : Offered[j].email = t.email => Offered[j].state # "open"
    <3> SUFFICES ASSUME NEW j \in Ids, invites[j].email = t.email
                 PROVE  OfferState(invites[j]) # "open"
      BY OfferedOf
    <3>1. CASE j = i
      BY <2>7, <3>1
    <3>2. CASE j # i
      BY <2>1, <2>2, <3>2 DEF IndexAdmits, OfferState
    <3> QED BY <3>1, <3>2
  <2>9. Made(row) = [state |-> "open", email |-> t.email, role |-> t.role]
    BY <2>2, <2>7 DEF Made
  <2> HIDE DEF row, n
  <2>10. Promise!Offer(i, t.email, t.role)
    BY <2>4, <2>5, <2>6, <2>7, <2>8, <2>9, OfferedOf DEF Promise!Offer
  <2> QED BY <2>2, <2>10 DEF Step, Promise!SeatsNext, Roles, Promise!Roles
<1>8. CASE InsertRefused(k)
  BY <1>8, EndRefines DEF InsertRefused
\* The link gets out, in a request that does not join.
<1>9. ASSUME t.pc = "send", links' = links \cup {t.ent.id}, UNCHANGED <<members, invites, expired>>,
             NEW n \in Task, task' = [task EXCEPT ![k] = n], n.pc \notin JoinPhases
      PROVE  Step
  <2>1. t.ent.id \in Ids /\ invites[t.ent.id].state # "none"
    BY <1>1, <1>9 DEF TaskSound, CopySound
  <2>2. Offered[t.ent.id].state # "none"
    BY <2>1, OfferedOf DEF OfferState, Live
  <2>3. Followed' = Followed /\ Granted' = Granted /\ Offered' = Offered
    BY <1>9, NobodyFollows DEF JoinPhases, Offered
  <2>4. Promise!Send(t.ent.id)
    BY <1>9, <2>2, <2>3 DEF Promise!Send
  <2> QED BY <2>1, <2>4 DEF Step, Promise!SeatsNext
<1>10. CASE SendMail(k)
  BY <1>2, <1>9, <1>10, Constants DEF SendMail, Finish, JoinPhases
<1>11. CASE SendFails(k)
  <2> DEFINE n == [t EXCEPT !.pc = "undo"]
  <2>1. /\ t.pc = "send" /\ Goto(k, "undo") /\ UNCHANGED <<members, invites, expired>>
        /\ links' \in {links, links \cup {t.ent.id}}
    BY <1>11 DEF SendFails
  <2>2. n \in Task /\ n.pc = "undo" /\ task' = [task EXCEPT ![k] = n]
    BY <1>1, <2>1, GotoTypes DEF Phases, Task
  <2>3. CASE links' = links
    BY <2>1, <2>3, GotoRefines DEF Phases, JoinPhases
  <2>4. CASE links' = links \cup {t.ent.id}
    <3> HIDE DEF n
    <3> QED BY <1>9, <2>1, <2>2, <2>4 DEF JoinPhases
  <2> QED BY <2>1, <2>3, <2>4
<1>12. CASE Undo(k)
  <2> DEFINE i == t.ent.id
             row == [invites[i] EXCEPT !.state = "gone"]
  <2>1. i \in Ids /\ invites[i] \in Invite /\ invites[i].state # "none"
    BY <1>1, <1>12 DEF Undo, TaskSound, CopySound, IInv, TypeOK
  <2>2. /\ row \in Invite /\ row.state = "gone" /\ ~Live(row)
        /\ row.email = invites[i].email /\ row.role = invites[i].role
    BY <2>1 DEF Invite, Live
  <2>3. /\ invites' = [invites EXCEPT ![i] = row] /\ task' = [task EXCEPT ![k] = Idle]
        /\ UNCHANGED <<members, links, expired>>
    BY <1>12 DEF Undo, Finish, IInv, TypeOK
  <2> HIDE DEF i, row
  <2> QED BY <1>2, <2>1, <2>2, <2>3, MarkRefines
<1> QED BY <1>3, <1>5, <1>6, <1>7, <1>8, <1>10, <1>11, <1>12 DEF Inviting

\* A link is followed: it is open, sent and in time.
LEMMA FollowRefines ==
    ASSUME IInv, NEW k \in Handlers, NEW i \in Ids, Usable(i), NEW pc \in {"user", "member"},
           Begin(k, pc, Copy(i), invites[i].email, invites[i].role),
           UNCHANGED <<members, invites, links, expired>>
    PROVE  Step
<1> DEFINE t == Started(pc, Copy(i), invites[i].email, invites[i].role)
<1>1. Live(invites[i]) /\ i \in links \ expired
  BY DEF Usable
<1>2. /\ t \in Task /\ t.pc = pc /\ t.ent = Copy(i) /\ t.ent.id = i
      /\ task[k].pc = "idle" /\ task' = [task EXCEPT ![k] = t]
  BY <1>1, CopyTypes, BeginTypes DEF Begin, Phases
<1> HIDE DEF t
<1>3. Followed' = Followed \cup {i} /\ Granted' = Granted
  BY <1>2, OneFollows DEF JoinPhases
<1>4. Offered[i].state = "open" /\ Offered' = Offered
  BY <1>1, OfferedOf DEF OfferState, Offered, Live
<1>5. Promise!TakeUp(i)
  BY <1>1, <1>3, <1>4 DEF Promise!TakeUp
<1> QED BY <1>5 DEF Step, Promise!SeatsNext

LEMMA RequestRefines == ASSUME IInv, NEW k \in Handlers, Request(k) PROVE Step
<1>1. ASSUME NEW e \in Emails, NEW r \in Roles, StartInvite(k, e, r) PROVE Step
  <2> DEFINE t == Started("lookup", NoEntity, e, r)
  <2>1. t \in Task /\ t.pc = "lookup" /\ task' = [task EXCEPT ![k] = t]
    BY <1>1, Constants, BeginTypes DEF StartInvite, Begin, Phases
  <2> HIDE DEF t
  <2>2. Leaves(k, t)
    BY <2>1 DEF Leaves, JoinPhases
  <2> QED BY <1>1, <2>1, <2>2, MoveRefines DEF StartInvite
<1>2. ASSUME NEW e \in Emails, NEW r \in Roles, AddMember(k, e, r) PROVE Step
  <2> DEFINE t == Started("user", NoEntity, e, r)
  <2>1. /\ t \in Task /\ t.pc = "user" /\ t.ent.id = NoId /\ t.email = e /\ t.role = r
        /\ task[k].pc = "idle" /\ task' = [task EXCEPT ![k] = t]
    BY <1>2, Constants, BeginTypes DEF AddMember, Begin, Phases
  <2> HIDE DEF t
  <2>2. Granted' = Granted \cup {<<e, r>>} /\ Followed' = Followed
    BY <2>1, OneFollows DEF JoinPhases
  <2>3. Promise!Grant(e, r)
    BY <1>2, <2>2 DEF Promise!Grant, AddMember, Offered
  <2> QED BY <2>3 DEF Step, Promise!SeatsNext, Roles, Promise!Roles
<1>3. ASSUME NEW i \in Ids, StartRevoke(k, i) PROVE Step
  <2> DEFINE t == Started("revoke", Copy(i), invites[i].email, invites[i].role)
  <2>1. t \in Task /\ t.pc = "revoke" /\ task' = [task EXCEPT ![k] = t]
    BY <1>3, CopyTypes, BeginTypes DEF StartRevoke, Begin, Phases
  <2> HIDE DEF t
  <2>2. Leaves(k, t)
    BY <2>1 DEF Leaves, JoinPhases
  <2> QED BY <1>3, <2>1, <2>2, MoveRefines DEF StartRevoke
<1>4. ASSUME NEW i \in Ids, AcceptByLink(k, i) PROVE Step
  BY <1>4, FollowRefines DEF AcceptByLink
<1>5. ASSUME NEW i \in Ids, NEW e \in Emails, Accept(k, i, e) PROVE Step
  BY <1>5, FollowRefines DEF Accept
<1> QED BY <1>1, <1>2, <1>3, <1>4, <1>5 DEF Request

LEMMA JoiningRefines == ASSUME IInv, NEW k \in Handlers, Joining(k) PROVE Step
<1> DEFINE t == task[k]
<1>1. t \in Task /\ TaskSound(k) /\ t.email \in Emails /\ t.role \in Roles
  BY DEF IInv, TypeOK, Task
<1>2. CASE FindUser(k) \/ FindMember(k)
  <2>1. t.pc \in {"user", "member"} /\ UNCHANGED <<members, invites, links, expired>>
    BY <1>2 DEF FindUser, FindMember
  <2>2. ASSUME NEW pc \in {"member", "adduser", "join", "consume", "rerole"}, Goto(k, pc) PROVE Step
    BY <2>1, <2>2, GotoRefines DEF Phases, JoinPhases
  <2> QED BY <1>2, <2>1, <2>2, EndRefines DEF FindUser, FindMember
<1>3. CASE AddUser(k)
  BY <1>3, GotoRefines, EndRefines DEF AddUser, Phases, JoinPhases
\* A seat is given by a step that leaves or goes on.
<1>4. ASSUME NEW n \in Task, task' = [task EXCEPT ![k] = n], Leaves(k, n), t.pc \in {"join", "rerole"},
             t.ent.id = NoId \/ members[t.email] = "none",
             members' = [members EXCEPT ![t.email] = t.role], UNCHANGED <<invites, links, expired>>
      PROVE  Step
  <2>1. Promise!SomeGone /\ Offered' = Offered
    BY <1>4, FewerFollow DEF Offered
  <2>2. CASE t.ent.id = NoId
    <3>1. <<t.email, t.role>> \in Granted
      BY <1>4, <2>2, JoinersOf DEF JoinPhases
    <3>2. Promise!Appoint(t.email, t.role)
      BY <1>4, <2>1, <3>1 DEF Promise!Appoint
    <3> QED BY <1>1, <3>2 DEF Step, Promise!SeatsNext, Roles, Promise!Roles
  <2>3. CASE t.ent.id # NoId
    <3> DEFINE i == t.ent.id
    <3>1. i \in Ids /\ i \in Followed /\ invites[i].email = t.email /\ invites[i].role = t.role
      BY <1>1, <1>4, <2>3, JoinersOf DEF TaskSound, CopySound, JoinPhases
    <3>2. Promise!Admit(i)
      BY <1>4, <2>1, <2>3, <3>1, OfferedOf DEF Promise!Admit
    <3> QED BY <3>1, <3>2 DEF Step, Promise!SeatsNext
  <2> QED BY <2>2, <2>3
<1>5. Leaves(k, Idle) /\ Idle \in Task
  BY Constants DEF Leaves, JoinPhases
<1>6. CASE Join(k)
  <2>1. t.pc = "join" /\ UNCHANGED <<invites, links, expired>>
    BY <1>6 DEF Join
  <2>2. CASE members[t.email] # "none"
    BY <1>6, <2>1, <2>2, EndRefines DEF Join
  <2>3. CASE members[t.email] = "none"
    <3>1. members' = [members EXCEPT ![t.email] = t.role] /\ (Goto(k, "consume") \/ Finish(k))
      BY <1>6, <2>3 DEF Join
    <3>2. CASE Finish(k)
      BY <1>4, <1>5, <2>1, <2>3, <3>1, <3>2 DEF Finish
    <3>3. CASE Goto(k, "consume")
      <4> DEFINE n == [t EXCEPT !.pc = "consume"]
      <4>1. /\ n \in Task /\ task' = [task EXCEPT ![k] = n]
            /\ n.ent = t.ent /\ n.email = t.email /\ n.role = t.role
        BY <1>1, <3>3, GotoTypes DEF Phases, Task
      <4>2. Leaves(k, n)
        BY <2>1, <4>1 DEF Leaves, JoinPhases
      <4> HIDE DEF n
      <4> QED BY <1>4, <2>1, <2>3, <3>1, <4>1, <4>2
    <3> QED BY <3>1, <3>2, <3>3
  <2> QED BY <2>2, <2>3
<1>7. CASE ChangeRole(k)
  <2>1. t.pc = "rerole" /\ t.ent.id = NoId
    BY <1>1, <1>7 DEF ChangeRole, TaskSound
  <2> QED BY <1>4, <1>5, <1>7, <2>1 DEF ChangeRole, Finish
<1>8. CASE Consume(k)
  <2> DEFINE row == [t.ent.row EXCEPT !.accepted = TRUE]
  <2>1. /\ CopySound(t.ent) /\ t.ent.id # NoId /\ t.ent \in Entity
        /\ t.email = t.ent.row.email /\ members[t.email] # "none"
    BY <1>1, <1>8 DEF Consume, TaskSound, Task
  <2>2. /\ row \in Invite /\ row.state = "stored" /\ ~Live(row)
        /\ row.email = t.ent.row.email /\ row.role = t.ent.row.role
    BY <2>1 DEF CopySound, Live, Entity, Invite
  <2>3. /\ invites' = [invites EXCEPT ![t.ent.id] = row] /\ task' = [task EXCEPT ![k] = Idle]
        /\ UNCHANGED <<members, links, expired>>
    BY <1>8, <2>1 DEF Consume, Save, Entity, Finish
  <2> HIDE DEF row
  <2> QED BY <1>5, <2>1, <2>2, <2>3, CopyMarkRefines
<1> QED BY <1>2, <1>3, <1>6, <1>7, <1>8 DEF Joining

LEMMA StepRefines == ASSUME IInv, [Next]_vars PROVE Step
<1>1. ASSUME UNCHANGED <<members, invites, links, task, expired>> PROVE Step
  BY <1>1 DEF Step, Promise!seatVars, Offered, Followed, Granted, Joiners
<1>2. ASSUME NEW k \in Handlers,
             Request(k) \/ Inviting(k) \/ Revoke(k) \/ Joining(k) \/ Abort(k)
      PROVE  Step
  BY <1>2, RequestRefines, InvitingRefines, JoiningRefines, EndRefines DEF Abort
<1>3. ASSUME NEW e \in Emails, SignUp(e) PROVE Step
  BY <1>1, <1>3 DEF SignUp
<1>4. ASSUME NEW i \in Ids, Expire(i) PROVE Step
  <2>1. Promise!Lapse(i)
    BY <1>4 DEF Expire, Promise!Lapse, Offered, Followed, Granted, Joiners
  <2> QED BY <2>1 DEF Step, Promise!SeatsNext
<1>5. CASE UNCHANGED vars
  BY <1>1, <1>5 DEF vars
<1> QED BY <1>2, <1>3, <1>4, <1>5 DEF Next

LEMMA InitRefines == Init => Promise!SeatsInit
<1> SUFFICES ASSUME Init PROVE Promise!SeatsInit
  OBVIOUS
<1>1. NoInvite \in Invite /\ OfferState(NoInvite) = "none"
  BY Constants DEF OfferState, Live
<1>2. Offered = [i \in Ids |-> Made(NoInvite)] /\ Made(NoInvite).state = "none"
  BY <1>1 DEF Init, Offered, Made
<1>3. Made(NoInvite) \in Promise!Offers
  BY <1>1 DEF Made, Promise!Offers, Promise!Roles, Invite, Roles
<1>4. Followed = {} /\ Granted = {}
  BY DEF Init, Idle, Followed, Granted, Joiners, JoinPhases
<1> QED BY <1>2, <1>3, <1>4 DEF Init, Promise!SeatsInit

\* Every seat comes from a grant or from a link that was open, sent and in time
\* when it was followed; a link never changes the role of a member; nobody loses
\* a seat; and offers end for good, one open at a time: the requests implement
\* Seats.
THEOREM Refinement == Spec => ImplementsSeats
<1>1. IInv /\ [Next]_vars => [Promise!SeatsNext]_(Promise!seatVars)
  BY StepRefines DEF Step
<1> QED BY <1>1, InitRefines, Invariance, PTL DEF Spec, ImplementsSeats, Promise!SeatsSpec
=============================================================================
