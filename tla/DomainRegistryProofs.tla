------------------------ MODULE DomainRegistryProofs ------------------------
(***************************************************************************)
(* DomainRegistry's safety invariants hold for any hosts, projects, rows   *)
(* and tasks, with stale saves, overlapping ticks and failing awaits.      *)
(***************************************************************************)
EXTENDS DomainRegistry, TLAPS

USE InhabitedAssumption, IdsAssumption, TxtProjectsAssumption, TasksAssumption,
    MaxFaultsAssumption

LEMMA Constants ==
    /\ NoRow \in Row /\ NoRow.state = "free" /\ ~NoRow.verified /\ ~NoRow.challenge
    /\ NoEntity \in Entity /\ NoEntity.id = NoId
    /\ Idle \in Task /\ Idle.pc = "idle" /\ Idle.ent = NoEntity /\ Idle.queue = {}
BY DEF NoRow, Row, NoEntity, Entity, Idle, Task

\* Records a task takes up: its phase and the copy it will work on.
LEMMA BeginTypes ==
    ASSUME NEW e \in Entity, NEW api \in BOOLEAN,
           NEW pc \in {"idle", "insert", "resave", "remove", "cname", "txt", "update"}
    PROVE  /\ Started(pc, e, api) \in Task
           /\ Started(pc, e, api).pc = pc
           /\ Started(pc, e, api).ent = e
           /\ Started(pc, e, api).queue = {}
BY Constants DEF Started, Idle, Task, Entity

LEMMA InitInv == Init => IInv
<1> SUFFICES ASSUME Init PROVE IInv
  OBVIOUS
<1>1. TypeOK
  BY Constants DEF Init, TypeOK
<1>2. OneActiveOwner
  BY Constants DEF Init, OneActiveOwner, Active
<1>3. RowsSound
  BY Constants DEF Init, RowsSound, Sound
<1>4. \A k \in Tasks : TaskSound(k)
  BY Constants DEF Init, TaskSound, CopySound
<1> QED BY <1>1, <1>2, <1>3, <1>4 DEF IInv

\* What every step does to the state that copies are compared with: rows are never
\* freed nor given to another host or project, evidence is never lost, and only a
\* free row is issued a challenge.
Grows ==
    /\ \A i \in Ids : rows[i].state # "free"
         => /\ rows'[i].state # "free" /\ Claimed(rows'[i]) = Claimed(rows[i])
            /\ i \in issued' <=> i \in issued
    /\ cnameSeen \subseteq cnameSeen'
    /\ txtSeen \subseteq txtSeen'

\* A copy stays sound while the table moves on under it.
LEMMA CopyStays ==
    ASSUME NEW e \in Entity, CopySound(e), Grows
    PROVE  e.id \in Ids => /\ rows'[e.id].state # "free" /\ e.row.state # "free"
                           /\ Claimed(e.row) = Claimed(rows'[e.id])
                           /\ e.row.verified => e.id \in cnameSeen'
                                                /\ (e.id \in issued' => e.id \in txtSeen')
                           /\ e.row.challenge => e.id \in issued'
                           /\ e.id \in issued' => (e.row.challenge <=> ~e.row.verified)
BY DEF CopySound, Sound, Grows

\* So do all the copies of a task that does not move.
LEMMA TaskStays ==
    ASSUME TypeOK, NEW k \in Tasks, TaskSound(k), task'[k] = task[k], Grows
    PROVE  TaskSound(k)'
<1>1. task[k] \in Task
  BY DEF TypeOK
<1>2. task[k].ent \in Entity /\ task[k].queue \subseteq Entity
  BY <1>1 DEF Task
<1>3. \A e \in task[k].queue \cup {task[k].ent} : CopySound(e)
  BY DEF TaskSound
<1> QED BY <1>2, <1>3, CopyStays DEF TaskSound, CopySound, Sound, Grows

\* A task that ends holds no copy.
LEMMA IdleSound == ASSUME NEW k \in Tasks, task'[k] = Idle PROVE TaskSound(k)'
BY Constants DEF TaskSound, CopySound

\* A task that takes up the row it has just read.
LEMMA BeginSound ==
    ASSUME IInv, NEW k \in Tasks, NEW i \in Active, NEW pc \in {"resave", "remove", "cname"},
           task'[k].pc = pc, task'[k].ent = Copy(i), task'[k].queue = {},
           UNCHANGED <<rows, history>>
    PROVE  TaskSound(k)'
BY DEF IInv, RowsSound, TaskSound, CopySound, Sound, Copy, Active, history

\* A step that leaves the table alone and moves one task to a sound state.
LEMMA TaskStepInv ==
    ASSUME IInv, NEW k \in Tasks, NEW t \in Task, task' = [task EXCEPT ![k] = t],
           TaskSound(k)', UNCHANGED <<rows, issued>>,
           cname' \in SUBSET Hosts, txt' \in SUBSET Ids, faults' \in Nat,
           cnameSeen' \in SUBSET Ids, txtSeen' \in SUBSET Ids,
           cnameSeen \subseteq cnameSeen', txtSeen \subseteq txtSeen',
           \A i \in Ids : rows[i].state = "free" => i \notin cnameSeen'
    PROVE  IInv'
<1> USE DEF IInv
<1>1. TypeOK'
  BY DEF TypeOK
<1>2. OneActiveOwner'
  BY DEF OneActiveOwner, Active
<1>3. RowsSound'
  BY DEF RowsSound, Sound
<1>4. ASSUME NEW j \in Tasks PROVE TaskSound(j)'
  <2>1. CASE j = k
    BY <2>1
  <2>2. CASE j # k
    <3>1. task'[j] = task[j]
      BY <2>2 DEF TypeOK
    <3> QED BY <3>1, TaskStays DEF Grows
  <2> QED BY <2>1, <2>2
<1> QED BY <1>1, <1>2, <1>3, <1>4

\* A step of one task that writes row i.
LEMMA RowStepInv ==
    ASSUME IInv, NEW k \in Tasks, NEW t \in Task, task' = [task EXCEPT ![k] = t],
           TaskSound(k)', UNCHANGED <<cname, txt, faults, cnameSeen, txtSeen>>,
           NEW i \in Ids, NEW row \in Row, rows' = [rows EXCEPT ![i] = row],
           row.state # "free",
           rows[i].state # "free" => Claimed(row) = Claimed(rows[i]),
           IndexAdmits(i, row),
           Sound(i, row)',
           issued' \in SUBSET Ids,
           \A j \in Ids : rows[j].state # "free" \/ j # i => (j \in issued' <=> j \in issued)
    PROVE  IInv'
<1> USE DEF IInv
<1>1. \A j \in Ids : rows'[j] = IF j = i THEN row ELSE rows[j]
  BY DEF TypeOK
<1>2. TypeOK'
  BY DEF TypeOK
<1>3. OneActiveOwner'
  <2> SUFFICES ASSUME NEW a \in Active', NEW b \in Active', rows'[a].host = rows'[b].host
               PROVE  a = b
    BY DEF OneActiveOwner
  <2>1. ASSUME NEW j \in Active', j # i PROVE j \in Active /\ rows'[j] = rows[j]
    BY <1>1, <2>1 DEF Active
  <2>2. ASSUME NEW j \in Active', j # i, i \in Active', rows'[j].host = rows'[i].host
        PROVE  FALSE
    BY <1>1, <2>1, <2>2 DEF IndexAdmits, ActiveOn, Active
  <2>3. CASE a # i /\ b # i
    BY <2>1, <2>3 DEF OneActiveOwner
  <2> QED BY <2>2, <2>3
<1>4. RowsSound'
  BY <1>1 DEF RowsSound, Sound
<1>5. ASSUME NEW j \in Tasks PROVE TaskSound(j)'
  <2>1. CASE j = k
    BY <2>1
  <2>2. CASE j # k
    <3>1. task'[j] = task[j]
      BY <2>2 DEF TypeOK
    <3>2. Grows
      BY <1>1 DEF Grows
    <3> QED BY <3>1, <3>2, TaskStays
  <2> QED BY <2>1, <2>2
<1> QED BY <1>2, <1>3, <1>4, <1>5

\* A task that ends, leaving the table as it is.
LEMMA FinishInv ==
    ASSUME IInv, NEW k \in Tasks, Finish(k), UNCHANGED <<rows, dns, history>>,
           faults' \in Nat
    PROVE  IInv'
<1>1. task' = [task EXCEPT ![k] = Idle] /\ task'[k] = Idle
  BY DEF Finish, IInv, TypeOK
<1>2. UNCHANGED <<rows, issued>> /\ UNCHANGED <<cname, txt, cnameSeen, txtSeen>>
  BY DEF dns, history
<1>3. TaskSound(k)'
  BY <1>1, IdleSound
<1> QED BY <1>1, <1>2, <1>3, Constants, TaskStepInv DEF IInv, TypeOK, RowsSound

\* A task that takes up a row it has just read.
LEMMA BeginInv ==
    ASSUME IInv, NEW k \in Tasks, NEW i \in Active, NEW pc \in {"resave", "remove", "cname"},
           NEW api \in BOOLEAN, Begin(k, pc, Copy(i), api),
           UNCHANGED <<rows, dns, faults, history>>
    PROVE  IInv'
<1> DEFINE t == Started(pc, Copy(i), api)
<1>1. Copy(i) \in Entity
  BY DEF Copy, Entity, Active, IInv, TypeOK
<1>2. t \in Task /\ t.pc = pc /\ t.ent = Copy(i) /\ t.queue = {}
  BY <1>1, BeginTypes
<1>3. task' = [task EXCEPT ![k] = t] /\ task'[k] = t
  BY DEF Begin, IInv, TypeOK
<1> HIDE DEF t
<1>4. TaskSound(k)'
  BY <1>2, <1>3, BeginSound
<1>5. UNCHANGED <<rows, issued, cname, txt, faults, cnameSeen, txtSeen>>
  BY DEF dns, history
<1> QED BY <1>2, <1>3, <1>4, <1>5, TaskStepInv DEF IInv, TypeOK, RowsSound

\* A task that goes on to the next probe of a tick.
LEMMA ProbeOneOfSound ==
    ASSUME TypeOK, NEW k \in Tasks, NEW copies \in SUBSET Entity, ProbeOneOf(k, copies),
           \A e \in copies : e.id \in Ids /\ CopySound(e)'
    PROVE  \E t \in Task : task' = [task EXCEPT ![k] = t] /\ TaskSound(k)'
<1>1. CASE copies = {}
  BY <1>1, Constants, IdleSound DEF ProbeOneOf, Finish, TypeOK
<1>2. CASE copies # {}
  <2>1. PICK e \in copies :
          task' = [task EXCEPT ![k] = [Idle EXCEPT !.pc = "cname", !.ent = e,
                                                   !.queue = copies \ {e}]]
    BY <1>2 DEF ProbeOneOf
  <2> DEFINE t == [Idle EXCEPT !.pc = "cname", !.ent = e, !.queue = copies \ {e}]
  <2>2. t \in Task /\ t.pc = "cname" /\ t.ent = e /\ t.queue = copies \ {e}
    BY Constants DEF Idle, Task
  <2>3. task' = [task EXCEPT ![k] = t] /\ task'[k] = t
    BY <2>1 DEF TypeOK
  <2> HIDE DEF t
  <2>4. TaskSound(k)'
    BY <2>2, <2>3 DEF TaskSound
  <2> QED BY <2>2, <2>3, <2>4
<1> QED BY <1>1, <1>2

LEMMA RegisterInv ==
    ASSUME IInv, NEW k \in Tasks, NEW h \in Hosts, NEW p \in Projects, NEW api \in BOOLEAN,
           Register(k, h, p, api)
    PROVE  IInv'
<1>1. UNCHANGED <<rows, dns, faults, history>>
  BY DEF Register
<1>2. CASE Begin(k, "insert", [id |-> NoId, row |-> NewRow(h, p, api)], api)
  <2> DEFINE e == [id |-> NoId, row |-> NewRow(h, p, api)]
             t == Started("insert", e, api)
  <2>1. /\ e \in Entity /\ e.id = NoId /\ ~e.row.verified /\ e.row.state = "active"
    BY DEF NewRow, Entity, Row
  <2>2. t \in Task /\ t.pc = "insert" /\ t.ent = e /\ t.queue = {}
    BY <2>1, BeginTypes
  <2>3. task' = [task EXCEPT ![k] = t] /\ task'[k] = t
    BY <1>2 DEF Begin, IInv, TypeOK
  <2> HIDE DEF e, t
  <2>6. task'[k].pc = "insert" /\ task'[k].ent = e /\ task'[k].queue = {}
    BY <2>2, <2>3
  <2>4. TaskSound(k)'
    BY <2>1, <2>6 DEF TaskSound, CopySound
  <2>5. UNCHANGED <<rows, issued, cname, txt, faults, cnameSeen, txtSeen>>
    BY <1>1 DEF dns, history
  <2> QED BY <2>2, <2>3, <2>4, <2>5, TaskStepInv DEF IInv, TypeOK, RowsSound
<1>3. ASSUME NEW i \in ActiveOn(h), Begin(k, "resave", Copy(i), api) PROVE IInv'
  BY <1>1, <1>3, BeginInv DEF ActiveOn
<1> QED BY <1>2, <1>3 DEF Register

LEMMA SaveMetadataInv == ASSUME IInv, NEW k \in Tasks, SaveMetadata(k) PROVE IInv'
<1>1. PICK e \in Entity : e = task[k].ent
  BY DEF IInv, TypeOK, Task
<1>2. /\ e.id \in Ids /\ CopySound(e) /\ e.row \in Row
      /\ rows[e.id].state # "free" /\ e.row.state # "free"
      /\ Claimed(e.row) = Claimed(rows[e.id])
  BY <1>1 DEF SaveMetadata, IInv, TaskSound, CopySound, Entity
<1>3. IndexAdmits(e.id, e.row) /\ rows' = [rows EXCEPT ![e.id] = e.row]
  BY <1>1 DEF SaveMetadata, Save
<1>4. UNCHANGED <<cname, txt, faults, cnameSeen, txtSeen>> /\ UNCHANGED issued
  BY DEF SaveMetadata, dns, history
<1>5. task' = [task EXCEPT ![k] = Idle] /\ task'[k] = Idle
  BY DEF SaveMetadata, Finish, IInv, TypeOK
<1>6. TaskSound(k)'
  BY <1>5, IdleSound
<1>7. Sound(e.id, e.row)'
  BY <1>2, <1>4 DEF CopySound, Sound
<1> QED BY <1>2, <1>3, <1>4, <1>5, <1>6, <1>7, Constants, RowStepInv DEF IInv, TypeOK

LEMMA InsertInv == ASSUME IInv, NEW k \in Tasks, Insert(k) PROVE IInv'
<1> DEFINE At(i) == [id |-> i, row |-> task[k].ent.row]
<1>1. PICK i \in Ids :
        /\ rows[i].state = "free"
        /\ Save(At(i))
        /\ issued' = IF At(i).row.challenge THEN issued \cup {i} ELSE issued
        /\ IF task[k].api THEN Begin(k, "cname", At(i), TRUE) ELSE Finish(k)
  BY DEF Insert
<1>2. PICK e \in Entity : e = At(i)
  BY <1>1 DEF IInv, TypeOK, Task, Entity
<1>3. /\ e.id = i /\ e.row \in Row /\ e.row.state = "active" /\ ~e.row.verified
  BY <1>1, <1>2 DEF Insert, IInv, TypeOK, TaskSound, Task, Entity
<1>4. IndexAdmits(i, e.row) /\ rows' = [rows EXCEPT ![i] = e.row]
  BY <1>1, <1>2, <1>3 DEF Save
<1>5. issued' = IF e.row.challenge THEN issued \cup {i} ELSE issued
  BY <1>1, <1>2
<1>6. i \notin issued
  BY <1>1 DEF IInv, RowsSound
<1>7. UNCHANGED <<cname, txt, faults, cnameSeen, txtSeen>>
  BY DEF Insert, dns
<1>8. Sound(i, e.row)'
  BY <1>3, <1>5, <1>6 DEF Sound
<1>9. PICK t \in Task : task' = [task EXCEPT ![k] = t] /\ TaskSound(k)'
  <2>1. CASE task[k].api
    <3>1. Begin(k, "cname", e, TRUE)
      BY <1>1, <1>2, <2>1
    <3>2. task' = [task EXCEPT ![k] = Started("cname", e, TRUE)]
      BY <3>1 DEF Begin
    <3>3. task'[k] = Started("cname", e, TRUE)
      BY <3>2 DEF IInv, TypeOK
    <3>4. /\ Started("cname", e, TRUE) \in Task
          /\ Started("cname", e, TRUE).pc = "cname"
          /\ Started("cname", e, TRUE).ent = e
          /\ Started("cname", e, TRUE).queue = {}
      BY BeginTypes
    <3>5. task'[k].pc = "cname" /\ task'[k].ent = e /\ task'[k].queue = {}
      BY <3>3, <3>4
    <3>6. CopySound(e)'
      BY <1>3, <1>4, <1>8 DEF CopySound, IInv, TypeOK
    <3>7. TaskSound(k)'
      BY <1>3, <3>5, <3>6 DEF TaskSound
    <3> QED BY <3>2, <3>4, <3>7
  <2>2. CASE ~task[k].api
    <3>1. task' = [task EXCEPT ![k] = Idle] /\ task'[k] = Idle
      BY <1>1, <2>2 DEF Finish, IInv, TypeOK
    <3> QED BY <3>1, IdleSound, Constants
  <2> QED BY <2>1, <2>2
<1> HIDE DEF At
<1>10. /\ issued' \in SUBSET Ids
       /\ \A j \in Ids : rows[j].state # "free" \/ j # i => (j \in issued' <=> j \in issued)
  BY <1>1, <1>5 DEF IInv, TypeOK
<1> QED BY <1>1, <1>3, <1>4, <1>7, <1>8, <1>9, <1>10, RowStepInv DEF IInv, TypeOK

LEMMA TombstoneInv == ASSUME IInv, NEW k \in Tasks, Tombstone(k) PROVE IInv'
<1>1. PICK e \in Entity : e = task[k].ent
  BY DEF IInv, TypeOK, Task
<1>2. e.id \in Ids /\ CopySound(e) /\ e.row \in Row /\ rows[e.id] \in Row
  BY <1>1 DEF Tombstone, IInv, TypeOK, TaskSound, Entity
<1>3. PICK old \in Row : old = IF task[k].api THEN rows[e.id] ELSE e.row
  BY <1>2
<1>4. Sound(e.id, old) /\ Claimed(old) = Claimed(rows[e.id])
  BY <1>2, <1>3 DEF CopySound, IInv, RowsSound
<1>5. PICK row \in Row : row = [old EXCEPT !.state = "removed"]
  BY DEF Row
<1>6. /\ row.state = "removed" /\ row.verified = old.verified
      /\ row.challenge = old.challenge /\ Claimed(row) = Claimed(old)
  BY <1>5 DEF Row, Claimed
<1>7. rows' = [rows EXCEPT ![e.id] = row]
  BY <1>1, <1>3, <1>5 DEF Tombstone
<1>8. UNCHANGED <<cname, txt, faults, cnameSeen, txtSeen>> /\ UNCHANGED issued
  BY DEF Tombstone, dns, history
<1>9. Sound(e.id, row)'
  BY <1>4, <1>6, <1>8 DEF Sound
<1>10. IndexAdmits(e.id, row)
  BY <1>6 DEF IndexAdmits
<1>11. task' = [task EXCEPT ![k] = Idle] /\ task'[k] = Idle
  BY DEF Tombstone, Finish, IInv, TypeOK
<1>12. TaskSound(k)'
  BY <1>11, IdleSound
<1> QED BY <1>2, <1>4, <1>6, <1>7, <1>8, <1>9, <1>10, <1>11, <1>12, Constants, RowStepInv
        DEF IInv, TypeOK

LEMMA TickInv == ASSUME IInv, NEW k \in Tasks, Tick(k) PROVE IInv'
<1> DEFINE copies == {Copy(i) : i \in {j \in Active : ~rows[j].verified}}
<1>1. UNCHANGED <<cname, txt, cnameSeen, txtSeen, faults>> /\ UNCHANGED <<rows, issued>>
  BY DEF Tick, dns, history
<1>2. copies \in SUBSET Entity
  BY DEF Copy, Active, Entity, IInv, TypeOK
<1>3. \A e \in copies : e.id \in Ids /\ CopySound(e)'
  BY <1>1 DEF Copy, Active, CopySound, Sound, IInv, RowsSound
<1>4. ProbeOneOf(k, copies)
  BY DEF Tick
<1>5. \E t \in Task : task' = [task EXCEPT ![k] = t] /\ TaskSound(k)'
  <2>1. PICK c \in SUBSET Entity : c = copies
    BY <1>2
  <2> HIDE DEF copies
  <2> QED BY <1>3, <1>4, <2>1, ProbeOneOfSound DEF IInv
<1> QED BY <1>1, <1>5, TaskStepInv DEF IInv, TypeOK, RowsSound

LEMMA ProbeCnameInv ==
    ASSUME IInv, NEW k \in Tasks, NEW ok \in BOOLEAN, ProbeCname(k, ok) PROVE IInv'
<1>1. PICK e \in Entity : e = task[k].ent
  BY DEF IInv, TypeOK, Task
<1>2. e.id \in Ids /\ CopySound(e)
  BY <1>1 DEF ProbeCname, IInv, TaskSound
<1> DEFINE pc == IF ok /\ e.row.challenge THEN "txt" ELSE "update"
           t == [task[k] EXCEPT !.pc = pc, !.matched = ok]
<1>3. task' = [task EXCEPT ![k] = t] /\ task'[k] = t
  BY <1>1 DEF ProbeCname, IInv, TypeOK
<1>4. /\ t \in Task /\ t.pc = pc /\ t.matched = ok /\ t.ent = e
      /\ t.queue = task[k].queue
  BY <1>1 DEF IInv, TypeOK, Task
<1>5. /\ UNCHANGED <<cname, txt, faults>> /\ UNCHANGED <<rows, issued>>
      /\ UNCHANGED txtSeen
      /\ cnameSeen' = IF ok THEN cnameSeen \cup {e.id} ELSE cnameSeen
  BY <1>1 DEF ProbeCname, dns
<1>6. Grows
  BY <1>5 DEF Grows
<1>7. CopySound(e)'
  BY <1>2, <1>6, CopyStays DEF CopySound, Sound
<1>8. \A q \in t.queue : q.id \in Ids /\ CopySound(q)'
  <2> SUFFICES ASSUME NEW q \in task[k].queue PROVE q.id \in Ids /\ CopySound(q)'
    BY <1>4
  <2>1. q \in Entity /\ q.id \in Ids /\ CopySound(q)
    BY DEF IInv, TypeOK, Task, TaskSound
  <2> QED BY <2>1, <1>6, CopyStays DEF CopySound, Sound
<1> HIDE DEF t
<1>9. TaskSound(k)'
  BY <1>2, <1>3, <1>4, <1>5, <1>7, <1>8 DEF TaskSound
<1>10. /\ cnameSeen' \in SUBSET Ids /\ cnameSeen \subseteq cnameSeen'
       /\ \A i \in Ids : rows[i].state = "free" => i \notin cnameSeen'
  BY <1>2, <1>5 DEF IInv, TypeOK, RowsSound, CopySound
<1> QED BY <1>3, <1>4, <1>5, <1>9, <1>10, TaskStepInv DEF IInv, TypeOK, RowsSound

LEMMA ProbeTxtInv ==
    ASSUME IInv, NEW k \in Tasks, NEW ok \in BOOLEAN, ProbeTxt(k, ok) PROVE IInv'
<1>1. PICK e \in Entity : e = task[k].ent
  BY DEF IInv, TypeOK, Task
<1>2. e.id \in Ids /\ CopySound(e) /\ e.id \in cnameSeen
  BY <1>1 DEF ProbeTxt, IInv, TaskSound
<1> DEFINE t == [task[k] EXCEPT !.pc = "update", !.matched = ok]
<1>3. task' = [task EXCEPT ![k] = t] /\ task'[k] = t
  BY <1>1 DEF ProbeTxt, IInv, TypeOK
<1>4. /\ t \in Task /\ t.pc = "update" /\ t.matched = ok /\ t.ent = e
      /\ t.queue = task[k].queue
  BY <1>1 DEF IInv, TypeOK, Task
<1>5. /\ UNCHANGED <<cname, txt, faults>> /\ UNCHANGED <<rows, issued>>
      /\ UNCHANGED cnameSeen
      /\ txtSeen' = IF ok THEN txtSeen \cup {e.id} ELSE txtSeen
  BY <1>1 DEF ProbeTxt, dns
<1>6. Grows
  BY <1>5 DEF Grows
<1>7. CopySound(e)'
  BY <1>2, <1>6, CopyStays DEF CopySound, Sound
<1>8. \A q \in t.queue : q.id \in Ids /\ CopySound(q)'
  <2> SUFFICES ASSUME NEW q \in task[k].queue PROVE q.id \in Ids /\ CopySound(q)'
    BY <1>4
  <2>1. q \in Entity /\ q.id \in Ids /\ CopySound(q)
    BY DEF IInv, TypeOK, Task, TaskSound
  <2> QED BY <2>1, <1>6, CopyStays DEF CopySound, Sound
<1> HIDE DEF t
<1>9. TaskSound(k)'
  BY <1>2, <1>3, <1>4, <1>5, <1>7, <1>8 DEF TaskSound
<1>10. txtSeen' \in SUBSET Ids /\ txtSeen \subseteq txtSeen'
  BY <1>2, <1>5 DEF IInv, TypeOK
<1> QED BY <1>3, <1>4, <1>5, <1>9, <1>10, TaskStepInv DEF IInv, TypeOK, RowsSound

LEMMA ProbeUpdateInv == ASSUME IInv, NEW k \in Tasks, ProbeUpdate(k) PROVE IInv'
<1>1. PICK e \in Entity : e = task[k].ent
  BY DEF IInv, TypeOK, Task
<1>2. e.id \in Ids /\ CopySound(e) /\ rows[e.id] \in Row /\ rows[e.id].state # "free"
  BY <1>1 DEF ProbeUpdate, IInv, TypeOK, TaskSound, CopySound
<1>3. /\ UNCHANGED <<cname, txt, faults>> /\ UNCHANGED <<issued, cnameSeen, txtSeen>>
      /\ ProbeOneOf(k, task[k].queue)
  BY DEF ProbeUpdate, dns
<1>4. Grows
  BY <1>1, <1>2, <1>3 DEF Grows, ProbeUpdate, FirstVerify, IInv, TypeOK, Row, Claimed
<1>5. \E t \in Task : task' = [task EXCEPT ![k] = t] /\ TaskSound(k)'
  <2>1. PICK c \in SUBSET Entity : c = task[k].queue
    BY DEF IInv, TypeOK, Task
  <2>2. \A q \in c : q.id \in Ids /\ CopySound(q)'
    BY <1>4, <2>1, CopyStays DEF CopySound, Sound, IInv, TaskSound
  <2> QED BY <1>3, <2>1, <2>2, ProbeOneOfSound DEF IInv
<1>6. CASE ~FirstVerify(k)
  BY <1>3, <1>5, <1>6, TaskStepInv DEF ProbeUpdate, IInv, TypeOK, RowsSound
<1>7. CASE FirstVerify(k)
  <2>1. PICK row \in Row : row = [rows[e.id] EXCEPT !.verified = TRUE, !.challenge = FALSE]
    BY <1>2 DEF Row
  <2>2. /\ row.verified /\ ~row.challenge /\ row.state = rows[e.id].state
        /\ row.host = rows[e.id].host /\ Claimed(row) = Claimed(rows[e.id])
    BY <1>2, <2>1 DEF Row, Claimed
  <2>3. rows' = [rows EXCEPT ![e.id] = row]
    BY <1>1, <1>2, <1>7, <2>1 DEF ProbeUpdate, IInv, TypeOK
  <2>5. e.id \in cnameSeen /\ (e.id \in issued => e.id \in txtSeen)
    BY <1>1, <1>2, <1>7 DEF FirstVerify, ProbeUpdate, IInv, TaskSound, CopySound, Sound
  <2>6. Sound(e.id, row)'
    BY <1>3, <2>2, <2>5 DEF Sound
  <2>7. IndexAdmits(e.id, row)
    BY <1>2, <2>2 DEF IndexAdmits, ActiveOn, Active, IInv, OneActiveOwner
  <2> QED BY <1>2, <1>3, <1>5, <2>2, <2>3, <2>6, <2>7, RowStepInv DEF IInv, TypeOK
<1> QED BY <1>6, <1>7

\* Zone owners write neither the table nor the copies.
LEMMA ZoneInv == ASSUME IInv, Zone PROVE IInv'
<1> USE DEF IInv
<1>1. UNCHANGED <<rows, task, faults>> /\ UNCHANGED <<issued, cnameSeen, txtSeen>>
  BY DEF Zone, ToggleCname, ToggleTxt, history
<1>2. cname' \in SUBSET Hosts /\ txt' \in SUBSET Ids
  BY DEF Zone, ToggleCname, ToggleTxt, TypeOK
<1>3. TypeOK'
  BY <1>1, <1>2 DEF TypeOK
<1>4. OneActiveOwner' /\ RowsSound'
  BY <1>1 DEF OneActiveOwner, Active, RowsSound, Sound
<1>5. ASSUME NEW k \in Tasks PROVE TaskSound(k)'
  BY <1>1, TaskStays DEF Grows
<1> QED BY <1>3, <1>4, <1>5

LEMMA RequestInv == ASSUME IInv, NEW k \in Tasks, Request(k) PROVE IInv'
<1>1. ASSUME NEW i \in Ids, NEW api \in BOOLEAN, Remove(k, i, api) PROVE IInv'
  BY <1>1, BeginInv DEF Remove
<1>2. ASSUME NEW i \in Ids, Diagnose(k, i) PROVE IInv'
  BY <1>2, BeginInv DEF Diagnose
<1> QED BY <1>1, <1>2, RegisterInv DEF Request

LEMMA ContinueInv == ASSUME IInv, NEW k \in Tasks, Continue(k) PROVE IInv'
<1>1. CASE IndexViolation(k)
  BY <1>1, FinishInv DEF IndexViolation, IInv, TypeOK
<1>2. CASE Probe(k)
  BY <1>2, ProbeCnameInv, ProbeTxtInv, ProbeUpdateInv DEF Probe
<1> QED BY <1>1, <1>2, SaveMetadataInv, InsertInv, TombstoneInv DEF Continue

LEMMA StepInv == IInv /\ [Next]_vars => IInv'
<1> SUFFICES ASSUME IInv, [Next]_vars PROVE IInv'
  OBVIOUS
<1>1. ASSUME NEW k \in Handlers, Request(k) PROVE IInv'
  BY <1>1, RequestInv DEF Tasks
<1>2. ASSUME NEW k \in Crons, Tick(k) PROVE IInv'
  BY <1>2, TickInv DEF Tasks
<1>3. ASSUME NEW k \in Tasks, Abort(k) PROVE IInv'
  BY <1>3, FinishInv DEF Abort, IInv, TypeOK
<1>4. CASE UNCHANGED vars
  <2>1. UNCHANGED <<rows, task, faults, cname, txt>>
    BY <1>4 DEF vars
  <2>2. UNCHANGED <<issued, cnameSeen, txtSeen>>
    BY <1>4 DEF vars
  <2>3. TypeOK' /\ OneActiveOwner' /\ RowsSound'
    BY <2>1, <2>2 DEF IInv, TypeOK, OneActiveOwner, Active, RowsSound, Sound
  <2>4. ASSUME NEW k \in Tasks PROVE TaskSound(k)'
    BY <2>1, <2>2, TaskStays DEF Grows, IInv
  <2> QED BY <2>3, <2>4 DEF IInv
<1> QED BY <1>1, <1>2, <1>3, <1>4, ContinueInv, ZoneInv DEF Next

\* The invariant holds in every reachable state of every instance.
THEOREM Invariance == Spec => []IInv
<1> QED BY InitInv, StepInv, PTL DEF Spec

\* Types, for every instance.
THEOREM TypeCorrect == Spec => []TypeOK
<1>1. IInv => TypeOK
  BY DEF IInv
<1> QED BY <1>1, Invariance, PTL

\* A hostname never has two active rows.
THEOREM Uniqueness == Spec => []OneActiveOwner
<1>1. IInv => OneActiveOwner
  BY DEF IInv
<1> QED BY <1>1, Invariance, PTL

\* A verified row has been seen proved in DNS by some probe of it.
THEOREM Proof == Spec => []VerifiedWasProved
<1>1. IInv => VerifiedWasProved
  BY DEF IInv, RowsSound, Sound, VerifiedWasProved
<1> QED BY <1>1, Invariance, PTL

\* A row's challenge and its verified flag never drift apart.
THEOREM ChallengeCleared == Spec => []ChallengeMatchesState
<1>1. IInv => ChallengeMatchesState
  BY DEF IInv, RowsSound, Sound, ChallengeMatchesState
<1> QED BY <1>1, Invariance, PTL

-----------------------------------------------------------------------------
\* What a step other than a metadata re-registration does to row i: nothing,
\* the creation of a new one, its removal, or its verification.
LEMMA RowSteps ==
    ASSUME IInv, Next, ~\E k \in Tasks : SaveMetadata(k), NEW i \in Ids
    PROVE  \/ rows'[i] = rows[i]
           \/ rows[i].state = "free"
           \/ rows'[i].state = "removed"
           \/ rows'[i].state = rows[i].state /\ rows'[i].verified
<1>1. ASSUME NEW k \in Handlers, Request(k) PROVE rows' = rows
  BY <1>1 DEF Request, Register, Remove, Diagnose
<1>2. ASSUME NEW k \in Crons, Tick(k) PROVE rows' = rows
  BY <1>2 DEF Tick
<1>3. ASSUME NEW k \in Tasks, Abort(k) PROVE rows' = rows
  BY <1>3 DEF Abort
<1>4. CASE Zone
  BY <1>4 DEF Zone, ToggleCname, ToggleTxt
<1>5. ASSUME NEW k \in Tasks, Continue(k)
      PROVE  \/ rows'[i] = rows[i]
             \/ rows[i].state = "free"
             \/ rows'[i].state = "removed"
             \/ rows'[i].state = rows[i].state /\ rows'[i].verified
  <2>1. CASE Insert(k)
    BY <2>1 DEF Insert, Save, IInv, TypeOK
  <2>2. CASE IndexViolation(k)
    BY <2>2 DEF IndexViolation
  <2>3. CASE Tombstone(k)
    <3>1. PICK e \in Entity : e = task[k].ent
      BY DEF IInv, TypeOK, Task
    <3>2. CASE i # e.id
      BY <2>3, <3>1, <3>2 DEF Tombstone, IInv, TypeOK
    <3>3. CASE i = e.id
      <4>1. rows[i] \in Row /\ e.row \in Row
        BY <3>1 DEF IInv, TypeOK, Entity
      <4>2. rows'[i] = [IF task[k].api THEN rows[i] ELSE e.row EXCEPT !.state = "removed"]
        BY <2>3, <3>1, <3>3 DEF Tombstone, IInv, TypeOK
      <4> QED BY <4>1, <4>2 DEF Row
    <3> QED BY <3>2, <3>3
  <2>4. CASE ProbeUpdate(k)
    <3>1. rows[i] \in Row
      BY DEF IInv, TypeOK
    <3> QED BY <2>4, <3>1 DEF ProbeUpdate, IInv, TypeOK, Row
  <2>5. CASE \E ok \in BOOLEAN : ProbeCname(k, ok) \/ ProbeTxt(k, ok)
    BY <2>5 DEF ProbeCname, ProbeTxt
  <2> QED BY <1>5, <2>1, <2>2, <2>3, <2>4, <2>5 DEF Continue, Probe
<1> QED BY <1>1, <1>2, <1>3, <1>4, <1>5 DEF Next

\* Verification is one-way for every step but a metadata re-registration.
THEOREM OneWayButForResaves == Spec => OnlyResavesUnverify
<1>1. IInv /\ [Next]_vars =>
        [\/ \A i \in Ids : rows[i].verified /\ rows'[i].state = "active" => rows'[i].verified
         \/ \E k \in Tasks : SaveMetadata(k)]_vars
  <2> SUFFICES ASSUME IInv, Next, ~\E k \in Tasks : SaveMetadata(k),
                      NEW i \in Ids, rows[i].verified, rows'[i].state = "active"
               PROVE  rows'[i].verified
    OBVIOUS
  <2>1. rows[i].state # "free"
    BY DEF IInv, RowsSound
  <2> QED BY <2>1, RowSteps
<1> QED BY <1>1, Invariance, PTL DEF Spec, OnlyResavesUnverify

\* Removal is final for every step but a metadata re-registration.
THEOREM RemovedButForResaves == Spec => OnlyResavesRevive
<1>1. IInv /\ [Next]_vars =>
        [\/ \A i \in Ids : rows[i].state = "removed" => rows'[i].state = "removed"
         \/ \E k \in Tasks : SaveMetadata(k)]_vars
  <2> SUFFICES ASSUME IInv, Next, ~\E k \in Tasks : SaveMetadata(k),
                      NEW i \in Ids, rows[i].state = "removed"
               PROVE  rows'[i].state = "removed"
    OBVIOUS
  <2> QED BY RowSteps
<1> QED BY <1>1, Invariance, PTL DEF Spec, OnlyResavesRevive

-----------------------------------------------------------------------------
(***************************************************************************)
(* The refinement of Ownership.  Membership in the three sets is all that  *)
(* is used of them.                                                        *)
(***************************************************************************)
LEMMA Claims ==
    /\ \A x : x \in Held <=> \E j \in Active : x = Claimed(rows[j])
    /\ \A x : x \in Verified <=> \E j \in Active : rows[j].verified /\ x = Claimed(rows[j])
    /\ \A x : x \in Evident <=> \E j \in Ids : Evidence(j) /\ x = Claimed(rows[j])
BY DEF Held, Verified, Evident, ClaimsOf

\* Two active rows have different claims.
LEMMA ClaimsApart ==
    ASSUME IInv, NEW i \in Active, NEW j \in Active, Claimed(rows[i]) = Claimed(rows[j])
    PROVE  i = j
BY DEF IInv, OneActiveOwner, Claimed

\* A step that neither writes rows nor sees records.
LEMMA QuietRefines ==
    ASSUME UNCHANGED <<rows, issued, cnameSeen, txtSeen>>
    PROVE  UNCHANGED Promise!vars
BY DEF Promise!vars, Held, Verified, Evident, ClaimsOf, Active, Evidence

\* A probe that has seen something of row i.
LEMMA SeenRefines ==
    ASSUME IInv, UNCHANGED <<rows, issued>>, NEW i \in Ids, rows[i].state # "free",
           cnameSeen \subseteq cnameSeen', cnameSeen' \subseteq cnameSeen \cup {i},
           txtSeen \subseteq txtSeen', txtSeen' \subseteq txtSeen \cup {i}
    PROVE  [Promise!Next]_(Promise!vars)
<1> DEFINE c == Claimed(rows[i])
<1>1. rows[i] \in Row
  BY DEF IInv, TypeOK
<1>2. c = <<rows[i].host, rows[i].project>> /\ rows[i].host \in Hosts /\ rows[i].project \in Projects
  BY <1>1 DEF Claimed, Row
<1>3. Held' = Held /\ Verified' = Verified
  BY DEF Held, Verified, ClaimsOf, Active
<1>4. \A j \in Ids : j # i => (Evidence(j)' <=> Evidence(j))
  BY DEF Evidence
<1>5. Evidence(i) => Evidence(i)'
  BY DEF Evidence
<1>6. Evident' = Evident \/ Evident' = Evident \cup {c}
  <2>1. \A x : x \in Evident' <=> \E j \in Ids : Evidence(j)' /\ x = Claimed(rows[j])
    BY DEF Evident, ClaimsOf
  <2>2. CASE Evidence(i) \/ ~Evidence(i)'
    <3>1. \A x : x \in Evident' <=> x \in Evident
      BY <1>4, <1>5, <2>1, <2>2, Claims
    <3> QED BY <3>1, SetExtensionality
  <2>3. CASE ~Evidence(i) /\ Evidence(i)'
    BY <1>4, <2>1, <2>3, Claims
  <2> QED BY <2>2, <2>3
<1>7. CASE Evident' = Evident
  BY <1>3, <1>7 DEF Promise!vars
<1>8. CASE Evident' = Evident \cup {c}
  <2>1. Promise!Prove(rows[i].host, rows[i].project)
    BY <1>2, <1>3, <1>8 DEF Promise!Prove
  <2> QED BY <1>2, <2>1 DEF Promise!Next
<1> QED BY <1>6, <1>7, <1>8

\* A step that writes row i.
LEMMA WriteRefines ==
    ASSUME IInv, IInv', NEW i \in Ids, NEW row \in Row, rows' = [rows EXCEPT ![i] = row],
           row.state # "free",
           rows[i].state # "free" => Claimed(row) = Claimed(rows[i]),
           UNCHANGED <<cnameSeen, txtSeen>>,
           \A j \in Ids : rows[j].state # "free" => (j \in issued' <=> j \in issued)
    PROVE  [Promise!Next]_(Promise!vars)
<1> DEFINE h == row.host
           p == row.project
           c == <<h, p>>
<1>1. \A j \in Ids : rows'[j] = IF j = i THEN row ELSE rows[j]
  BY DEF IInv, TypeOK
<1>2. h \in Hosts /\ p \in Projects /\ Claimed(row) = c
  BY DEF Row, Claimed
<1>3. /\ \A j \in Ids : Evidence(j)' <=> Evidence(j)
      /\ \A j \in Ids : Evidence(j) => Claimed(rows'[j]) = Claimed(rows[j])
  BY <1>1 DEF Evidence, IInv, RowsSound
<1>4. Evident' = Evident
  BY <1>3, Claims DEF Evident, ClaimsOf
<1>5. /\ \A j \in Ids : j # i => (j \in Active' <=> j \in Active)
      /\ i \in Active' <=> row.state = "active"
  BY <1>1 DEF Active
<1>6. row.verified => c \in Evident
  <2>1. row.verified => Evidence(i)'
    BY <1>1 DEF IInv, RowsSound, Sound, Evidence
  <2> QED BY <1>1, <1>2, <1>4, <2>1 DEF Evident, ClaimsOf
<1>7. /\ \A x : x \in Held' <=> \E j \in Active' : x = Claimed(rows'[j])
      /\ \A x : x \in Verified' <=> \E j \in Active' : rows'[j].verified /\ x = Claimed(rows'[j])
  BY DEF Held, Verified, ClaimsOf
<1>8. Active \subseteq Ids /\ Active' \subseteq Ids
  BY DEF Active
<1> HIDE DEF c, h, p
<1>9. CASE i \in Active /\ row.state = "active"
  <2>1. Claimed(rows[i]) = c /\ \A j \in Active : j # i => Claimed(rows[j]) # c
    BY <1>2, <1>9, ClaimsApart DEF Active
  <2>2. Active' = Active /\ \A j \in Active : Claimed(rows'[j]) = Claimed(rows[j])
    <3>1. \A x : x \in Active' <=> x \in Active
      BY <1>5, <1>8, <1>9
    <3>2. \A j \in Active : Claimed(rows'[j]) = Claimed(rows[j])
      BY <1>1, <1>2, <1>8, <2>1
    <3> QED BY <3>1, <3>2, SetExtensionality
  <2>3. Held' = Held /\ c \in Held
    <3>1. \A x : x \in Held' <=> x \in Held
      BY <1>7, <2>2, Claims
    <3> QED BY <1>9, <2>1, <3>1, Claims, SetExtensionality
  <2>4. CASE row.verified
    <3>1. Verified' = Verified \cup {c}
      BY <1>1, <1>7, <1>8, <1>9, <2>1, <2>2, <2>4, Claims
    <3>2. Promise!Verify(h, p)
      BY <1>4, <1>6, <2>3, <2>4, <3>1 DEF Promise!Verify, c
    <3> QED BY <1>2, <3>2 DEF Promise!Next
  <2>5. CASE ~row.verified
    <3>1. Verified' = Verified \ {c}
      BY <1>1, <1>7, <1>8, <1>9, <2>1, <2>2, <2>5, Claims
    <3>2. Promise!Doubt(h, p)
      BY <1>4, <2>3, <3>1 DEF Promise!Doubt, c
    <3> QED BY <1>2, <3>2 DEF Promise!Next
  <2> QED BY <2>4, <2>5
<1>10. CASE i \in Active /\ row.state # "active"
  <2>1. Claimed(rows[i]) = c /\ \A j \in Active : j # i => Claimed(rows[j]) # c
    BY <1>2, <1>10, ClaimsApart DEF Active
  <2>2. Held' = Held \ {c}
    BY <1>1, <1>5, <1>7, <1>8, <1>10, <2>1, Claims
  <2>3. Verified' = Verified \ {c}
    BY <1>1, <1>5, <1>7, <1>8, <1>10, <2>1, Claims
  <2>4. Promise!Release(h, p)
    BY <1>4, <2>2, <2>3 DEF Promise!Release, c
  <2> QED BY <1>2, <2>4 DEF Promise!Next
<1>11. CASE i \notin Active /\ row.state = "active"
  <2>1. Held' = Held \cup {c}
    BY <1>1, <1>2, <1>5, <1>7, <1>8, <1>11, Claims
  <2>2. \/ Verified' = Verified
        \/ row.verified /\ Verified' = Verified \cup {c}
    <3>1. CASE row.verified
      BY <1>1, <1>2, <1>5, <1>7, <1>8, <1>11, <3>1, Claims
    <3>2. CASE ~row.verified
      <4>1. \A x : x \in Verified' <=> x \in Verified
        BY <1>1, <1>5, <1>7, <1>8, <1>11, <3>2, Claims
      <4>2. Verified' = Verified
        BY <4>1, SetExtensionality
      <4> QED BY <4>2
    <3> QED BY <3>1, <3>2
  <2>3. Promise!Unclaimed(h)
    <3> SUFFICES ASSUME NEW q \in Projects, NEW j \in Active, <<h, q>> = Claimed(rows[j])
                 PROVE  FALSE
      BY Claims DEF Promise!Unclaimed
    <3>1. j # i /\ j \in Active' /\ i \in Active' /\ rows'[j].host = h /\ rows'[i].host = h
      BY <1>1, <1>5, <1>8, <1>11 DEF Claimed, h
    <3> QED BY <3>1 DEF IInv, OneActiveOwner
  <2>4. Verified' \in {Verified, Verified \cup ({<<h, p>>} \cap Evident)}
    BY <1>6, <2>2 DEF c
  <2>5. Promise!Claim(h, p)
    BY <1>4, <2>1, <2>3, <2>4 DEF Promise!Claim, c
  <2> QED BY <1>2, <2>5 DEF Promise!Next
<1>12. CASE i \notin Active /\ row.state # "active"
  <2>1. /\ \A x : x \in Held' <=> x \in Held
        /\ \A x : x \in Verified' <=> x \in Verified
    BY <1>1, <1>5, <1>7, <1>8, <1>12, Claims
  <2>2. Held' = Held /\ Verified' = Verified
    BY <2>1, SetExtensionality
  <2> QED BY <1>4, <2>2 DEF Promise!vars
<1> QED BY <1>9, <1>10, <1>11, <1>12

LEMMA ContinueRefines ==
    ASSUME IInv, IInv', NEW k \in Tasks, Continue(k)
    PROVE  [Promise!Next]_(Promise!vars)
<1>1. PICK e \in Entity : e = task[k].ent
  BY DEF IInv, TypeOK, Task
<1>2. task[k].pc \in {"resave", "remove", "cname", "txt", "update"} =>
        /\ e.id \in Ids /\ e.row \in Row /\ rows[e.id] \in Row
        /\ rows[e.id].state # "free" /\ e.row.state # "free"
        /\ Claimed(e.row) = Claimed(rows[e.id])
  BY <1>1 DEF IInv, TypeOK, Entity, TaskSound, CopySound
<1>3. CASE SaveMetadata(k)
  BY <1>1, <1>2, <1>3, WriteRefines DEF SaveMetadata, Save, history
<1>4. CASE Insert(k)
  <2>1. PICK i \in Ids :
          /\ rows[i].state = "free"
          /\ rows' = [rows EXCEPT ![i] = e.row]
          /\ issued' = IF e.row.challenge THEN issued \cup {i} ELSE issued
    BY <1>1, <1>4 DEF Insert, Save
  <2>2. e.row \in Row /\ e.row.state = "active"
    BY <1>1, <1>4 DEF Insert, IInv, TaskSound, Entity
  <2>3. UNCHANGED <<cnameSeen, txtSeen>>
    BY <1>4 DEF Insert
  <2>4. \A j \in Ids : rows[j].state # "free" => (j \in issued' <=> j \in issued)
    BY <2>1
  <2> QED BY <2>1, <2>2, <2>3, <2>4, WriteRefines
<1>5. CASE IndexViolation(k)
  BY <1>5, QuietRefines DEF IndexViolation, history
<1>6. CASE Tombstone(k)
  <2>1. PICK old \in Row : old = IF task[k].api THEN rows[e.id] ELSE e.row
    BY <1>2, <1>6 DEF Tombstone
  <2>2. PICK row \in Row : row = [old EXCEPT !.state = "removed"]
    BY DEF Row
  <2>3. row.state = "removed" /\ Claimed(row) = Claimed(rows[e.id])
    <3>1. row.state = "removed" /\ Claimed(row) = Claimed(old)
      BY <2>2 DEF Row, Claimed
    <3> QED BY <1>2, <1>6, <2>1, <3>1 DEF Tombstone
  <2>4. rows' = [rows EXCEPT ![e.id] = row] /\ e.id \in Ids
    BY <1>1, <1>2, <1>6, <2>1, <2>2 DEF Tombstone
  <2>5. UNCHANGED <<issued, cnameSeen, txtSeen>>
    BY <1>6 DEF Tombstone, history
  <2> QED BY <2>2, <2>3, <2>4, <2>5, WriteRefines
<1>7. ASSUME NEW ok \in BOOLEAN, ProbeCname(k, ok) \/ ProbeTxt(k, ok)
      PROVE  [Promise!Next]_(Promise!vars)
  <2>1. e.id \in Ids /\ rows[e.id].state # "free" /\ UNCHANGED <<rows, issued>>
    BY <1>1, <1>2, <1>7 DEF ProbeCname, ProbeTxt
  <2>2. /\ cnameSeen \subseteq cnameSeen' /\ cnameSeen' \subseteq cnameSeen \cup {e.id}
        /\ txtSeen \subseteq txtSeen' /\ txtSeen' \subseteq txtSeen \cup {e.id}
    BY <1>1, <1>7 DEF ProbeCname, ProbeTxt
  <2> QED BY <2>1, <2>2, SeenRefines
<1>8. CASE ProbeUpdate(k) /\ ~FirstVerify(k)
  BY <1>8, QuietRefines DEF ProbeUpdate
<1>9. CASE ProbeUpdate(k) /\ FirstVerify(k)
  <2>1. PICK row \in Row : row = [rows[e.id] EXCEPT !.verified = TRUE, !.challenge = FALSE]
    BY <1>2, <1>9 DEF ProbeUpdate, Row
  <2>2. row.state = rows[e.id].state /\ Claimed(row) = Claimed(rows[e.id])
    BY <1>2, <1>9, <2>1 DEF ProbeUpdate, Row, Claimed
  <2>3. rows' = [rows EXCEPT ![e.id] = row] /\ e.id \in Ids /\ rows[e.id].state # "free"
    BY <1>1, <1>2, <1>9, <2>1 DEF ProbeUpdate, IInv, TypeOK
  <2>4. UNCHANGED <<issued, cnameSeen, txtSeen>>
    BY <1>9 DEF ProbeUpdate
  <2> QED BY <2>1, <2>2, <2>3, <2>4, WriteRefines
<1> QED BY <1>3, <1>4, <1>5, <1>6, <1>7, <1>8, <1>9 DEF Continue, Probe

LEMMA StepRefines == IInv /\ IInv' /\ [Next]_vars => [Promise!Next]_(Promise!vars)
<1> SUFFICES ASSUME IInv, IInv', [Next]_vars PROVE [Promise!Next]_(Promise!vars)
  OBVIOUS
<1>1. CASE \E k \in Tasks : Continue(k)
  BY <1>1, ContinueRefines
<1>2. CASE ~\E k \in Tasks : Continue(k)
  <2>1. UNCHANGED <<rows, issued, cnameSeen, txtSeen>>
    BY <1>2 DEF Next, vars, history, Request, Register, Remove, Diagnose, Tick, Abort,
                Zone, ToggleCname, ToggleTxt
  <2> QED BY <2>1, QuietRefines
<1> QED BY <1>1, <1>2

\* A hostname goes from one tenant to another only by way of nobody, and no claim is
\* verified before it was proved: the table implements Ownership.
THEOREM OneTenantAtATime == Spec => ImplementsOwnership
<1>1. Init => Promise!Init
  <2> SUFFICES ASSUME Init PROVE Promise!Init
    OBVIOUS
  <2>1. \A i \in Ids : rows[i].state = "free" /\ ~Evidence(i)
    BY Constants DEF Init, Evidence
  <2>2. /\ \A x : x \notin Held
        /\ \A x : x \notin Verified
        /\ \A x : x \notin Evident
    BY <2>1, Claims DEF Active
  <2>3. Held = {} /\ Verified = {} /\ Evident = {}
    BY <2>2
  <2> QED BY <2>3 DEF Promise!Init
<1>2. IInv /\ IInv' /\ [Next]_vars => [Promise!Next]_(Promise!vars)
  BY StepRefines
<1> QED BY <1>1, <1>2, Invariance, PTL DEF Spec, ImplementsOwnership, Promise!Spec
=============================================================================
