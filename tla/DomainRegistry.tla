--------------------------- MODULE DomainRegistry ---------------------------
(***************************************************************************)
(* The domains table and everybody who writes it: the token API            *)
(* (DomainsService), the portal (PortalService) and the DNS prober         *)
(* (DomainVerifyService), as tasks of one node process that interleave at  *)
(* their awaits.                                                           *)
(*                                                                         *)
(* A task works on the copy of a row it has read.  Two ways of writing     *)
(* matter: repository.update(id, columns) writes the columns it names, and *)
(* repository.save(entity) writes every column in which the task's copy    *)
(* differs from the table, so the row becomes the copy.                    *)
(*                                                                         *)
(* Data: a TXT challenge is the row it was issued for, since every token   *)
(* is fresh; metadata, probe diagnosis and timestamps are left out.        *)
(***************************************************************************)
EXTENDS FiniteSets, Naturals

CONSTANTS
    Hosts,        \* hostnames
    Projects,     \* tenants
    TxtProjects,  \* the projects with requireTxtVerification
    Ids,          \* bound: identities of rows, removed ones included
    NoId,
    Handlers,     \* request handlers
    Crons,        \* ticks of the verify cron that may overlap
    MaxFaults     \* bound: awaits that throw

ASSUME InhabitedAssumption == Hosts # {} /\ Projects # {}
ASSUME IdsAssumption == NoId \notin Ids
ASSUME TxtProjectsAssumption == TxtProjects \subseteq Projects
ASSUME TasksAssumption == Handlers \cap Crons = {}
ASSUME MaxFaultsAssumption == MaxFaults \in Nat

VARIABLES
    rows,       \* the domains table
    cname,      \* the hosts whose CNAME points at the edge
    txt,        \* the rows whose token is published at _hee-verify
    task,       \* the local state of every task
    faults,     \* awaits that have thrown
    issued,     \* history: rows that were given a challenge
    cnameSeen,  \* history: rows for which a probe saw the CNAME
    txtSeen     \* history: rows for which a probe saw the token

vars == <<rows, cname, txt, task, faults, issued, cnameSeen, txtSeen>>
dns == <<cname, txt>>
history == <<issued, cnameSeen, txtSeen>>

-----------------------------------------------------------------------------
Tasks == Handlers \cup Crons

Row == [state : {"free", "active", "removed"}, host : Hosts, project : Projects,
        verified : BOOLEAN, challenge : BOOLEAN]

\* A row read by a task.
Entity == [id : Ids \cup {NoId}, row : Row]

Task == [pc : {"idle", "insert", "resave", "remove", "cname", "txt", "update"},
         ent : Entity,          \* the copy the task works on
         api : BOOLEAN,         \* through the token API, not the portal
         matched : BOOLEAN,     \* the probe's verdict
         queue : SUBSET Entity] \* what is left of a tick

\* The content of a row that is not there, and of a copy that is not in use.
NoRow == [state |-> "free", host |-> CHOOSE h \in Hosts : TRUE,
          project |-> CHOOSE p \in Projects : TRUE, verified |-> FALSE, challenge |-> FALSE]
NoEntity == [id |-> NoId, row |-> NoRow]
Idle == [pc |-> "idle", ent |-> NoEntity, api |-> TRUE, matched |-> FALSE, queue |-> {}]

Active == {i \in Ids : rows[i].state = "active"}
ActiveOn(h) == {i \in Active : rows[i].host = h}
Copy(i) == [id |-> i, row |-> rows[i]]

TypeOK ==
    /\ rows \in [Ids -> Row]
    /\ cname \in SUBSET Hosts
    /\ txt \in SUBSET Ids
    /\ task \in [Tasks -> Task]
    /\ faults \in Nat
    /\ issued \in SUBSET Ids
    /\ cnameSeen \in SUBSET Ids
    /\ txtSeen \in SUBSET Ids

Init ==
    /\ rows = [i \in Ids |-> NoRow]
    /\ cname = {}
    /\ txt = {}
    /\ task = [k \in Tasks |-> Idle]
    /\ faults = 0
    /\ issued = {}
    /\ cnameSeen = {}
    /\ txtSeen = {}

-----------------------------------------------------------------------------
(***************************************************************************)
(* The table.  The partial unique index on hostname WHERE removed_at IS    *)
(* NULL admits a row if no other active row has its host.                  *)
(***************************************************************************)

\* Mutant of IndexAdmits: the index is not unique.
NoIndex(i, row) == TRUE

\* The database refuses a second active row of a host.
IndexAdmits(i, row) == row.state = "active" => ActiveOn(row.host) \subseteq {i}

\* repository.save() of a copy: the whole row.
Save(e) ==
    /\ IndexAdmits(e.id, e.row)
    /\ rows' = [rows EXCEPT ![e.id] = e.row]

Finish(k) == task' = [task EXCEPT ![k] = Idle]
Started(pc, e, api) == [Idle EXCEPT !.pc = pc, !.ent = e, !.api = api]
Begin(k, pc, e, api) == task' = [task EXCEPT ![k] = Started(pc, e, api)]

-----------------------------------------------------------------------------
(***************************************************************************)
(* Registering.                                                            *)
(***************************************************************************)

\* The row register() creates: the API issues a challenge if the project asks
\* for one, the portal never does.
NewRow(h, p, api) ==
    [state |-> "active", host |-> h, project |-> p, verified |-> FALSE,
     challenge |-> api /\ p \in TxtProjects]

\* Mutant of Register: the row of another project is taken over.
RegisterTakingOver(k, h, p, api) ==
    /\ task[k].pc = "idle"
    /\ \/ /\ ActiveOn(h) = {}
          /\ Begin(k, "insert", [id |-> NoId, row |-> NewRow(h, p, api)], api)
       \/ \E i \in ActiveOn(h) :
            Begin(k, "resave", [Copy(i) EXCEPT !.row.project = p], api)
    /\ UNCHANGED <<rows, dns, faults, history>>

\* register() and registerDomain() look for the active row of the host.  With
\* a row of the same project and no metadata, or a row of another project (409),
\* the request ends here and changes nothing.
Register(k, h, p, api) ==
    /\ task[k].pc = "idle"
    /\ \/ /\ ActiveOn(h) = {}
          /\ Begin(k, "insert", [id |-> NoId, row |-> NewRow(h, p, api)], api)
       \/ \E i \in ActiveOn(h) :
            /\ rows[i].project = p
            /\ Begin(k, "resave", Copy(i), api)
    /\ UNCHANGED <<rows, dns, faults, history>>

\* existing.metadata = dto.metadata; save(existing)
SaveMetadata(k) ==
    /\ task[k].pc = "resave"
    /\ Save(task[k].ent)
    /\ Finish(k)
    /\ UNCHANGED <<dns, faults, history>>

\* save(row) inserts it; the API goes on to probe it, the portal is done.
Insert(k) ==
    /\ task[k].pc = "insert"
    /\ \E i \in Ids :
        LET e == [id |-> i, row |-> task[k].ent.row]
        IN  /\ rows[i].state = "free"
            /\ Save(e)
            /\ issued' = IF e.row.challenge THEN issued \cup {i} ELSE issued
            /\ IF task[k].api THEN Begin(k, "cname", e, TRUE) ELSE Finish(k)
    /\ UNCHANGED <<dns, faults, cnameSeen, txtSeen>>

\* The index refuses the write, and the request fails with an internal error.
IndexViolation(k) ==
    /\ task[k].pc \in {"insert", "resave"}
    /\ ~IndexAdmits(task[k].ent.id, task[k].ent.row)
    /\ Finish(k)
    /\ UNCHANGED <<rows, dns, faults, history>>

-----------------------------------------------------------------------------
(***************************************************************************)
(* Removing.                                                               *)
(***************************************************************************)

\* remove() and removeDomain() look for the project's active row.
Remove(k, i, api) ==
    /\ task[k].pc = "idle"
    /\ i \in Active
    /\ Begin(k, "remove", Copy(i), api)
    /\ UNCHANGED <<rows, dns, faults, history>>

\* The API updates removed_at alone; the portal saves its whole copy.
Tombstone(k) ==
    /\ task[k].pc = "remove"
    /\ LET e == task[k].ent
       IN  rows' = [rows EXCEPT ![e.id] =
                      [IF task[k].api THEN @ ELSE e.row EXCEPT !.state = "removed"]]
    /\ Finish(k)
    /\ UNCHANGED <<dns, faults, history>>

-----------------------------------------------------------------------------
(***************************************************************************)
(* Probing.                                                                *)
(***************************************************************************)

\* diagnose(): the "Re-verify" button.
Diagnose(k, i) ==
    /\ task[k].pc = "idle"
    /\ i \in Active
    /\ Begin(k, "cname", Copy(i), TRUE)
    /\ UNCHANGED <<rows, dns, faults, history>>

\* Task k turns to the probe of one of the copies, the others waiting, or ends.
ProbeOneOf(k, copies) ==
    IF copies = {} THEN Finish(k)
    ELSE \E e \in copies :
           task' = [task EXCEPT ![k] = [Idle EXCEPT !.pc = "cname", !.ent = e,
                                                    !.queue = copies \ {e}]]

\* tick(): all the unverified rows are read at once and probed one by one.
Tick(k) ==
    /\ task[k].pc = "idle"
    /\ \E i \in Active : ~rows[i].verified
    /\ ProbeOneOf(k, {Copy(i) : i \in {j \in Active : ~rows[j].verified}})
    /\ UNCHANGED <<rows, dns, faults, history>>

\* resolveCname() answers with what DNS holds, or fails.
ProbeCname(k, ok) ==
    LET e == task[k].ent
    IN  /\ task[k].pc = "cname"
        /\ ok => e.row.host \in cname
        /\ task' = [task EXCEPT ![k].pc = IF ok /\ e.row.challenge THEN "txt" ELSE "update",
                                ![k].matched = ok]
        /\ cnameSeen' = IF ok THEN cnameSeen \cup {e.id} ELSE cnameSeen
        /\ UNCHANGED <<rows, dns, faults, issued, txtSeen>>

\* Mutant of ProbeTxt: the catch block forgets txtOk = false.
ProbeTxtForgiving(k, ok) ==
    LET e == task[k].ent
    IN  /\ task[k].pc = "txt"
        /\ ok => e.id \in txt
        /\ task' = [task EXCEPT ![k].pc = "update", ![k].matched = TRUE]
        /\ txtSeen' = IF ok THEN txtSeen \cup {e.id} ELSE txtSeen
        /\ UNCHANGED <<rows, dns, faults, issued, cnameSeen>>

\* resolveTxt() answers with the row's token, with others, or fails.
ProbeTxt(k, ok) ==
    LET e == task[k].ent
    IN  /\ task[k].pc = "txt"
        /\ ok => e.id \in txt
        /\ task' = [task EXCEPT ![k].pc = "update", ![k].matched = ok]
        /\ txtSeen' = IF ok THEN txtSeen \cup {e.id} ELSE txtSeen
        /\ UNCHANGED <<rows, dns, faults, issued, cnameSeen>>

\* matched && !row.verified, on the task's copy.
FirstVerify(k) == task[k].matched /\ ~task[k].ent.row.verified

\* Mutant of ProbeUpdate: the challenge stays.
ProbeUpdateKeepsChallenge(k) ==
    LET i == task[k].ent.id
    IN  /\ task[k].pc = "update"
        /\ rows' = IF FirstVerify(k) THEN [rows EXCEPT ![i].verified = TRUE] ELSE rows
        /\ ProbeOneOf(k, task[k].queue)
        /\ UNCHANGED <<dns, faults, issued, cnameSeen, txtSeen>>

\* Mutant of ProbeUpdate: verified follows the verdict both ways.
ProbeUpdateTwoWay(k) ==
    LET i == task[k].ent.id
    IN  /\ task[k].pc = "update"
        /\ rows' = [rows EXCEPT ![i].verified = task[k].matched,
                                ![i].challenge = @ /\ ~task[k].matched]
        /\ ProbeOneOf(k, task[k].queue)
        /\ UNCHANGED <<dns, faults, issued, cnameSeen, txtSeen>>

\* Mutant of ProbeUpdate: save() of the merged row instead of update().
ProbeUpdateSaves(k) ==
    LET e == task[k].ent
    IN  /\ task[k].pc = "update"
        /\ Save(IF FirstVerify(k)
                  THEN [e EXCEPT !.row.verified = TRUE, !.row.challenge = FALSE]
                  ELSE e)
        /\ ProbeOneOf(k, task[k].queue)
        /\ UNCHANGED <<dns, faults, issued, cnameSeen, txtSeen>>

\* Mutant of ProbeUpdate: the loop of a tick returns after a row instead of going on.
ProbeUpdateReturns(k) ==
    LET i == task[k].ent.id
    IN  /\ task[k].pc = "update"
        /\ rows' = IF FirstVerify(k)
                    THEN [rows EXCEPT ![i].verified = TRUE, ![i].challenge = FALSE]
                    ELSE rows
        /\ Finish(k)
        /\ UNCHANGED <<dns, faults, issued, cnameSeen, txtSeen>>

\* The verdict is written to its own columns.
ProbeUpdate(k) ==
    LET i == task[k].ent.id
    IN  /\ task[k].pc = "update"
        /\ rows' = IF FirstVerify(k)
                    THEN [rows EXCEPT ![i].verified = TRUE, ![i].challenge = FALSE]
                    ELSE rows
        /\ ProbeOneOf(k, task[k].queue)
        /\ UNCHANGED <<dns, faults, issued, cnameSeen, txtSeen>>

-----------------------------------------------------------------------------
(***************************************************************************)
(* The world around it.                                                    *)
(***************************************************************************)

\* The owner of a zone adds or takes away the CNAME, or the TXT record of a
\* challenge it was given.
ToggleCname(h) ==
    /\ cname' = IF h \in cname THEN cname \ {h} ELSE cname \cup {h}
    /\ UNCHANGED <<rows, txt, task, faults, history>>

ToggleTxt(i) ==
    /\ i \in issued
    /\ txt' = IF i \in txt THEN txt \ {i} ELSE txt \cup {i}
    /\ UNCHANGED <<rows, cname, task, faults, history>>

\* An await throws, or the process dies with the task: a handler answers with
\* an error, a tick drops the rest of its queue.
Abort(k) ==
    /\ task[k].pc # "idle"
    /\ faults < MaxFaults
    /\ faults' = faults + 1
    /\ Finish(k)
    /\ UNCHANGED <<rows, dns, history>>

-----------------------------------------------------------------------------
Request(k) ==
    \/ \E h \in Hosts, p \in Projects, api \in BOOLEAN : Register(k, h, p, api)
    \/ \E i \in Ids, api \in BOOLEAN : Remove(k, i, api)
    \/ \E i \in Ids : Diagnose(k, i)

Probe(k) ==
    \/ \E ok \in BOOLEAN : ProbeCname(k, ok) \/ ProbeTxt(k, ok)
    \/ ProbeUpdate(k)

Continue(k) == SaveMetadata(k) \/ Insert(k) \/ IndexViolation(k) \/ Tombstone(k) \/ Probe(k)

Zone == (\E h \in Hosts : ToggleCname(h)) \/ (\E i \in Ids : ToggleTxt(i))

Next ==
    \/ \E k \in Handlers : Request(k)
    \/ \E k \in Crons : Tick(k)
    \/ \E k \in Tasks : Continue(k) \/ Abort(k)
    \/ Zone

Spec == Init /\ [][Next]_vars

(***************************************************************************)
(* Fairness.  The process runs its continuations and the cron; a DNS       *)
(* lookup that is repeated sees, sooner or later, what stays published.    *)
(* Tenants and zone owners need not do anything.                           *)
(***************************************************************************)
Fairness ==
    /\ \A k \in Tasks : WF_vars(Continue(k))
    /\ \A k \in Crons : WF_vars(Tick(k))
    /\ \A k \in Crons, i \in Ids :
        /\ SF_vars(task[k].ent.id = i /\ ProbeCname(k, TRUE))
        /\ SF_vars(task[k].ent.id = i /\ ProbeTxt(k, TRUE))

FairSpec == Spec /\ Fairness

-----------------------------------------------------------------------------
(***************************************************************************)
(* Safety, whatever the tenants do.                                        *)
(***************************************************************************)

\* A hostname has at most one active row over all the projects, although every
\* writer looks first and writes later, and a stale save can bring a removed
\* row back.
OneActiveOwner ==
    \A i, j \in Active : rows[i].host = rows[j].host => i = j

\* No row is verified that no probe has seen proved: the CNAME, and the token
\* if the row was given one, whatever was removed, registered or saved between.
VerifiedWasProved ==
    \A i \in Ids : rows[i].verified => i \in cnameSeen /\ (i \in issued => i \in txtSeen)

\* A verified row asks for no TXT record any more, and an unverified one still
\* has the challenge it was given: stale saves never tear the two apart.
ChallengeMatchesState ==
    \A i \in Ids : i \in issued => (rows[i].challenge <=> ~rows[i].verified)

(***************************************************************************)
(* The inductive invariant behind them.                                    *)
(***************************************************************************)

\* What holds of the content of row i wherever it is kept, in the table or in
\* the copy of a task that may save it back.
Sound(i, row) ==
    /\ row.verified => i \in cnameSeen /\ (i \in issued => i \in txtSeen)
    /\ row.challenge => i \in issued
    /\ i \in issued => (row.challenge <=> ~row.verified)

RowsSound ==
    \A i \in Ids : /\ Sound(i, rows[i])
                   /\ rows[i].state = "free" =>
                        i \notin issued /\ i \notin cnameSeen /\ ~rows[i].verified

Claimed(row) == <<row.host, row.project>>

\* A copy in use is of a row that exists, and neither its hostname nor its project is
\* ever changed.
CopySound(e) ==
    e.id \in Ids => /\ rows[e.id].state # "free" /\ e.row.state # "free"
                    /\ Claimed(e.row) = Claimed(rows[e.id])
                    /\ Sound(e.id, e.row)

\* A task's copies are sound, and its verdict is what it has seen.
TaskSound(k) ==
    LET t == task[k]
    IN  /\ CopySound(t.ent)
        /\ \A e \in t.queue : e.id \in Ids /\ CopySound(e)
        /\ t.pc \in {"resave", "remove", "cname", "txt", "update"} => t.ent.id \in Ids
        /\ t.pc = "insert" => /\ t.ent.id = NoId
                              /\ ~t.ent.row.verified
                              /\ t.ent.row.state = "active"
        /\ t.pc = "txt" => t.ent.id \in cnameSeen
        /\ t.pc = "update" /\ t.matched
              => t.ent.id \in cnameSeen /\ (t.ent.row.challenge => t.ent.id \in txtSeen)

IInv ==
    /\ TypeOK
    /\ OneActiveOwner
    /\ RowsSound
    /\ \A k \in Tasks : TaskSound(k)

(***************************************************************************)
(* Which steps may undo what was decided.                                  *)
(***************************************************************************)

\* No step but the save of a re-registration un-verifies a row in use: probes
\* only ever verify, whatever has happened to the row since they read it.
OnlyResavesUnverify ==
    [][\/ \A i \in Ids : rows[i].verified /\ rows'[i].state = "active" => rows'[i].verified
       \/ \E k \in Tasks : SaveMetadata(k)]_vars

\* No other step revives a removed row, which would take its host away from the
\* next owner: not the probe of a row removed while its DNS answers were due.
OnlyResavesRevive ==
    [][\/ \A i \in Ids : rows[i].state = "removed" => rows'[i].state = "removed"
       \/ \E k \in Tasks : SaveMetadata(k)]_vars

(***************************************************************************)
(* The table implements Ownership, tenant by tenant.                       *)
(***************************************************************************)
Evidence(i) == rows[i].state # "free" /\ i \in cnameSeen /\ (i \in issued => i \in txtSeen)

ClaimsOf(S) == {Claimed(rows[i]) : i \in S}

Held == ClaimsOf(Active)
Verified == ClaimsOf({i \in Active : rows[i].verified})
Evident == ClaimsOf({i \in Ids : Evidence(i)})

Promise == INSTANCE Ownership WITH held <- Held, verified <- Verified, proved <- Evident

\* However looks and writes of two tenants interleave, and whatever a stale save
\* brings back, a hostname goes from one tenant to another only by way of nobody, and
\* nobody's claim is verified before DNS has proved it to a probe.
ImplementsOwnership == Promise!Spec

(***************************************************************************)
(* Liveness, under FairSpec.                                               *)
(***************************************************************************)

\* A row whose records stay in place is verified without anybody asking: even if a
\* tick was aborted and dropped it with the rest of its queue, lookups failed, other
\* rows stay pending, another tick runs beside, and a stale save takes it back.
Proved(i) == rows[i].host \in cname /\ (rows[i].challenge => i \in txt)
EventuallyVerified ==
    \A i \in Ids : <>[](rows[i].state = "active" /\ Proved(i)) => []<>(rows[i].verified)

(***************************************************************************)
(* What comments and docs say and the code does not do.                    *)
(***************************************************************************)

\* "One-way": a verified domain never un-verifies while it is registered.
NeverUnverified ==
    [][\A i \in Ids : rows[i].verified /\ rows'[i].state = "active" => rows'[i].verified]_vars

\* "verify cron won't flip verified=true until it sees both the CNAME and the
\* TXT record", for a project that requires it.
TxtBeforeVerified ==
    \A i \in Ids : rows[i].verified /\ rows[i].project \in TxtProjects => i \in txtSeen
=============================================================================
