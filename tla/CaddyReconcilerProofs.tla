----------------------- MODULE CaddyReconcilerProofs -----------------------
(***************************************************************************)
(* CaddyReconciler's invariants hold, and it implements RouteSync, for any *)
(* handlers, runs and bounds, whether POSTs can outlive their senders or   *)
(* not.                                                                    *)
(***************************************************************************)
EXTENDS CaddyReconciler, TLAPS

USE CallersAssumption, RunsAssumption, LatePostsAssumption, BoundsAssumption

LEMMA InitInv == Init => IInv
BY DEF Init, IInv, TypeOK, SingleFlight, NobodyStranded, ReadsBetween, PushesAdvance,
       NothingUncommitted, Given, Versions, Zero, Tables, Config, Run, Off, Call, Idle, Callers, Upto, AllRead, Unread

\* A write moves one table one version on.
LEMMA WriteGrows ==
    ASSUME TypeOK, NEW t \in Tables, Write(t)
    PROVE  /\ db' \in Versions
           /\ unparsable' \in SUBSET Nat
           /\ Upto(db, db')
<1>1. db \in [Tables -> Nat] /\ unparsable \in SUBSET Nat
  BY DEF TypeOK, Versions
<1>2. db' = [db EXCEPT ![t] = @ + 1] /\ db[t] + 1 \in Nat
  BY <1>1 DEF Write
<1>3. db' \in Versions
  BY <1>1, <1>2 DEF Versions
<1>4. unparsable' \in SUBSET Nat
  BY <1>1, <1>2 DEF Write
<1>5. Upto(db, db')
  BY <1>1, <1>2 DEF Upto
<1> QED BY <1>3, <1>4, <1>5

LEMMA UptoRefl == ASSUME NEW a \in Versions PROVE Upto(a, a)
BY DEF Upto, Versions

\* Growing versions keep what is not newer than them.
LEMMA UptoTrans ==
    ASSUME NEW a \in Versions, NEW b \in Versions, NEW c \in Versions,
           Upto(a, b), Upto(b, c)
    PROVE  Upto(a, c)
BY DEF Upto, Versions

\* What the edge was given, or may still be given, are versions.
LEMMA GivenTypes == ASSUME TypeOK PROVE Given \subseteq Versions
BY DEF TypeOK, Given, Config

\* Given depends on published and late only.
LEMMA GivenStays ==
    ASSUME UNCHANGED <<published, late>> PROVE Given' = Given
BY DEF Given

\* A write changes nothing the invariant says of runs and callers, whatever it
\* does to the state of one caller that awaits nothing.
LEMMA WriteInv ==
    ASSUME IInv, NEW t \in Tables, Write(t), call' \in [Callers -> Call],
           \A c \in Callers : call'[c].on = call[c].on
                             /\ (call'[c].pc = "waiting" <=> call[c].pc = "waiting"),
           UNCHANGED <<control, inflight, runs, edge, late, loads, crashes, published>>
    PROVE  IInv'
<1>1. db \in Versions /\ db' \in Versions /\ unparsable' \in SUBSET Nat /\ Upto(db, db')
  BY WriteGrows DEF IInv, TypeOK
<1>2. TypeOK'
  BY <1>1 DEF IInv, TypeOK
<1>3. SingleFlight'
  BY DEF IInv, SingleFlight
<1>4. NobodyStranded'
  BY DEF IInv, NobodyStranded
<1>5. ReadsBetween'
  <2> SUFFICES ASSUME NEW r \in Runs
               PROVE  /\ Upto(runs[r].since, db')
                      /\ runs[r].pc = "posting" => AllRead(r)
                      /\ \A u \in Tables : runs[r].read[u] # Unread
                            => /\ runs[r].since[u] <= runs[r].read[u]
                               /\ runs[r].read[u] <= db'[u]
    BY DEF ReadsBetween, AllRead
  <2>1. runs[r] \in Run
    BY DEF IInv, TypeOK
  <2>2. Upto(runs[r].since, db')
    BY <1>1, <2>1, UptoTrans DEF IInv, ReadsBetween, Run
  <2>3. \A u \in Tables : runs[r].read[u] \in Nat \cup {Unread} /\ db[u] \in Nat
                          /\ db'[u] \in Nat /\ db[u] <= db'[u]
    BY <1>1, <2>1 DEF Run, Versions, Upto
  <2> QED BY <2>2, <2>3 DEF IInv, ReadsBetween, Unread
<1>6. PushesAdvance'
  <2>1. \A g \in Given : Upto(g, db')
    BY <1>1, GivenTypes, UptoTrans DEF IInv, PushesAdvance
  <2> QED BY <2>1, GivenStays DEF IInv, PushesAdvance
<1>7. NothingUncommitted'
  BY <1>1, UptoTrans DEF IInv, TypeOK, Config, NothingUncommitted
<1> QED BY <1>2, <1>3, <1>4, <1>5, <1>6, <1>7 DEF IInv

\* A call of reconcile(), joining or starting a run, keeps the invariant.
LEMMA ReconcileInv ==
    ASSUME IInv, NEW c \in Callers, Reconcile(c),
           control' \in {"down", "booting", "up"},
           UNCHANGED <<db, unparsable, edge, late, loads, crashes, published>>
    PROVE  IInv'
<1> USE DEF IInv
<1>1. CASE Join(c)
  <2>1. /\ inflight \in Runs /\ UNCHANGED <<inflight, runs>>
        /\ call' = [call EXCEPT ![c] = [pc |-> "waiting", on |-> inflight, asked |-> db]]
    BY <1>1 DEF Join, Await, TypeOK
  <2>2. TypeOK'
    BY <2>1 DEF TypeOK, Call
  <2>3. SingleFlight'
    BY <2>1 DEF SingleFlight
  <2>4. NobodyStranded'
    BY <2>1 DEF NobodyStranded, TypeOK
  <2>5. ReadsBetween' /\ PushesAdvance' /\ NothingUncommitted'
    BY <2>1, GivenStays DEF ReadsBetween, PushesAdvance, AllRead, NothingUncommitted
  <2> QED BY <2>2, <2>3, <2>4, <2>5
<1>2. CASE Start(c)
  <2>1. PICK r \in Runs :
          /\ inflight = NoRun /\ inflight' = r
          /\ runs' = [runs EXCEPT ![r] = [Off EXCEPT !.pc = "reading", !.since = db]]
          /\ call' = [call EXCEPT ![c] = [pc |-> "waiting", on |-> r, asked |-> db]]
    BY <1>2 DEF Start, Await
  <2> DEFINE new == [Off EXCEPT !.pc = "reading", !.since = db]
  <2>2. /\ new \in Run /\ new.pc = "reading" /\ new.since = db
        /\ \A t \in Tables : new.read[t] = Unread
    BY DEF Run, Off, Zero, Versions, Unread, TypeOK
  <2>3. runs' = [runs EXCEPT ![r] = new]
    BY <2>1
  <2>4. \A q \in Runs : runs'[q] = IF q = r THEN new ELSE runs[q]
    BY <2>3 DEF TypeOK
  <2> HIDE DEF new
  <2>5. TypeOK'
    BY <2>1, <2>2, <2>3 DEF TypeOK, Call
  <2>6. SingleFlight'
    BY <2>1, <2>2, <2>4 DEF SingleFlight
  <2>7. NobodyStranded'
    BY <2>1 DEF NobodyStranded, TypeOK
  <2>8. ReadsBetween'
    BY <2>1, <2>2, <2>4, UptoRefl DEF ReadsBetween, AllRead, TypeOK
  <2>9. PushesAdvance' /\ NothingUncommitted'
    BY <2>1, <2>2, <2>4, GivenStays DEF PushesAdvance, NothingUncommitted
  <2> QED BY <2>5, <2>6, <2>7, <2>8, <2>9
<1> QED BY <1>1, <1>2 DEF Reconcile

\* A step that only moves one run on, to another phase than "off".
LEMMA RunMovesInv ==
    ASSUME IInv, NEW r \in Runs, NEW new \in Run,
           runs' = [runs EXCEPT ![r] = new],
           runs[r].pc # "off", new.pc # "off", new.since = runs[r].since,
           new.pc = "reading" => runs[r].pc = "reading",
           new.pc = "posting" => /\ runs[r].pc = "reading"
                                 /\ \A t \in Tables : new.read[t] # Unread,
           \A t \in Tables : new.read[t] \in {runs[r].read[t], db[t]},
           UNCHANGED <<db, inflight, call>>,
           unparsable' \in SUBSET Nat, control' \in {"down", "booting", "up"},
           edge' \in Config, late' \in SUBSET Config,
           loads' \in Nat, crashes' \in Nat, published' \in Versions,
           ~LatePosts => late' = {},
           Given' = Given \/ new.pc = "settling",
           \A g \in Given' : Upto(g, db),
           Upto(edge'.table, db)
    PROVE  IInv'
<1> USE DEF IInv
<1>1. \A q \in Runs : runs'[q] = IF q = r THEN new ELSE runs[q]
  BY DEF TypeOK
<1>2. TypeOK'
  BY DEF TypeOK
<1>3. SingleFlight'
  BY <1>1 DEF SingleFlight
<1>4. NobodyStranded'
  BY DEF NobodyStranded
<1>5. ReadsBetween'
  <2>1. \A t \in Tables : runs[r].since[t] <= db[t] /\ db[t] <= db[t]
    BY DEF ReadsBetween, Upto, TypeOK, Versions
  <2> QED BY <1>1, <2>1 DEF ReadsBetween, AllRead
<1>6. PushesAdvance'
  <2>1. \A q \in Runs : q # r => runs[q].pc = "off"
    BY DEF SingleFlight
  <2>2. new.pc \in {"reading", "posting"} =>
          Given' = Given /\ runs[r].pc \in {"reading", "posting"}
    OBVIOUS
  <2> QED BY <1>1, <2>1, <2>2 DEF PushesAdvance
<1>7. NothingUncommitted'
  BY DEF NothingUncommitted
<1> QED BY <1>2, <1>3, <1>4, <1>5, <1>6, <1>7

\* What a POST of run r installs, when the run has read both tables.
LEMMA BodyFresh ==
    ASSUME IInv, NEW r \in Runs, runs[r].pc = "posting"
    PROVE  /\ Body(r) \in Config
           /\ Upto(Body(r).table, db)
           /\ \A g \in Given : Upto(g, Body(r).table)
<1>1. runs[r] \in Run /\ db \in Versions
  BY DEF IInv, TypeOK
<1>2. \A t \in Tables : /\ runs[r].read[t] \in Nat
                        /\ runs[r].since[t] <= runs[r].read[t]
                        /\ runs[r].read[t] <= db[t]
  BY <1>1 DEF IInv, ReadsBetween, AllRead, Run
<1>3. runs[r].read \in Versions
  BY <1>1, <1>2 DEF Run, Versions
<1>4. Body(r) \in Config /\ Upto(Body(r).table, db)
  BY <1>1, <1>2, <1>3 DEF Body, Config, Upto, Run
<1>5. Upto(runs[r].since, runs[r].read) /\ runs[r].since \in Versions
  BY <1>1, <1>2 DEF Upto, Run
<1>6. \A g \in Given : Upto(g, runs[r].read)
  BY <1>3, <1>5, GivenTypes, UptoTrans DEF IInv, PushesAdvance
<1> QED BY <1>4, <1>6 DEF Body

LEMMA InstallTypes ==
    ASSUME NEW body \in Config, published \in Versions, Install(body)
    PROVE  edge' = body /\ published' \in Versions /\ published' \in {published, body.table}
BY DEF Install, Config

\* Applying a POST of run r gives the edge nothing but its body.
LEMMA PushInv ==
    ASSUME IInv, NEW r \in Runs, runs[r].pc = "posting", Install(Body(r)), UNCHANGED late
    PROVE  /\ edge' \in Config /\ published' \in Versions
           /\ Upto(edge'.table, db)
           /\ \A g \in Given' : Upto(g, db)
<1>1. /\ edge' = Body(r) /\ published' \in Versions
      /\ published' \in {published, Body(r).table}
  BY BodyFresh, InstallTypes DEF IInv, TypeOK
<1>2. Given' \subseteq Given \cup {Body(r).table}
  BY <1>1 DEF Given
<1> QED BY <1>1, <1>2, BodyFresh DEF IInv, PushesAdvance

\* Giving up on a POST of run r adds its body to what may still arrive.
LEMMA GiveUpInv ==
    ASSUME IInv, NEW r \in Runs, runs[r].pc = "posting",
           late' = late \cup {Body(r)}, UNCHANGED published
    PROVE  /\ late' \in SUBSET Config
           /\ \A g \in Given' : Upto(g, db)
<1>1. Given' = Given \cup {Body(r).table}
  BY DEF Given
<1> QED BY <1>1, BodyFresh DEF IInv, TypeOK, PushesAdvance

LEMMA RunStepInv ==
    ASSUME IInv, NEW r \in Runs, RunStep(r)
    PROVE  IInv'
<1> USE DEF IInv
<1>1. runs[r] \in Run /\ db \in Versions
  BY DEF TypeOK
<1>2. ASSUME NEW t \in Tables, ReadTable(r, t) PROVE IInv'
  <2> DEFINE new == [runs[r] EXCEPT !.read[t] = db[t]]
  <2>1. runs' = [runs EXCEPT ![r] = new]
    BY <1>2 DEF ReadTable, TypeOK
  <2>2. /\ new \in Run /\ new.pc = "reading" /\ new.since = runs[r].since
        /\ \A u \in Tables : new.read[u] \in {runs[r].read[u], db[u]}
    BY <1>1, <1>2 DEF ReadTable, Run, Versions
  <2> HIDE DEF new
  <2> QED BY <1>2, <2>1, <2>2, RunMovesInv, GivenStays
          DEF ReadTable, TypeOK, PushesAdvance, NothingUncommitted
<1>3. CASE GetServer(r)
  <2> DEFINE new == [runs[r] EXCEPT !.pc = "posting", !.foreign = edge.foreign]
  <2>1. runs' = [runs EXCEPT ![r] = new]
    BY <1>3 DEF GetServer, TypeOK
  <2>2. /\ new \in Run /\ new.pc = "posting" /\ new.since = runs[r].since
        /\ new.read = runs[r].read
    BY <1>1, <1>3 DEF GetServer, Run, TypeOK, Config
  <2>3. /\ runs[r].pc = "reading" /\ \A t \in Tables : new.read[t] # Unread
        /\ UNCHANGED <<db, unparsable, control, inflight, call, edge, late, loads, crashes, published>>
    BY <1>3, <2>2 DEF GetServer, AllRead
  <2> HIDE DEF new
  <2> QED BY <2>1, <2>2, <2>3, RunMovesInv, GivenStays
          DEF TypeOK, PushesAdvance, NothingUncommitted
<1>4. CASE ThrowBeforePost(r)
  <2> DEFINE new == [runs[r] EXCEPT !.pc = "settling"]
  <2>1. runs' = [runs EXCEPT ![r] = new]
    BY <1>4 DEF ThrowBeforePost, TypeOK
  <2>2. /\ new \in Run /\ new.pc = "settling" /\ new.since = runs[r].since
        /\ new.read = runs[r].read
    BY <1>1 DEF Run
  <2> HIDE DEF new
  <2> QED BY <1>4, <2>1, <2>2, RunMovesInv, GivenStays
          DEF ThrowBeforePost, TypeOK, PushesAdvance, NothingUncommitted
<1>5. CASE PostApplied(r)
  <2>1. PICK ok \in BOOLEAN :
          runs' = [runs EXCEPT ![r].pc = "settling", ![r].ok = ok]
    BY <1>5 DEF PostApplied
  <2> DEFINE new == [runs[r] EXCEPT !.pc = "settling", !.ok = ok]
  <2>2. runs' = [runs EXCEPT ![r] = new]
    BY <2>1 DEF TypeOK
  <2>3. /\ new \in Run /\ new.pc = "settling" /\ new.since = runs[r].since
        /\ new.read = runs[r].read
    BY <1>1 DEF Run
  <2>4. /\ edge' \in Config /\ published' \in Versions
        /\ Upto(edge'.table, db)
        /\ \A g \in Given' : Upto(g, db)
    BY <1>5, PushInv DEF PostApplied
  <2> HIDE DEF new
  <2> QED BY <1>5, <2>2, <2>3, <2>4, RunMovesInv DEF PostApplied, TypeOK, PushesAdvance
<1>6. CASE PostFails(r)
  <2> DEFINE new == [runs[r] EXCEPT !.pc = "settling"]
  <2>1. runs' = [runs EXCEPT ![r] = new]
    BY <1>6 DEF PostFails, TypeOK
  <2>2. /\ new \in Run /\ new.pc = "settling" /\ new.since = runs[r].since
        /\ new.read = runs[r].read
    BY <1>1 DEF Run
  <2>3. /\ late' \in SUBSET Config /\ (~LatePosts => late' = {})
        /\ \A g \in Given' : Upto(g, db)
    <3>1. CASE UNCHANGED late
      BY <1>6, <3>1, GivenStays DEF PostFails, TypeOK, PushesAdvance
    <3>2. CASE LatePosts /\ late' = late \cup {Body(r)}
      BY <1>6, <3>2, GiveUpInv DEF PostFails
    <3> QED BY <1>6, <3>1, <3>2 DEF PostFails
  <2> HIDE DEF new
  <2> QED BY <1>6, <2>1, <2>2, <2>3, RunMovesInv DEF PostFails, TypeOK, NothingUncommitted
<1>7. CASE Settle(r)
  <2>1. /\ inflight = r /\ inflight' = NoRun /\ runs' = [runs EXCEPT ![r] = Off]
        /\ \A q \in Runs : q # r => runs[q].pc = "off"
        /\ call' = [c \in Callers |-> IF call[c].on = r THEN Idle ELSE call[c]]
    BY <1>7 DEF Settle, SingleFlight
  <2>2. /\ Off \in Run /\ Off.pc = "off" /\ Off.since = Zero
        /\ \A t \in Tables : Off.read[t] = Unread
    BY DEF Run, Off, Zero, Versions, Unread
  <2>3. Idle \in Call
    BY DEF Idle, Call, Zero, Versions
  <2>4. \A q \in Runs : runs'[q] = IF q = r THEN Off ELSE runs[q]
    BY <2>1 DEF TypeOK
  <2>5. TypeOK'
    BY <1>7, <2>1, <2>2, <2>3 DEF TypeOK, Settle
  <2>6. SingleFlight'
    BY <2>1, <2>2, <2>4 DEF SingleFlight
  <2>7. NobodyStranded'
    BY <2>1 DEF NobodyStranded, Idle
  <2>8. ReadsBetween'
    BY <1>1, <1>7, <2>2, <2>4 DEF ReadsBetween, AllRead, Settle, Upto, Zero, Versions
  <2>9. PushesAdvance' /\ NothingUncommitted'
    BY <1>7, <2>2, <2>4, GivenStays DEF PushesAdvance, NothingUncommitted, Settle
  <2> QED BY <2>5, <2>6, <2>7, <2>8, <2>9
<1> QED BY <1>2, <1>3, <1>4, <1>5, <1>6, <1>7 DEF RunStep

\* The process forgets everything: no run, no caller.
LEMMA CrashInv == ASSUME IInv, Crash PROVE IInv'
<1> USE DEF IInv
<1>1. /\ inflight' = NoRun /\ runs' = [r \in Runs |-> Off]
      /\ call' = [c \in Callers |-> Idle] /\ control' = "down" /\ crashes' \in Nat
      /\ UNCHANGED <<db, unparsable, loads>>
  BY DEF Crash, TypeOK
<1>2. /\ Off \in Run /\ Off.pc = "off" /\ Off.since = Zero
      /\ \A t \in Tables : Off.read[t] = Unread
  BY DEF Run, Off, Zero, Versions, Unread
<1>3. Idle \in Call
  BY DEF Idle, Call, Zero, Versions
<1>4. /\ edge' \in Config /\ late' \in SUBSET Config /\ published' \in Versions
      /\ ~LatePosts => late' = {}
      /\ Upto(edge'.table, db) /\ \A g \in Given' : Upto(g, db)
  <2>1. CASE UNCHANGED <<edge, published, late>>
    BY <2>1, GivenStays DEF TypeOK, PushesAdvance, NothingUncommitted
  <2>2. CASE (\E r \in Posting : Install(Body(r))) /\ UNCHANGED late
    BY <2>2, PushInv DEF Posting, TypeOK, PushesAdvance
  <2>3. CASE /\ LatePosts /\ late' = late \cup {Body(r) : r \in Posting}
             /\ UNCHANGED <<edge, published>>
    <3>1. CASE Posting = {}
      BY <2>3, <3>1, GivenStays DEF TypeOK, PushesAdvance, NothingUncommitted
    <3>2. ASSUME NEW r \in Posting
          PROVE  late' \in SUBSET Config /\ \A g \in Given' : Upto(g, db)
      <4>1. r \in Runs /\ runs[r].pc = "posting" /\ Posting = {r}
        BY DEF Posting, SingleFlight
      <4>2. late' = late \cup {Body(r)}
        BY <2>3, <4>1
      <4> QED BY <2>3, <4>1, <4>2, GiveUpInv
    <3> QED BY <2>3, <3>1, <3>2 DEF TypeOK, NothingUncommitted
  <2> QED BY <2>1, <2>2, <2>3 DEF Crash
<1>5. TypeOK'
  BY <1>1, <1>2, <1>3, <1>4 DEF TypeOK
<1>6. SingleFlight'
  BY <1>1, <1>2 DEF SingleFlight
<1>7. NobodyStranded'
  BY <1>1 DEF NobodyStranded, Idle
<1>8. ReadsBetween'
  BY <1>1, <1>2 DEF ReadsBetween, AllRead, Upto, Zero, TypeOK, Versions
<1>9. PushesAdvance' /\ NothingUncommitted'
  BY <1>1, <1>2, <1>4 DEF PushesAdvance, NothingUncommitted
<1> QED BY <1>5, <1>6, <1>7, <1>8, <1>9

\* Caddy and its operator touch neither runs nor callers.
LEMMA CaddyStepInv == ASSUME IInv, CaddyStep PROVE IInv'
<1> USE DEF IInv
<1>1. UNCHANGED <<db, unparsable, control, inflight, runs, call, crashes>>
  BY DEF CaddyStep, CaddyfileLoad, LatePost
<1>2. /\ edge' \in Config /\ late' \in SUBSET Config /\ loads' \in Nat
      /\ published' \in Versions
      /\ ~LatePosts => late' = {}
      /\ Given' \subseteq Given
      /\ Upto(edge'.table, db)
  <2>1. CASE CaddyfileLoad
    BY <2>1, GivenStays
       DEF CaddyfileLoad, TypeOK, Config, Zero, Versions, PushesAdvance, Upto
  <2>2. ASSUME NEW body \in late, LatePost(body)
        PROVE  /\ edge' \in Config /\ late' \in SUBSET Config
               /\ UNCHANGED loads /\ published' \in Versions
               /\ late # {} /\ Given' \subseteq Given
               /\ Upto(edge'.table, db)
    <3>1. body \in Config /\ body.table \in Given /\ late' \subseteq late
      BY <2>2 DEF LatePost, TypeOK, Given
    <3>2. /\ edge' = body /\ published' \in Versions
          /\ published' \in {published, body.table}
      BY <2>2, <3>1, InstallTypes DEF LatePost, TypeOK
    <3>3. Given' \subseteq Given
      BY <3>1, <3>2 DEF Given
    <3> QED BY <2>2, <3>1, <3>2, <3>3 DEF LatePost, TypeOK, PushesAdvance
  <2> QED BY <2>1, <2>2 DEF CaddyStep, TypeOK, PushesAdvance
<1>3. TypeOK'
  BY <1>1, <1>2 DEF TypeOK
<1>4. SingleFlight' /\ NobodyStranded' /\ ReadsBetween'
  BY <1>1 DEF SingleFlight, NobodyStranded, ReadsBetween, AllRead
<1>5. PushesAdvance' /\ NothingUncommitted'
  BY <1>1, <1>2 DEF PushesAdvance, NothingUncommitted
<1> QED BY <1>3, <1>4, <1>5

LEMMA StepInv == IInv /\ [Next]_vars => IInv'
<1> SUFFICES ASSUME IInv, [Next]_vars PROVE IInv'
  OBVIOUS
<1> USE DEF IInv
<1>1. ASSUME NEW c \in Handlers, Commit(c) PROVE IInv'
  <2>1. PICK t \in Tables : Write(t)
    BY <1>1 DEF Commit
  <2>2. /\ call' = [call EXCEPT ![c].pc = "committed"] /\ call[c].pc = "idle"
        /\ UNCHANGED <<control, inflight, runs, edge, late, loads, crashes, published>>
    BY <1>1 DEF Commit
  <2>3. call' \in [Callers -> Call]
    BY <2>2 DEF TypeOK, Call
  <2>4. \A d \in Callers : /\ call'[d].on = call[d].on
                           /\ call'[d].pc = "waiting" <=> call[d].pc = "waiting"
    BY <2>2 DEF TypeOK, Call
  <2> QED BY <2>1, <2>2, <2>3, <2>4, WriteInv
<1>2. ASSUME NEW c \in Handlers, HandlerReconciles(c) PROVE IInv'
  BY <1>2, ReconcileInv DEF HandlerReconciles, Callers, TypeOK
<1>3. CASE QuietCommit
  BY <1>3, WriteInv DEF QuietCommit, TypeOK
<1>4. CASE DriftCheck
  BY <1>4, ReconcileInv DEF DriftCheck, Callers, TypeOK
<1>5. CASE BootReconcile
  BY <1>5, ReconcileInv DEF BootReconcile, Callers
<1>6. CASE BootSkip
  BY <1>6, GivenStays DEF BootSkip, TypeOK, SingleFlight, NobodyStranded, ReadsBetween,
                          PushesAdvance, NothingUncommitted, AllRead
<1>7. ASSUME NEW r \in Runs, RunStep(r) PROVE IInv'
  BY <1>7, RunStepInv
<1>8. CASE CaddyStep
  BY <1>8, CaddyStepInv
<1>9. CASE Crash
  BY <1>9, CrashInv
<1>10. CASE UNCHANGED vars
  BY <1>10, GivenStays DEF vars, TypeOK, SingleFlight, NobodyStranded, ReadsBetween,
                           PushesAdvance, NothingUncommitted, AllRead
<1> QED BY <1>1, <1>2, <1>3, <1>4, <1>5, <1>6, <1>7, <1>8, <1>9, <1>10
        DEF Next, HandlerStep, BootStep

\* The invariant holds in every reachable state, whatever the numbers of
\* handlers and runs and whatever the bounds.
THEOREM Invariance == Spec => []IInv
<1> QED BY InitInv, StepInv, PTL DEF Spec

\* Types, for every instance.
THEOREM TypeCorrect == Spec => []TypeOK
<1>1. IInv => TypeOK
  BY DEF IInv
<1> QED BY <1>1, Invariance, PTL

\* reconcile() never lets two runs of doReconcile() overlap.
THEOREM ReconcileIsSingleFlight == Spec => []SingleFlight
<1>1. IInv => SingleFlight
  BY DEF IInv
<1> QED BY <1>1, Invariance, PTL

\* Whoever awaits reconcile() awaits the run in flight.
THEOREM CallersAwaitTheRunInFlight == Spec => []NobodyStranded
<1>1. IInv => NobodyStranded
  BY DEF IInv
<1> QED BY <1>1, Invariance, PTL

\* A run pushes at least what was committed when it started.
THEOREM StartersAreServed == Spec => []StarterServed
<1>1. IInv => StarterServed
  BY DEF IInv, ReadsBetween, StarterServed, AllRead, Upto
<1> QED BY <1>1, Invariance, PTL

\* No customer route is built from rows that were not committed.
THEOREM OnlyCommittedRows == Spec => []NothingUncommitted
<1>1. IInv => NothingUncommitted
  BY DEF IInv
<1> QED BY <1>1, Invariance, PTL

-----------------------------------------------------------------------------
\* The body of a POST under way may be pushed, for RouteSync.
LEMMA BodyPushable ==
    ASSUME IInv, NEW r \in Runs, runs[r].pc = "posting"
    PROVE  Sync!Pushable(Body(r).table)
<1>1. Body(r).table \in Sync!Versions
  BY BodyFresh DEF Config, Versions, Tables, Sync!Versions, Sync!Tables
<1> QED BY <1>1, BodyFresh DEF Sync!Pushable, Sync!Upto, Sync!Tables, Upto, Tables, Given

\* A POST that is applied publishes.
LEMMA PushPublishes ==
    ASSUME IInv, NEW r \in Runs, runs[r].pc = "posting", Install(Body(r)), UNCHANGED <<db, late>>
    PROVE  Sync!Publish
<1>1. Upto(published, Body(r).table)
  BY BodyFresh DEF Given
<1>2. edge'.table = Body(r).table /\ published' = Body(r).table
  BY <1>1 DEF Install
<1> QED BY <1>2, BodyPushable DEF Sync!Publish

\* A POST that is given up on may still arrive.
LEMMA GiveUpRefines ==
    ASSUME IInv, NEW r \in Runs, runs[r].pc = "posting",
           late' = late \cup {Body(r)}, UNCHANGED <<db, edge, published>>
    PROVE  Sync!GiveUp
BY BodyPushable DEF Sync!GiveUp

\* Every step of the reconciler is a commit, a publication of newer rows, the
\* arrival of a POST given up on, a loss of the routes, or nothing, for RouteSync.
LEMMA StepRefines ==
    ASSUME IInv, [Next]_vars
    PROVE  [Sync!SyncNext]_(Sync!syncVars)
<1> USE DEF Sync!SyncNext, Sync!syncVars
<1>1. ASSUME NEW t \in Tables, Write(t), UNCHANGED <<edge, published, late>>
      PROVE  Sync!Commit
  BY <1>1 DEF Sync!Commit, Sync!Tables, Tables, Write
<1>2. ASSUME UNCHANGED <<db, edge, published, late>> PROVE UNCHANGED Sync!syncVars
  BY <1>2
<1>3. CASE HandlerStep
  <2>1. ASSUME NEW c \in Handlers, Commit(c) PROVE Sync!Commit
    BY <1>1, <2>1 DEF Commit
  <2>2. ASSUME NEW c \in Handlers, HandlerReconciles(c) PROVE UNCHANGED Sync!syncVars
    BY <1>2, <2>2 DEF HandlerReconciles
  <2> QED BY <1>3, <2>1, <2>2 DEF HandlerStep
<1>4. CASE QuietCommit
  BY <1>1, <1>4 DEF QuietCommit
<1>5. CASE DriftCheck
  BY <1>2, <1>5 DEF DriftCheck
<1>6. CASE BootStep
  BY <1>2, <1>6 DEF BootStep, BootReconcile, BootSkip
<1>7. ASSUME NEW r \in Runs, RunStep(r) PROVE [Sync!SyncNext]_(Sync!syncVars)
  <2>1. CASE PostApplied(r)
    BY <2>1, PushPublishes DEF PostApplied
  <2>2. CASE PostFails(r)
    <3>1. CASE UNCHANGED late
      BY <1>2, <2>2, <3>1 DEF PostFails
    <3>2. CASE late' = late \cup {Body(r)}
      BY <2>2, <3>2, GiveUpRefines DEF PostFails
    <3> QED BY <2>2, <3>1, <3>2 DEF PostFails
  <2>3. CASE ~PostApplied(r) /\ ~PostFails(r)
    BY <1>2, <1>7, <2>3 DEF RunStep, ReadTable, GetServer, ThrowBeforePost, Settle
  <2> QED BY <2>1, <2>2, <2>3
<1>8. CASE CaddyfileLoad
  <2>1. edge'.table = Zero /\ UNCHANGED <<db, published, late>>
    BY <1>8 DEF CaddyfileLoad
  <2>2. Sync!Wipe
    BY <2>1 DEF Sync!Wipe, Sync!Zero, Sync!Tables, Zero, Tables
  <2> QED BY <2>2
<1>9. ASSUME NEW body \in late, LatePost(body) PROVE Sync!Belated
  <2>1. /\ edge' = body /\ late' = late \ {body} /\ UNCHANGED db
        /\ published' = IF Upto(published, body.table) THEN body.table ELSE published
    BY <1>9 DEF LatePost, Install
  <2> DEFINE sent == {b.table : b \in late}
  <2>2. {b.table : b \in late'} \in {sent, sent \ {body.table}}
    <3>1. {b.table : b \in late'} \subseteq sent
      BY <2>1
    <3>2. sent \ {body.table} \subseteq {b.table : b \in late'}
      BY <2>1
    <3> QED BY <3>1, <3>2
  <2> QED BY <2>1, <2>2 DEF Sync!Belated, Sync!Upto, Sync!Tables, Upto, Tables
<1>10. CASE Crash
  <2>1. CASE UNCHANGED <<edge, published, late>>
    BY <1>2, <1>10, <2>1 DEF Crash
  <2>2. CASE UNCHANGED late /\ \E r \in Posting : Install(Body(r))
    BY <1>10, <2>2, PushPublishes DEF Crash, Posting
  <2>3. CASE UNCHANGED <<edge, published>> /\ late' = late \cup {Body(r) : r \in Posting}
    <3>1. CASE Posting = {}
      BY <1>2, <1>10, <2>3, <3>1 DEF Crash
    <3>2. ASSUME NEW r \in Posting PROVE Sync!GiveUp
      <4>1. r \in Runs /\ runs[r].pc = "posting" /\ Posting = {r}
        BY DEF Posting, IInv, SingleFlight
      <4> QED BY <1>10, <2>3, <4>1, GiveUpRefines DEF Crash
    <3> QED BY <3>1, <3>2
  <2> QED BY <1>10, <2>1, <2>2, <2>3 DEF Crash
<1>11. CASE UNCHANGED vars
  BY <1>2, <1>11 DEF vars
<1> QED BY <1>3, <1>4, <1>5, <1>6, <1>7, <1>8, <1>9, <1>10, <1>11 DEF Next, CaddyStep

\* The edge only ever serves committed rows and never goes back to older ones,
\* unless a POST that was given up on arrives after all: whatever fails, crashes,
\* is reloaded or comes late, the reconciler implements RouteSync.
THEOREM Refinement == Spec => ImplementsRouteSync
<1>1. Init => Sync!SyncInit
  BY DEF Init, Sync!SyncInit, Sync!Zero, Sync!Tables, Zero, Tables
<1>2. IInv /\ [Next]_vars => [Sync!SyncNext]_(Sync!syncVars)
  BY StepRefines
<1> QED BY <1>1, <1>2, Invariance, PTL DEF Spec, ImplementsRouteSync, Sync!SyncSpec

\* Where no POST outlives its sender, routes are replaced by newer ones only.
ForwardOnly == [][Upto(published, published') /\ edge'.table \in {edge.table, Zero, published'}]_vars
THEOREM NeverBackwards == ASSUME ~LatePosts PROVE Spec => ForwardOnly
<1>1. ASSUME IInv, [Next]_vars
      PROVE  [Upto(published, published') /\ edge'.table \in {edge.table, Zero, published'}]_vars
  <2>1. [Sync!SyncNext]_(Sync!syncVars)
    BY <1>1, StepRefines
  <2>2. late = {} /\ published \in Versions
    BY <1>1 DEF IInv, PushesAdvance, TypeOK
  <2>3. CASE Sync!Publish
    BY <2>3 DEF Sync!Publish, Sync!Pushable, Sync!Upto, Sync!Tables, Upto, Tables
  <2>4. CASE ~Sync!Publish
    <3>1. UNCHANGED published /\ edge'.table \in {edge.table, Zero}
      BY <2>1, <2>2, <2>4 DEF Sync!SyncNext, Sync!syncVars, Sync!Commit, Sync!GiveUp, Sync!Belated,
                   Sync!Wipe, Sync!Zero, Sync!Tables, Zero, Tables
    <3> QED BY <2>2, <3>1, UptoRefl
  <2> QED BY <2>3, <2>4
<1> QED BY <1>1, Invariance, PTL DEF Spec, ForwardOnly

\* A server object comes to the edge, or to be POSTed, or to arrive late, only from
\* where one was before.
LEMMA ObjectsAreCopied ==
    ASSUME IInv, [Next]_vars, ~CaddyfileLoad
    PROVE  /\ edge' \in {edge} \cup late \cup {Body(r) : r \in Posting}
           /\ late' \subseteq late \cup {Body(r) : r \in Posting}
           /\ \A r \in Posting' : \/ runs'[r].foreign = edge.foreign
                                  \/ r \in Posting /\ runs'[r].foreign = runs[r].foreign
           /\ UNCHANGED loads
<1> DEFINE P == /\ edge' \in {edge} \cup late \cup {Body(r) : r \in Posting}
                /\ late' \subseteq late \cup {Body(r) : r \in Posting}
                /\ \A r \in Posting' :
                     \/ runs'[r].foreign = edge.foreign
                     \/ r \in Posting /\ runs'[r].foreign = runs[r].foreign
                /\ UNCHANGED loads
<1> USE DEF Posting
<1>1. runs \in [Runs -> Run]
  BY DEF IInv, TypeOK
<1>2. ASSUME UNCHANGED <<edge, late, loads>>,
             \A r \in Runs : runs'[r].pc = "posting" => runs'[r] = runs[r]
      PROVE  P
  BY <1>2
<1>3. ASSUME NEW c \in Callers, Reconcile(c), UNCHANGED <<edge, late, loads>> PROVE P
  BY <1>1, <1>2, <1>3 DEF Reconcile, Join, Start, Off
<1>4. CASE HandlerStep
  BY <1>2, <1>3, <1>4 DEF HandlerStep, Commit, HandlerReconciles, Callers
<1>5. CASE QuietCommit \/ DriftCheck \/ BootStep
  BY <1>2, <1>3, <1>5 DEF QuietCommit, DriftCheck, BootStep, BootReconcile, BootSkip, Callers
<1>6. ASSUME NEW q \in Runs, RunStep(q) PROVE P
  <2>1. ASSUME NEW t \in Tables, ReadTable(q, t) PROVE P
    BY <1>1, <1>2, <2>1 DEF ReadTable, Run
  <2>2. CASE GetServer(q)
    <3> DEFINE new == [runs[q] EXCEPT !.pc = "posting", !.foreign = edge.foreign]
    <3>1. runs' = [runs EXCEPT ![q] = new] /\ UNCHANGED <<edge, late, loads>>
      BY <1>1, <2>2 DEF GetServer
    <3>2. new.foreign = edge.foreign
      BY <1>1 DEF Run
    <3>3. \A r \in Runs : runs'[r] = IF r = q THEN new ELSE runs[r]
      BY <1>1, <3>1
    <3> HIDE DEF new
    <3>4. ASSUME NEW r \in Posting'
          PROVE  \/ runs'[r].foreign = edge.foreign
                 \/ r \in Posting /\ runs'[r].foreign = runs[r].foreign
      BY <3>2, <3>3
    <3> QED BY <3>1, <3>4
  <2>3. CASE ThrowBeforePost(q) \/ Settle(q)
    <3>1. UNCHANGED <<edge, late, loads>>
      BY <2>3 DEF ThrowBeforePost, Settle
    <3>2. \A r \in Runs : runs'[r].pc = "posting" => runs'[r] = runs[r]
      BY <1>1, <2>3 DEF ThrowBeforePost, Settle, Off, Run
    <3> QED BY <1>2, <3>1, <3>2
  <2>4. CASE PostApplied(q) \/ PostFails(q)
    <3>1. /\ q \in Posting /\ UNCHANGED loads
          /\ edge' \in {edge, Body(q)} /\ late' \subseteq late \cup {Body(q)}
      BY <2>4 DEF PostApplied, PostFails, Install
    <3>2. \A r \in Runs : runs'[r].pc = "posting" => runs'[r] = runs[r]
      BY <1>1, <2>4 DEF PostApplied, PostFails, Run
    <3> QED BY <3>1, <3>2
  <2> QED BY <1>6, <2>1, <2>2, <2>3, <2>4 DEF RunStep
<1>7. ASSUME NEW body \in late, LatePost(body) PROVE P
  BY <1>7 DEF LatePost, Install
<1>8. CASE Crash
  BY <1>8 DEF Crash, Install, Off
<1>9. CASE UNCHANGED vars
  BY <1>2, <1>9 DEF vars
<1> QED BY <1>4, <1>5, <1>6, <1>7, <1>8, <1>9 DEF Next, CaddyStep

\* Only a run or a late POST that had fetched the server object before a Caddyfile
\* was loaded brings the older one back.
THEOREM LoadedCaddyfileStays == Spec => CaddyfileStays
<1> DEFINE Stays == /\ Current /\ loads' = loads => Current'
                    /\ loads' # loads /\ Posting = {} /\ late = {} => Current'
<1>1. ASSUME IInv, [Next]_vars PROVE [Stays]_vars
  <2>1. CASE CaddyfileLoad
    <3>1. /\ loads' = loads + 1 /\ loads \in Nat /\ edge'.foreign = loads'
          /\ UNCHANGED <<runs, late>>
      BY <1>1, <2>1 DEF CaddyfileLoad, IInv, TypeOK
    <3> QED BY <3>1 DEF Current, Posting
  <2>2. CASE ~CaddyfileLoad
    BY <1>1, <2>2, ObjectsAreCopied DEF Current, Body
  <2> QED BY <2>1, <2>2
<1> QED BY <1>1, Invariance, PTL DEF Spec, CaddyfileStays
=============================================================================
