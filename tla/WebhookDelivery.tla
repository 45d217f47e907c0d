--------------------------- MODULE WebhookDelivery ---------------------------
(***************************************************************************)
(* What a project is told about its domain: DomainVerifyService.probeOne   *)
(* announces the first success and the first failure of a probe, the       *)
(* WebhookDispatcherService signs the event and sends it until it is       *)
(* answered, on timers that live in memory only.  The receiver is a server *)
(* that checks signatures with the SDK (verifyHeeSignature).               *)
(*                                                                         *)
(* One domain of one project.  Which DNS records a probe wants is the      *)
(* subject of DomainRegistry; here a probe finds them or not, and requests *)
(* that save a whole stale copy of the row write beside it.  Time is       *)
(* relative: a delivery knows how long its timer has to run and the age of *)
(* its signature, counted up to the first age that is refused.             *)
(***************************************************************************)
EXTENDS Integers, FiniteSets

CONSTANTS
    Probers,     \* cron ticks and requests that probe the domain
    Requests,    \* those of them that may also save it
    Deliveries,  \* bound: calls of dispatch()
    Secrets,     \* what webhook_secret can hold
    NoSecret,    \* webhook_url or webhook_secret is null
    N,           \* the number of attempts
    retries,     \* the delay before each of them
    tolerance    \* toleranceSeconds of the SDK

ASSUME SecretsAssumption == NoSecret \notin Secrets
ASSUME ProbersAssumption == Requests \subseteq Probers
ASSUME DeliveriesAssumption == IsFiniteSet(Deliveries)
ASSUME RetriesAssumption ==
    /\ N \in Nat /\ N > 1 /\ retries \in [1..N -> Nat]
    /\ tolerance \in Nat
    /\ retries[N - 1] + retries[N] > tolerance

VARIABLES
    row,       \* the row in domains
    hook,      \* the project's webhook_secret, with its webhook_url
    task,      \* the local state of every probeOne() under way
    delivery,  \* the closures of dispatch() and attempt()
    metrics,   \* hee_webhook_deliveries_total, by result
    fate       \* history: what became of the latest verification by each prober

vars == <<row, hook, task, delivery, metrics, fate>>

-----------------------------------------------------------------------------
\* The columns that matter: failing stands for last_probe_error IS NOT NULL.
Row == [verified : BOOLEAN, failing : BOOLEAN, removed : BOOLEAN]

Verdicts == {"firstVerify", "success", "firstProbeFailure", "failure"}

\* "editing": the row has been read by a request that will save its copy of it.
Task == [pc : {"idle", "probing", "judged", "saved", "editing"}, copy : Row,
         verdict : Verdicts]

NoCopy == [verified |-> FALSE, failing |-> FALSE, removed |-> FALSE]
Idle == [pc |-> "idle", copy |-> NoCopy, verdict |-> "failure"]

Results == {"success", "rejected", "exhausted"}

\* "looking": dispatch() reads the project; "waiting": the timer runs; "sent":
\* fetch() is under way; "ok", "refused", "busy": the answer is.
Answers == {"ok", "refused", "busy"}
Open == {"looking", "waiting", "sent"} \cup Answers
States == {"none", "dropped", "gone"} \cup Open \cup Results

TooOld == tolerance + 1

\* taken is the attempt at which the receiver took the event in, or 0.  Which event
\* it is makes no difference to its delivery.
Delivery == [state : States, secret : Secrets \cup {NoSecret}, attempt : 0..N,
             wait : Nat, age : 0..TooOld, taken : 0..N]

NoDelivery == [state |-> "none", secret |-> NoSecret, attempt |-> 0, wait |-> 0,
               age |-> 0, taken |-> 0]

TypeOK ==
    /\ row \in Row
    /\ hook \in Secrets \cup {NoSecret}
    /\ task \in [Probers -> Task]
    /\ delivery \in [Deliveries -> Delivery]
    /\ metrics \in [Results -> Nat]
    /\ fate \in [Probers -> {"none", "stands", "undone"}]

NoCounts == [r \in Results |-> 0]

\* What is left of a delivery when its closure is gone.
Ended(state) == [NoDelivery EXCEPT !.state = state]

Init ==
    /\ row = NoCopy
    /\ hook \in Secrets \cup {NoSecret}
    /\ task = [k \in Probers |-> Idle]
    /\ delivery = [d \in Deliveries |-> NoDelivery]
    /\ metrics = NoCounts
    /\ fate = [k \in Probers |-> "none"]

-----------------------------------------------------------------------------
(***************************************************************************)
(* probeOne().                                                             *)
(***************************************************************************)
Unused == {d \in Deliveries : delivery[d].state = "none"}
Probing == {k \in Probers : task[k].pc \in {"probing", "judged", "saved"}}

\* Bound: a probe or a save starts only while there is a delivery left for what one
\* more probe may announce.
Room == Cardinality(Probing) < Cardinality(Unused)

\* tick() or diagnose() has read the row.
StartProbe(k) ==
    /\ task[k].pc = "idle"
    /\ ~row.removed
    /\ Room
    /\ task' = [task EXCEPT ![k] = [Idle EXCEPT !.pc = "probing", !.copy = row]]
    /\ UNCHANGED <<row, hook, delivery, metrics, fate>>

\* Mutant of Verdict: every success counts as the first.
VerdictOfAny(copy, matched) == IF matched THEN "firstVerify" ELSE "firstProbeFailure"

\* Whether it is the first success, or the first failure, is decided on the copy.
Verdict(copy, matched) ==
    CASE matched /\ ~copy.verified -> "firstVerify"
      [] matched /\ copy.verified -> "success"
      [] ~matched /\ ~copy.verified /\ ~copy.failing -> "firstProbeFailure"
      [] ~matched /\ (copy.verified \/ copy.failing) -> "failure"

\* The lookups: the records are as they must be, or not, or DNS fails.
Judge(k) ==
    /\ task[k].pc = "probing"
    /\ \E matched \in BOOLEAN :
         task' = [task EXCEPT ![k] = [Idle EXCEPT !.pc = "judged",
                                        !.verdict = Verdict(task[k].copy, matched)]]
    /\ UNCHANGED <<row, hook, delivery, metrics, fate>>

\* domains.update(), of the row with this id, removed or not.
Update(k) ==
    LET verdict == task[k].verdict
    IN  /\ row' = [row EXCEPT !.verified = @ \/ verdict = "firstVerify",
                              !.failing = verdict \in {"firstProbeFailure", "failure"}]
        /\ fate' = [fate EXCEPT ![k] = IF verdict = "firstVerify" THEN "stands" ELSE @]

Save(k) ==
    /\ task[k].pc = "judged"
    /\ Update(k)
    /\ task' = [task EXCEPT ![k].pc = "saved"]
    /\ UNCHANGED <<hook, delivery, metrics>>

Dispatch(d) == delivery' = [delivery EXCEPT ![d] = [NoDelivery EXCEPT !.state = "looking"]]

\* Mutant of Announce: the webhook is fired before the update.
AnnounceEarly(k) ==
    /\ task[k].pc \in {"judged", "saved"}
    /\ \/ /\ task[k].verdict \in {"firstVerify", "firstProbeFailure"}
          /\ \E d \in Unused : Dispatch(d)
       \/ /\ task[k].verdict \in {"success", "failure"}
          /\ UNCHANGED delivery
    /\ task' = [task EXCEPT ![k] = Idle]
    /\ fate' = [fate EXCEPT ![k] = IF @ = "undone" THEN "none" ELSE @]
    /\ UNCHANGED <<row, hook, metrics>>

\* "Fire webhooks after the DB commit", without awaiting them.
Announce(k) ==
    /\ task[k].pc = "saved"
    /\ \/ /\ task[k].verdict \in {"firstVerify", "firstProbeFailure"}
          /\ \E d \in Unused : Dispatch(d)
       \/ /\ task[k].verdict \in {"success", "failure"}
          /\ UNCHANGED delivery
    /\ task' = [task EXCEPT ![k] = Idle]
    /\ fate' = [fate EXCEPT ![k] = IF @ = "undone" THEN "none" ELSE @]
    /\ UNCHANGED <<row, hook, metrics>>

\* An await throws, the update's perhaps after it took effect: the probe announces
\* nothing.
ProbeThrows(k) ==
    /\ task[k].pc = "judged"
    /\ Update(k) \/ UNCHANGED <<row, fate>>
    /\ task' = [task EXCEPT ![k] = Idle]
    /\ UNCHANGED <<hook, delivery, metrics>>

-----------------------------------------------------------------------------
(***************************************************************************)
(* The other writers of the row.                                           *)
(***************************************************************************)

\* register() and registerDomain() of a domain that the project has, and the
\* portal's removeDomain(), find the row.
Edit(k) ==
    /\ task[k].pc = "idle"
    /\ ~row.removed
    /\ Room
    /\ task' = [task EXCEPT ![k] = [Idle EXCEPT !.pc = "editing", !.copy = row]]
    /\ UNCHANGED <<row, hook, delivery, metrics, fate>>

\* They save the whole copy, with other metadata or with removed_at: what a probe
\* has written in the meantime is undone.
Resave(k) ==
    /\ task[k].pc = "editing"
    /\ \E removed \in BOOLEAN : row' = [task[k].copy EXCEPT !.removed = removed]
    /\ fate' = [j \in Probers |->
                  IF fate[j] # "stands" \/ row'.verified THEN fate[j]
                  ELSE IF task[j].pc = "saved" THEN "undone" ELSE "none"]
    /\ task' = [task EXCEPT ![k] = Idle]
    /\ UNCHANGED <<hook, delivery, metrics>>

\* The index on active hostnames, or the database, refuses the save.
EditFails(k) ==
    /\ task[k].pc = "editing"
    /\ task' = [task EXCEPT ![k] = Idle]
    /\ UNCHANGED <<row, hook, delivery, metrics, fate>>

\* The API's removal names its column.
Remove ==
    /\ ~row.removed
    /\ row' = [row EXCEPT !.removed = TRUE]
    /\ UNCHANGED <<hook, task, delivery, metrics, fate>>

-----------------------------------------------------------------------------
(***************************************************************************)
(* dispatch() and attempt().                                               *)
(***************************************************************************)

\* setTimeout(), for attempt i.
Scheduled(x, i) == [x EXCEPT !.state = "waiting", !.attempt = i, !.wait = retries[i]]

\* The project has a webhook: sign once, for all attempts, and set the first timer.
LookUp(d) ==
    /\ delivery[d].state = "looking"
    /\ delivery' = [delivery EXCEPT ![d] =
                      IF hook = NoSecret THEN Ended("dropped")
                      ELSE Scheduled([@ EXCEPT !.secret = hook], 1)]
    /\ UNCHANGED <<row, hook, task, metrics, fate>>

\* The query fails: dispatch() rejects, and its caller swallows that.
LookUpFails(d) ==
    /\ delivery[d].state = "looking"
    /\ delivery' = [delivery EXCEPT ![d] = Ended("dropped")]
    /\ UNCHANGED <<row, hook, task, metrics, fate>>

\* The timer fires.
Send(d) ==
    /\ delivery[d].state = "waiting" /\ delivery[d].wait = 0
    /\ delivery' = [delivery EXCEPT ![d].state = "sent"]
    /\ UNCHANGED <<row, hook, task, metrics, fate>>

\* attempt() finds no delay for a further attempt, or the answer is final.
Close(d, result) ==
    /\ delivery' = [delivery EXCEPT ![d] = Ended(result)]
    /\ metrics' = [metrics EXCEPT ![result] = @ + 1]

\* Mutant of TryAgain: the same attempt is made again.
TryAgainForever(d) ==
    /\ delivery' = [delivery EXCEPT ![d] = Scheduled(@, @.attempt)]
    /\ UNCHANGED metrics

\* attempt(attempt + 1): the next timer, or the end.
TryAgain(d) ==
    IF delivery[d].attempt = N THEN Close(d, "exhausted")
    ELSE /\ delivery' = [delivery EXCEPT ![d] = Scheduled(@, @.attempt + 1)]
         /\ UNCHANGED metrics

\* Mutant of Verify: the age is not looked at.
VerifyAnyAge(x) == x.secret = hook

\* verifyHeeSignature(), with the secret the receiver shares with the project.
Verify(x) == x.secret = hook /\ x.age <= tolerance

\* The request arrives.  A receiver takes in what verifies, keyed by the event:
\* once.  Whatever else it does, it may say that it is busy or that it refuses.
Arrive(d) ==
    /\ delivery[d].state = "sent"
    /\ \E answer \in Answers :
         /\ answer = "ok" => Verify(delivery[d])
         /\ delivery' = [delivery EXCEPT ![d].state = answer,
                           ![d].taken = IF answer = "ok" /\ @ = 0
                                        THEN delivery[d].attempt ELSE @]
    /\ UNCHANGED <<row, hook, task, metrics, fate>>

\* fetch() returns: success, a 4xx other than 429, or anything else.
Answered(d) ==
    /\ \/ delivery[d].state = "ok" /\ Close(d, "success")
       \/ delivery[d].state = "refused" /\ Close(d, "rejected")
       \/ delivery[d].state = "busy" /\ TryAgain(d)
    /\ UNCHANGED <<row, hook, task, fate>>

\* fetch() throws: the request was lost, or its answer.
FetchThrows(d) ==
    /\ delivery[d].state \in {"sent"} \cup Answers
    /\ TryAgain(d)
    /\ UNCHANGED <<row, hook, task, fate>>

-----------------------------------------------------------------------------
(***************************************************************************)
(* The world around.                                                       *)
(***************************************************************************)
Older(x) == [x EXCEPT !.wait = IF @ > 0 THEN @ - 1 ELSE 0,
                      !.age = IF @ < TooOld THEN @ + 1 ELSE @]
Signed(x) == x.state \in Open \ {"looking"}

\* Time passes for every delivery that is signed.
Tick ==
    /\ \E d \in Deliveries : Signed(delivery[d])
    /\ delivery' = [d \in Deliveries |->
                      IF Signed(delivery[d]) THEN Older(delivery[d]) ELSE delivery[d]]
    /\ UNCHANGED <<row, hook, task, metrics, fate>>

\* An operator sets or rotates the project's secret, at the receiver too.
Configure ==
    /\ hook' \in Secrets \cup {NoSecret}
    /\ hook' # hook
    /\ UNCHANGED <<row, task, delivery, metrics, fate>>

\* Probes, timers and counters are gone with the process.
Crash ==
    /\ task' = [k \in Probers |-> Idle]
    /\ delivery' = [d \in Deliveries |-> IF delivery[d].state = "none" THEN NoDelivery
                                         ELSE Ended("gone")]
    /\ metrics' = NoCounts
    /\ task # task' \/ delivery # delivery'
    /\ fate' = [k \in Probers |-> IF fate[k] = "undone" THEN "none" ELSE fate[k]]
    /\ UNCHANGED <<row, hook>>

-----------------------------------------------------------------------------
Probe(k) == StartProbe(k) \/ Judge(k) \/ Save(k) \/ Announce(k) \/ ProbeThrows(k)

Rewrite(k) == Edit(k) \/ Resave(k) \/ EditFails(k)

Deliver(d) ==
    \/ LookUp(d) \/ LookUpFails(d) \/ Send(d)
    \/ Arrive(d) \/ Answered(d) \/ FetchThrows(d)

Next ==
    \/ \E k \in Probers : Probe(k)
    \/ \E k \in Requests : Rewrite(k)
    \/ \E d \in Deliveries : Deliver(d)
    \/ Tick
    \/ Configure \/ Remove \/ Crash

\* node runs its timers and continuations, queries are answered or fail, and
\* fetch() gives up on a silent peer (undici's default timeouts).
Fairness ==
    /\ WF_vars(Tick)
    /\ \A d \in Deliveries : WF_vars(Deliver(d))

Spec == Init /\ [][Next]_vars /\ Fairness

-----------------------------------------------------------------------------
(***************************************************************************)
(* Safety.                                                                 *)
(***************************************************************************)

\* "Fire webhooks after the DB commit so receivers see state consistent with
\* what /v1/edge/domains would return": whoever tells that the domain is verified
\* has itself committed that, and the row says so still, unless a stale save has
\* slipped in between the commit and the announcement.
ToldOfCommitted ==
    [][\A k \in Probers :
         Announce(k) /\ task[k].verdict = "firstVerify" =>
            \/ fate[k] = "stands" /\ row.verified
            \/ fate[k] = "undone"]_vars

\* Overlapping probes verify and announce the same domain more than once, but each
\* of them once: a verification that stands, announced or lost in a crash, is not
\* repeated by the prober that made it, until a stale save has undone it.
VerifiedOnceEach ==
    [][\A k \in Probers :
         (Save(k) \/ ProbeThrows(k)) /\ task[k].verdict = "firstVerify" => fate[k] # "stands"]_vars

\* The delays and the tolerance of the SDK together: an event is taken in at one
\* of the first N - 1 attempts or never, for the last attempt carries a signature
\* too old for the SDK, whenever it is sent.
LastAttemptIsFutile == \A d \in Deliveries : delivery[d].taken < N

\* Each delivery that is over was counted once, under its result.
Counted ==
    \A r \in Results :
        metrics[r] = Cardinality({d \in Deliveries : delivery[d].state = r})

\* A result is final: no attempt follows it, and no second result.
ResultsAreFinal ==
    [][\A d \in Deliveries :
         delivery[d].state \in Results \cup {"dropped"} =>
            delivery'[d].state \in {delivery[d].state, "gone"}]_vars

\* Whatever happens to a delivery takes it nearer to its end, over N requests at
\* most, although answers get lost and receivers may be busy for ever.
Left(x) ==
    CASE x.state = "none" -> 3 * N + 3
      [] x.state = "looking" -> 3 * N + 2
      [] x.state = "waiting" -> 3 * (N - x.attempt) + 4
      [] x.state = "sent" -> 3 * (N - x.attempt) + 3
      [] x.state \in Answers -> 3 * (N - x.attempt) + 2
      [] x.state \in Results \cup {"dropped"} -> 1
      [] x.state = "gone" -> 0
AttemptsRunOut ==
    [][\A d \in Deliveries :
         /\ Left(delivery'[d]) <= Left(delivery[d])
         /\ delivery'[d].state # delivery[d].state => Left(delivery'[d]) < Left(delivery[d])]_vars

\* The inductive invariant behind them.  A probe announces what it has saved, and
\* what it has saved stands or a stale save has undone it; the age of a signature is
\* at least the delays its attempt has waited for.
TaskSound(k) ==
    /\ task[k].pc = "saved" /\ task[k].verdict = "firstVerify" => fate[k] # "none"
    /\ fate[k] = "stands" =>
         /\ row.verified
         /\ task[k].pc = "probing" => task[k].copy.verified
         /\ task[k].pc = "judged" => task[k].verdict # "firstVerify"

Waited(i) == IF i > 1 THEN retries[i - 1] + retries[i] ELSE retries[i]

Aged(x) ==
    Signed(x) => /\ x.attempt \in 1..N
                 /\ x.age + x.wait >= TooOld \/ x.age + x.wait >= Waited(x.attempt)
                 /\ x.state # "waiting" => x.wait = 0

IInv ==
    /\ TypeOK
    /\ Counted
    /\ LastAttemptIsFutile
    /\ \A k \in Probers : TaskSound(k)
    /\ \A d \in Deliveries : Aged(delivery[d])

(***************************************************************************)
(* Liveness.                                                               *)
(***************************************************************************)

\* Every event that was announced is delivered, given up, or lost with the process.
EveryDeliverySettles ==
    \A d \in Deliveries :
        delivery[d].state = "looking" ~> delivery[d].state \in {"dropped", "gone"} \cup Results

(***************************************************************************)
(* What a comment says and the code does not do.                           *)
(***************************************************************************)

\* "... receivers see state consistent with what /v1/edge/domains would return":
\* no domain is announced as verified that the table shows unverified.
ConsistentWithTheEdge ==
    [][\A k \in Probers :
         Announce(k) /\ task[k].verdict = "firstVerify" => row.verified]_vars
=============================================================================
