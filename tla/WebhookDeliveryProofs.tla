------------------------ MODULE WebhookDeliveryProofs ------------------------
(***************************************************************************)
(* What is announced was committed, by each prober once while it stands,   *)
(* its delivery is counted once, and it is never taken in at the last      *)
(* attempt: for any probes and saves, any number of deliveries, and any    *)
(* delays the last two of which exceed the tolerance.                      *)
(***************************************************************************)
EXTENDS WebhookDelivery, FiniteSetTheorems, TLAPS

USE SecretsAssumption, ProbersAssumption, RetriesAssumption

LEMMA Constants ==
    /\ NoDelivery \in Delivery /\ NoDelivery.state = "none" /\ Aged(NoDelivery)
    /\ Idle \in Task /\ Idle.pc = "idle"
    /\ tolerance \in Nat /\ TooOld \in Nat
BY DEF NoDelivery, Delivery, States, Open, Results, Answers, TooOld, Idle, NoCopy, Task, Row, Verdicts,
   Aged, Signed

\* What every delivery is, one by one.
Sound(x) == x \in Delivery /\ Aged(x) /\ x.taken < N

LEMMA EndedIsSound ==
    ASSUME NEW s \in Results \cup {"dropped", "gone"}
    PROVE  Sound(Ended(s)) /\ Ended(s).state = s
BY Constants DEF Ended, NoDelivery, Sound, Delivery, States, Open, Results, Answers, Aged, Signed

LEMMA Delays ==
    ASSUME NEW i \in 1..N
    PROVE  /\ retries[i] \in Nat /\ Waited(i) \in Nat /\ Waited(i) >= retries[i]
           /\ i > 1 => Waited(i) = retries[i - 1] + retries[i]
<1>1. i > 1 => retries[i - 1] \in Nat
  OBVIOUS
<1> QED BY <1>1 DEF Waited

LEMMA NextDelay ==
    ASSUME NEW i \in 1..N, i # N
    PROVE  i + 1 \in 2..N /\ i + 1 \in 1..N /\ i + 1 \in 0..N
OBVIOUS

LEMMA ScheduledIs ==
    ASSUME NEW x \in Delivery, NEW i \in 0..N, retries[i] \in Nat
    PROVE  LET y == Scheduled(x, i)
           IN  /\ y \in Delivery /\ y.state = "waiting" /\ y.taken = x.taken
               /\ y.age = x.age /\ y.attempt = i /\ y.wait = retries[i]
<1>1. "waiting" \in States
  BY DEF States, Open
<1> QED BY <1>1 DEF Scheduled, Delivery

\* A first attempt, and one that follows another, have waited for their delays.
LEMMA FirstAttempt ==
    ASSUME NEW x \in Delivery, NEW secret \in Secrets
    PROVE  LET y == Scheduled([x EXCEPT !.secret = secret], 1)
           IN  /\ y \in Delivery /\ Aged(y)
               /\ y.state = "waiting" /\ y.taken = x.taken
<1> DEFINE z == [x EXCEPT !.secret = secret]
           y == Scheduled(z, 1)
<1>1. retries[1] \in Nat /\ 1 \in 1..N /\ 1 \in 0..N
  OBVIOUS
<1>2. /\ y \in Delivery /\ y.state = "waiting" /\ y.taken = x.taken
      /\ y.age = x.age /\ y.attempt = 1 /\ y.wait = retries[1] /\ x.age \in Nat
  <2>1. z \in Delivery /\ z.taken = x.taken /\ z.age = x.age
    BY DEF Delivery
  <2>2. x.age \in Nat
    BY Constants DEF Delivery
  <2> HIDE DEF z
  <2> QED BY <1>1, <2>1, <2>2, ScheduledIs
<1> HIDE DEF y
<1>3. Aged(y)
  BY <1>1, <1>2, Constants DEF Aged, Waited
<1> QED BY <1>2, <1>3 DEF y

LEMMA NextAttempt ==
    ASSUME NEW x \in Delivery, Aged(x), Signed(x), x.state # "waiting", x.attempt # N
    PROVE  LET y == Scheduled(x, x.attempt + 1)
           IN  /\ y \in Delivery /\ Aged(y)
               /\ y.state = "waiting" /\ y.taken = x.taken
<1> DEFINE i == x.attempt
           y == Scheduled(x, i + 1)
<1>1. i \in 1..N /\ x.wait = 0 /\ x.age \in Nat
  BY Constants DEF Aged, Delivery
<1>2. i + 1 \in 2..N /\ i + 1 \in 0..N /\ retries[i] \in Nat /\ retries[i + 1] \in Nat
  <2>1. i + 1 \in 2..N /\ i + 1 \in 1..N /\ i + 1 \in 0..N
    BY <1>1, NextDelay
  <2> HIDE DEF i, y
  <2> QED BY <1>1, <2>1, Delays
<1>3. /\ y \in Delivery /\ y.state = "waiting" /\ y.taken = x.taken
      /\ y.age = x.age /\ y.attempt = i + 1 /\ y.wait = retries[i + 1]
  BY <1>2, ScheduledIs
<1>4. x.age >= TooOld \/ x.age >= retries[i]
  <2>1. x.age >= TooOld \/ x.age >= Waited(i)
    BY <1>1, Constants DEF Aged
  <2>2. Waited(i) \in Nat /\ Waited(i) >= retries[i]
    BY <1>1, Delays
  <2> HIDE DEF i
  <2> QED BY <1>1, <1>2, <2>1, <2>2, Constants
<1> HIDE DEF y
<1>5. Aged(y)
  <2>1. Waited(i + 1) = retries[i] + retries[i + 1]
    <3> HIDE DEF i
    <3>1. i + 1 \in 1..N /\ i + 1 > 1 /\ (i + 1) - 1 = i
      BY <1>1, <1>2
    <3> QED BY <3>1, Delays
  <2> HIDE DEF i
  <2> QED BY <1>1, <1>2, <1>3, <1>4, <2>1, Constants DEF Aged
<1> QED BY <1>3, <1>5 DEF y

LEMMA InitInv == Init => IInv
<1> SUFFICES ASSUME Init PROVE IInv
  OBVIOUS
<1>1. \A d \in Deliveries : delivery[d] = NoDelivery
  BY DEF Init
<1>2. TypeOK
  BY Constants DEF Init, TypeOK, Row, NoCopy, NoCounts
<1>3. Counted
  <2>1. ASSUME NEW r \in Results PROVE {d \in Deliveries : delivery[d].state = r} = {}
    BY <1>1, Constants DEF Results
  <2> QED BY <2>1, FS_EmptySet DEF Counted, Init, NoCounts
<1>4. LastAttemptIsFutile
  BY <1>1, Constants DEF LastAttemptIsFutile, NoDelivery
<1>5. \A k \in Probers : TaskSound(k)
  BY Constants DEF Init, TaskSound
<1>6. \A d \in Deliveries : Aged(delivery[d])
  BY <1>1, Constants
<1> QED BY <1>2, <1>3, <1>4, <1>5, <1>6 DEF IInv

-----------------------------------------------------------------------------
(***************************************************************************)
(* The counters.                                                           *)
(***************************************************************************)
In(r) == {d \in Deliveries : delivery[d].state = r}

\* Steps between states that are no results leave the counters alone.
LEMMA CountsStay ==
    ASSUME Counted, UNCHANGED metrics,
           \A d \in Deliveries : \/ delivery'[d].state = delivery[d].state
                                 \/ delivery[d].state \notin Results /\ delivery'[d].state \notin Results
    PROVE  Counted'
<1>1. \A r \in Results : In(r)' = In(r)
  BY DEF In
<1> QED BY <1>1 DEF Counted, In

\* The end of one delivery is counted once.
LEMMA CountsMove ==
    ASSUME TypeOK, Counted, NEW d \in Deliveries, delivery[d].state \notin Results,
           NEW s \in Results, Close(d, s)
    PROVE  Counted'
<1>1. /\ delivery'[d].state = s
      /\ \A e \in Deliveries \ {d} : delivery'[e] = delivery[e]
  BY DEF Close, TypeOK, Ended
<1>2. ASSUME NEW r \in Results PROVE metrics'[r] = Cardinality(In(r)')
  <2>1. IsFiniteSet(In(r))
    BY DeliveriesAssumption, FS_Subset DEF In
  <2>2. CASE r = s
    <3>1. In(r)' = In(r) \cup {d} /\ d \notin In(r)
      BY <1>1, <2>2 DEF In
    <3>2. metrics'[r] = metrics[r] + 1
      BY <2>2 DEF Close, TypeOK
    <3>3. Cardinality(In(r) \cup {d}) = Cardinality(In(r)) + 1
      BY <2>1, <3>1, FS_AddElement
    <3>4. metrics[r] = Cardinality(In(r))
      BY DEF Counted, In
    <3> QED BY <3>1, <3>2, <3>3, <3>4
  <2>3. CASE r # s
    <3>1. In(r)' = In(r)
      BY <1>1, <2>3 DEF In
    <3>2. metrics'[r] = metrics[r]
      BY <2>3 DEF Close, TypeOK
    <3> QED BY <3>1, <3>2 DEF Counted, In
  <2> QED BY <2>2, <2>3
<1> QED BY <1>2 DEF Counted, In

-----------------------------------------------------------------------------
(***************************************************************************)
(* One delivery.                                                           *)
(***************************************************************************)

\* What a step of delivery d does: it was announced, and it stays sound.
Steps(d) ==
    /\ delivery' = [delivery EXCEPT ![d] = delivery'[d]]
    /\ Sound(delivery'[d])
    /\ delivery[d].state # "none"

\* The next attempt has waited for two delays, or the delivery is over.
LEMMA TryAgainSteps ==
    ASSUME IInv, NEW d \in Deliveries, TryAgain(d),
           delivery[d].state \in {"sent"} \cup Answers
    PROVE  Steps(d) /\ Counted' /\ metrics' \in [Results -> Nat]
<1> DEFINE x == delivery[d]
<1>1. x \in Delivery /\ Aged(x) /\ x.taken < N /\ TypeOK /\ Counted
  BY DEF IInv, TypeOK, LastAttemptIsFutile
<1>2. Signed(x) /\ x.attempt \in 1..N /\ x.wait = 0 /\ x.state \notin Results
  BY <1>1 DEF Aged, Signed, Open, Answers, Results
<1>3. CASE x.attempt = N
  <2>1. Close(d, "exhausted")
    BY <1>3 DEF TryAgain
  <2>2. Counted'
    BY <1>1, <1>2, <2>1, CountsMove DEF Results
  <2>3. delivery'[d] = Ended("exhausted") /\ delivery' = [delivery EXCEPT ![d] = delivery'[d]]
    BY <1>1, <2>1 DEF Close, TypeOK
  <2>4. Steps(d)
    BY <1>1, <1>2, <2>3, EndedIsSound DEF Steps, Results, Signed, Open, Answers
  <2>5. metrics' \in [Results -> Nat]
    BY <1>1, <2>1 DEF Close, TypeOK, Results
  <2> QED BY <2>2, <2>4, <2>5
<1>4. CASE x.attempt # N
  <2> DEFINE y == Scheduled(x, x.attempt + 1)
  <2>1. /\ delivery' = [delivery EXCEPT ![d] = y] /\ delivery'[d] = y
        /\ UNCHANGED metrics
    BY <1>1, <1>4 DEF TryAgain, TypeOK
  <2>2. x.state # "waiting" /\ x.state # "none"
    BY DEF Answers
  <2>3. /\ y \in Delivery /\ Aged(y)
        /\ y.state = "waiting" /\ y.taken = x.taken
    BY <1>1, <1>2, <1>4, <2>2, NextAttempt
  <2>4. Counted'
    BY <1>1, <1>2, <2>1, <2>3, CountsStay DEF Results, TypeOK
  <2> QED BY <1>1, <2>1, <2>2, <2>3, <2>4 DEF Steps, Sound, TypeOK
<1> QED BY <1>3, <1>4

\* What verifies is too young to be the last attempt.
LEMMA VerifiedIsEarly ==
    ASSUME NEW x \in Delivery, Aged(x), Signed(x), x.wait = 0, Verify(x)
    PROVE  x.attempt < N
<1>1. x.age \in Nat /\ x.age <= tolerance /\ x.attempt \in 1..N
  BY Constants DEF Delivery, Verify, Aged
<1>2. x.age >= Waited(x.attempt)
  BY <1>1, Constants DEF Aged, TooOld
<1>3. SUFFICES ASSUME x.attempt = N PROVE FALSE
  BY <1>1
<1>4. Waited(N) = retries[N - 1] + retries[N]
  BY DEF Waited
<1> QED BY <1>1, <1>2, <1>3, <1>4

LEMMA DeliverSteps ==
    ASSUME IInv, NEW d \in Deliveries, Deliver(d)
    PROVE  Steps(d) /\ Counted' /\ metrics' \in [Results -> Nat] /\ UNCHANGED <<row, hook, task, fate>>
<1> DEFINE x == delivery[d]
<1>1. x \in Delivery /\ Aged(x) /\ x.taken < N /\ TypeOK /\ Counted
  BY DEF IInv, TypeOK, LastAttemptIsFutile
<1>2. ASSUME NEW y, delivery' = [delivery EXCEPT ![d] = y], UNCHANGED metrics,
             x.state \notin Results, y.state \notin Results
      PROVE  Counted' /\ delivery'[d] = y /\ metrics' \in [Results -> Nat]
  BY <1>1, <1>2, CountsStay DEF TypeOK
<1>3. CASE LookUp(d) \/ LookUpFails(d)
  <2>1. x.state = "looking" /\ UNCHANGED <<row, hook, task, metrics, fate>>
    BY <1>3 DEF LookUp, LookUpFails
  <2> DEFINE y == IF delivery'[d].state = "dropped" THEN Ended("dropped")
                  ELSE Scheduled([x EXCEPT !.secret = hook], 1)
  <2>2. hook \in Secrets => Scheduled([x EXCEPT !.secret = hook], 1).state = "waiting"
    BY <1>1, FirstAttempt
  <2>3. Ended("dropped").state = "dropped"
    BY DEF Ended
  <2>4. /\ delivery' = [delivery EXCEPT ![d] = y]
        /\ y = Ended("dropped") \/ (hook \in Secrets /\ y = Scheduled([x EXCEPT !.secret = hook], 1))
    BY <1>1, <1>3, <2>2, <2>3 DEF LookUp, LookUpFails, TypeOK
  <2> HIDE DEF y
  <2>5. Sound(y) /\ y.state \in {"dropped", "waiting"}
    BY <1>1, <2>4, EndedIsSound, FirstAttempt DEF Sound
  <2>6. Counted' /\ delivery'[d] = y /\ metrics' \in [Results -> Nat]
    BY <1>2, <2>1, <2>4, <2>5 DEF Results
  <2> QED BY <2>1, <2>4, <2>5, <2>6 DEF Steps
<1>4. CASE Send(d)
  <2> DEFINE y == [x EXCEPT !.state = "sent"]
  <2>1. /\ x.state = "waiting" /\ x.wait = 0 /\ delivery' = [delivery EXCEPT ![d] = y]
        /\ UNCHANGED <<row, hook, task, metrics, fate>>
    BY <1>1, <1>4 DEF Send, TypeOK, Delivery
  <2>2. y \in Delivery /\ y.taken = x.taken /\ y.state = "sent"
        /\ y.age = x.age /\ y.attempt = x.attempt /\ y.wait = x.wait
    BY <1>1 DEF Delivery, States, Open
  <2>3. Aged(y)
    BY <1>1, <2>1, <2>2 DEF Aged, Signed, Open
  <2>4. Counted' /\ delivery'[d] = y /\ metrics' \in [Results -> Nat]
    BY <1>2, <2>1, <2>2 DEF Results
  <2> QED BY <1>1, <2>1, <2>2, <2>3, <2>4 DEF Steps, Sound
<1>5. CASE Arrive(d)
  <2>1. PICK answer \in Answers :
          /\ answer = "ok" => Verify(x)
          /\ delivery' = [delivery EXCEPT ![d] = [x EXCEPT !.state = answer,
                            !.taken = IF answer = "ok" /\ x.taken = 0 THEN x.attempt ELSE x.taken]]
    BY <1>1, <1>5 DEF Arrive, TypeOK, Delivery
  <2> DEFINE y == [x EXCEPT !.state = answer,
                     !.taken = IF answer = "ok" /\ x.taken = 0 THEN x.attempt ELSE x.taken]
  <2>2. x.state = "sent" /\ UNCHANGED <<row, hook, task, metrics, fate>>
    BY <1>5 DEF Arrive
  <2>3. Signed(x) /\ x.wait = 0 /\ x.attempt \in 1..N
    BY <1>1, <2>2 DEF Aged, Signed, Open
  <2>4. y \in Delivery /\ y.state = answer
        /\ y.age = x.age /\ y.attempt = x.attempt /\ y.wait = x.wait
        /\ y.taken = IF answer = "ok" /\ x.taken = 0 THEN x.attempt ELSE x.taken
    BY <1>1, <2>3 DEF Delivery, States, Open
  <2>5. y.taken < N
    BY <1>1, <2>1, <2>3, <2>4, VerifiedIsEarly
  <2>6. Aged(y)
    BY <1>1, <2>2, <2>3, <2>4 DEF Aged, Signed, Open, Answers
  <2>7. Counted' /\ delivery'[d] = y /\ metrics' \in [Results -> Nat]
    BY <1>2, <2>1, <2>2, <2>4 DEF Results, Answers
  <2> QED BY <2>1, <2>2, <2>4, <2>5, <2>6, <2>7 DEF Steps, Sound
<1>6. CASE Answered(d) \/ FetchThrows(d)
  <2>1. UNCHANGED <<row, hook, task, fate>> /\ x.state \in {"sent"} \cup Answers
    BY <1>6 DEF Answered, FetchThrows, Answers
  <2>2. CASE TryAgain(d)
    BY <2>1, <2>2, TryAgainSteps
  <2>3. ASSUME NEW r \in Results, Close(d, r) PROVE Steps(d) /\ Counted' /\ metrics' \in [Results -> Nat]
    <3>1. Counted'
      BY <1>1, <2>1, <2>3, CountsMove DEF Results, Answers
    <3>2. delivery'[d] = Ended(r) /\ delivery' = [delivery EXCEPT ![d] = delivery'[d]]
      BY <1>1, <2>3 DEF Close, TypeOK
    <3>3. Steps(d)
      BY <1>1, <2>1, <3>2, EndedIsSound DEF Steps, Answers
    <3>4. metrics' \in [Results -> Nat]
      BY <1>1, <2>3 DEF Close, TypeOK
    <3> QED BY <3>1, <3>3, <3>4
  <2> QED BY <1>6, <2>1, <2>2, <2>3 DEF Answered, FetchThrows, Results
<1> QED BY <1>3, <1>4, <1>5, <1>6 DEF Deliver

-----------------------------------------------------------------------------
(***************************************************************************)
(* Every step.                                                             *)
(***************************************************************************)

\* IInv, when the deliveries and the probes are known to be in order.
LEMMA Assemble ==
    ASSUME row' \in Row, hook' \in Secrets \cup {NoSecret}, task' \in [Probers -> Task],
           delivery' \in [Deliveries -> Delivery], metrics' \in [Results -> Nat], Counted',
           fate' \in [Probers -> {"none", "stands", "undone"}],
           \A d \in Deliveries : Sound(delivery'[d]),
           \A k \in Probers : TaskSound(k)'
    PROVE  IInv'
BY DEF IInv, TypeOK, Sound, LastAttemptIsFutile

LEMMA Deliveries1 ==
    ASSUME IInv PROVE \A d \in Deliveries : Sound(delivery[d])
BY DEF IInv, TypeOK, Sound, LastAttemptIsFutile

LEMMA DeliverInv ==
    ASSUME IInv, NEW d \in Deliveries, Deliver(d) PROVE IInv'
<1>1. Steps(d) /\ Counted' /\ metrics' \in [Results -> Nat] /\ UNCHANGED <<row, hook, task, fate>>
  BY DeliverSteps
<1>2. delivery' = [delivery EXCEPT ![d] = delivery'[d]] /\ TypeOK
  BY <1>1 DEF Steps, IInv
<1>3. \A e \in Deliveries : Sound(delivery'[e])
  BY <1>1, <1>2, Deliveries1 DEF Steps, TypeOK
<1>4. \A k \in Probers : TaskSound(k)'
  BY <1>1 DEF IInv, TaskSound
<1>5. delivery' \in [Deliveries -> Delivery]
  BY <1>1, <1>2 DEF Steps, Sound, TypeOK
<1> QED BY <1>1, <1>2, <1>3, <1>4, <1>5, Assemble DEF TypeOK

\* What a step of prober k leaves alone, and what becomes of the row and the fates.
ProbeStep(k) ==
    /\ row' \in Row /\ (row.verified => row'.verified)
    /\ task' \in [Probers -> Task] /\ fate' \in [Probers -> {"none", "stands", "undone"}]
    /\ \A j \in Probers \ {k} : task'[j] = task[j] /\ fate'[j] = fate[j]
    /\ TaskSound(k)'

\* What a prober decides, it decides on a copy that is as verified as its fate; what
\* it commits stands.
LEMMA ProbeSteps ==
    ASSUME IInv, NEW k \in Probers, Probe(k) PROVE ProbeStep(k)
<1> DEFINE x == task[k]
<1>1. TypeOK /\ x \in Task /\ TaskSound(k)
  BY DEF IInv, TypeOK
<1>2. ASSUME NEW y \in Task, task' = [task EXCEPT ![k] = y]
      PROVE  /\ task' \in [Probers -> Task] /\ task'[k] = y
             /\ \A j \in Probers \ {k} : task'[j] = task[j]
  BY <1>1, <1>2 DEF TypeOK
<1>3. ASSUME Update(k)
      PROVE  /\ row' \in Row /\ (row.verified => row'.verified)
             /\ fate' \in [Probers -> {"none", "stands", "undone"}]
             /\ \A j \in Probers \ {k} : fate'[j] = fate[j]
             /\ x.verdict = "firstVerify" => row'.verified /\ fate'[k] = "stands"
             /\ x.verdict # "firstVerify" => fate'[k] = fate[k]
  <2> DEFINE v == row.verified \/ x.verdict = "firstVerify"
             f == x.verdict \in {"firstProbeFailure", "failure"}
             g == IF x.verdict = "firstVerify" THEN "stands" ELSE fate[k]
  <2>1. row' = [row EXCEPT !.verified = v, !.failing = f] /\ fate' = [fate EXCEPT ![k] = g]
    BY <1>1, <1>3 DEF Update, TypeOK, Row
  <2>2. /\ v \in BOOLEAN /\ f \in BOOLEAN /\ (row.verified => v)
        /\ x.verdict = "firstVerify" => v /\ g = "stands"
        /\ x.verdict # "firstVerify" => g = fate[k]
        /\ g \in {"none", "stands", "undone"}
    BY <1>1 DEF TypeOK
  <2> HIDE DEF v, f, g
  <2>3. row' \in Row /\ row'.verified = v
    BY <1>1, <2>1, <2>2 DEF TypeOK, Row
  <2> QED BY <1>1, <2>1, <2>2, <2>3 DEF TypeOK
<1>4. CASE StartProbe(k)
  <2> DEFINE y == [Idle EXCEPT !.pc = "probing", !.copy = row]
  <2>1. y \in Task /\ y.pc = "probing" /\ y.copy = row
    BY <1>1, Constants DEF Idle, Task, TypeOK
  <2> HIDE DEF y
  <2>2. task' = [task EXCEPT ![k] = y] /\ UNCHANGED <<row, fate>>
    BY <1>4 DEF StartProbe, y
  <2> QED BY <1>1, <1>2, <2>1, <2>2 DEF ProbeStep, TaskSound, TypeOK
<1>5. CASE Judge(k)
  <2>1. PICK b \in BOOLEAN :
          task' = [task EXCEPT ![k] = [Idle EXCEPT !.pc = "judged", !.verdict = Verdict(x.copy, b)]]
    BY <1>5 DEF Judge
  <2>2. /\ Verdict(x.copy, b) \in Verdicts
        /\ x.copy.verified => Verdict(x.copy, b) # "firstVerify"
    BY <1>1 DEF Verdict, Verdicts, Task, Row
  <2> DEFINE v == Verdict(x.copy, b)
             y == [Idle EXCEPT !.pc = "judged", !.verdict = v]
  <2>3. y \in Task /\ y.pc = "judged" /\ y.verdict = v
    <3> HIDE DEF v
    <3> QED BY <2>2, Constants DEF Idle, Task, v
  <2> HIDE DEF v, y
  <2>4. task' = [task EXCEPT ![k] = y] /\ UNCHANGED <<row, fate>> /\ x.pc = "probing"
    BY <1>5, <2>1 DEF Judge, v, y
  <2>5. x.copy.verified => v # "firstVerify"
    BY <2>2 DEF v
  <2> QED BY <1>1, <1>2, <2>3, <2>4, <2>5 DEF ProbeStep, TaskSound, TypeOK
<1>6. CASE Save(k)
  <2> DEFINE y == [x EXCEPT !.pc = "saved"]
  <2>1. y \in Task /\ y.pc = "saved" /\ y.verdict = x.verdict
    BY <1>1 DEF Task
  <2> HIDE DEF y
  <2>2. task' = [task EXCEPT ![k] = y] /\ Update(k) /\ x.pc = "judged"
    BY <1>1, <1>6 DEF Save, TypeOK, y
  <2> QED BY <1>1, <1>2, <1>3, <2>1, <2>2 DEF ProbeStep, TaskSound
<1>7. CASE Announce(k) \/ ProbeThrows(k)
  <2>1. /\ task' = [task EXCEPT ![k] = Idle]
        /\ \/ Update(k)
           \/ UNCHANGED <<row, fate>>
           \/ row' = row /\ fate' = [fate EXCEPT ![k] = IF @ = "undone" THEN "none" ELSE @]
    BY <1>7 DEF Announce, ProbeThrows
  <2>2. task'[k] = Idle /\ task' \in [Probers -> Task] /\ \A j \in Probers \ {k} : task'[j] = task[j]
    BY <1>2, <2>1, Constants
  <2>3. /\ row' \in Row /\ (row.verified => row'.verified)
        /\ fate' \in [Probers -> {"none", "stands", "undone"}]
        /\ \A j \in Probers \ {k} : fate'[j] = fate[j]
        /\ fate'[k] = "stands" => row'.verified
    <3>1. CASE Update(k)
      BY <1>1, <1>3, <3>1 DEF TaskSound
    <3>2. CASE UNCHANGED <<row, fate>>
      BY <1>1, <3>2 DEF TaskSound, TypeOK
    <3>3. CASE row' = row /\ fate' = [fate EXCEPT ![k] = IF @ = "undone" THEN "none" ELSE @]
      BY <1>1, <3>3 DEF TaskSound, TypeOK
    <3> QED BY <2>1, <3>1, <3>2, <3>3
  <2> QED BY <2>2, <2>3, Constants DEF ProbeStep, TaskSound
<1> QED BY <1>4, <1>5, <1>6, <1>7 DEF Probe

\* A probe announces at most one event, and leaves every other task as it was.
LEMMA ProbeInv ==
    ASSUME IInv, NEW k \in Probers, Probe(k) PROVE IInv'
<1>1. TypeOK /\ Counted /\ ProbeStep(k)
  BY ProbeSteps DEF IInv
<1>2. hook' = hook /\ metrics' = metrics
  BY DEF Probe, StartProbe, Judge, Save, Announce, ProbeThrows
<1>3. \A j \in Probers : TaskSound(j)'
  BY <1>1 DEF IInv, ProbeStep, TaskSound
<1>4. CASE UNCHANGED delivery
  <2>1. Counted'
    BY <1>1, <1>2, <1>4 DEF Counted
  <2> QED BY <1>1, <1>2, <1>3, <1>4, <2>1, Deliveries1, Assemble DEF TypeOK, ProbeStep
<1>5. CASE ~UNCHANGED delivery
  <2>1. PICK d \in Unused : Dispatch(d)
    BY <1>5 DEF Probe, StartProbe, Judge, Save, Announce, ProbeThrows
  <2> DEFINE y == [NoDelivery EXCEPT !.state = "looking"]
  <2>2. d \in Deliveries /\ delivery[d].state = "none"
    BY <2>1 DEF Unused
  <2>3. y \in Delivery /\ y.state = "looking" /\ y.taken = 0 /\ Aged(y)
    BY Constants DEF NoDelivery, Delivery, States, Open, Aged, Signed
  <2> HIDE DEF y
  <2>4. delivery' = [delivery EXCEPT ![d] = y]
    BY <2>1 DEF Dispatch, y
  <2>5. \A i \in Deliveries : Sound(delivery'[i])
    BY <1>1, <2>2, <2>3, <2>4, Deliveries1 DEF Sound, TypeOK
  <2>6. Counted'
    BY <1>1, <1>2, <2>2, <2>3, <2>4, CountsStay DEF TypeOK, Results
  <2>7. delivery' \in [Deliveries -> Delivery]
    BY <1>1, <2>2, <2>3, <2>4 DEF TypeOK
  <2> QED BY <1>1, <1>2, <1>3, <2>5, <2>6, <2>7, Assemble DEF TypeOK, ProbeStep
<1> QED BY <1>4, <1>5

\* A stale save writes the row it has read: what it undoes, it marks as undone.
LEMMA RewriteInv ==
    ASSUME IInv, NEW k \in Requests, Rewrite(k) PROVE IInv'
<1>1. TypeOK /\ Counted /\ k \in Probers /\ task[k] \in Task
  BY DEF IInv, TypeOK
<1>2. UNCHANGED <<hook, delivery, metrics>> /\ Counted'
  <2>1. UNCHANGED <<hook, delivery, metrics>>
    BY DEF Rewrite, Edit, Resave, EditFails
  <2> QED BY <1>1, <2>1 DEF Counted
<1>3. PICK y \in Task : task' = [task EXCEPT ![k] = y] /\ y.pc \in {"idle", "editing"}
  <2>1. CASE Edit(k)
    <3>1. /\ [Idle EXCEPT !.pc = "editing", !.copy = row] \in Task
          /\ [Idle EXCEPT !.pc = "editing", !.copy = row].pc = "editing"
      BY <1>1, Constants DEF Idle, Task, TypeOK
    <3> QED BY <2>1, <3>1 DEF Edit
  <2>2. CASE Resave(k) \/ EditFails(k)
    BY <2>2, Constants DEF Resave, EditFails
  <2> QED BY <2>1, <2>2 DEF Rewrite
<1>4. /\ task' \in [Probers -> Task] /\ task'[k].pc \in {"idle", "editing"}
      /\ \A j \in Probers \ {k} : task'[j] = task[j]
  BY <1>1, <1>3 DEF TypeOK
<1>5. CASE UNCHANGED <<row, fate>>
  <2>1. \A j \in Probers : TaskSound(j)'
    BY <1>4, <1>5 DEF IInv, TaskSound
  <2> QED BY <1>1, <1>2, <1>4, <1>5, <2>1, Deliveries1, Assemble DEF TypeOK
<1>6. CASE Resave(k)
  <2>1. PICK removed \in BOOLEAN : row' = [task[k].copy EXCEPT !.removed = removed]
    BY <1>6 DEF Resave
  <2>2. row' \in Row
    BY <1>1, <2>1 DEF Task, Row
  <2>3. \A j \in Probers : fate'[j] = IF fate[j] # "stands" \/ row'.verified THEN fate[j]
                                      ELSE IF task[j].pc = "saved" THEN "undone" ELSE "none"
    BY <1>6 DEF Resave
  <2>4. fate' \in [Probers -> {"none", "stands", "undone"}]
    BY <1>1, <1>6 DEF Resave, TypeOK
  <2>5. \A j \in Probers : TaskSound(j)'
    BY <1>4, <2>3 DEF IInv, TaskSound
  <2> QED BY <1>1, <1>2, <1>4, <2>2, <2>4, <2>5, Deliveries1, Assemble DEF TypeOK
<1> QED BY <1>5, <1>6 DEF Rewrite, Edit, EditFails

\* Time and the timers: what a timer loses, the age of the signature gains.
LEMMA OlderIsSound ==
    ASSUME NEW x, Sound(x), Signed(x)
    PROVE  Sound(Older(x)) /\ Older(x).state = x.state
<1> DEFINE w == IF x.wait > 0 THEN x.wait - 1 ELSE 0
           a == IF x.age < TooOld THEN x.age + 1 ELSE x.age
           y == Older(x)
<1>1. x \in Delivery /\ Aged(x) /\ x.taken < N
  BY DEF Sound
<1>2. x.wait \in Nat /\ x.age \in 0..TooOld /\ x.attempt \in 1..N
  BY <1>1 DEF Delivery, Aged
<1>3. w \in Nat /\ a \in 0..TooOld
  <2>1. ASSUME NEW u \in Nat PROVE (IF u > 0 THEN u - 1 ELSE 0) \in Nat
    OBVIOUS
  <2>2. ASSUME NEW v \in 0..TooOld PROVE (IF v < TooOld THEN v + 1 ELSE v) \in 0..TooOld
    BY Constants
  <2> QED BY <1>2, <2>1, <2>2
<1>4. y = [x EXCEPT !.wait = w, !.age = a]
  BY <1>1 DEF Older, Delivery
<1> HIDE DEF w, a, y
<1>5. /\ y \in Delivery /\ y.state = x.state /\ y.taken = x.taken
      /\ y.attempt = x.attempt /\ y.wait = w /\ y.age = a
  BY <1>1, <1>3, <1>4 DEF Delivery
<1>6. Aged(y)
  <2>1. Waited(x.attempt) \in Nat
    BY <1>2, Delays
  <2>2. x.age + x.wait >= TooOld \/ x.age + x.wait >= Waited(x.attempt)
    BY <1>1 DEF Aged
  <2>3. ASSUME NEW u \in Nat, NEW v \in 0..TooOld, NEW m \in Nat, v + u >= TooOld \/ v + u >= m,
               NEW u1, u1 = IF u > 0 THEN u - 1 ELSE 0, NEW v1, v1 = IF v < TooOld THEN v + 1 ELSE v
        PROVE  v1 + u1 >= TooOld \/ v1 + u1 >= m
    BY <2>3, Constants
  <2>5. a + w >= TooOld \/ a + w >= Waited(x.attempt)
    BY <1>2, <2>1, <2>2, <2>3 DEF a, w
  <2>4. x.state # "waiting" => w = 0
    BY <1>1, <1>2 DEF Aged, w
  <2> QED BY <1>2, <1>5, <2>4, <2>5 DEF Aged
<1> QED BY <1>1, <1>5, <1>6 DEF Sound, y

LEMMA TickInv == ASSUME IInv, Tick PROVE IInv'
<1>1. TypeOK /\ Counted /\ UNCHANGED <<row, hook, task, metrics, fate>>
  BY DEF IInv, Tick
<1>2. \A d \in Deliveries : Sound(delivery'[d]) /\ delivery'[d].state = delivery[d].state
  BY Deliveries1, OlderIsSound DEF Tick
<1>3. delivery' \in [Deliveries -> Delivery]
  BY <1>2 DEF Tick, Sound
<1>4. Counted'
  BY <1>1, <1>2, CountsStay
<1>5. \A k \in Probers : TaskSound(k)'
  BY <1>1 DEF IInv, TaskSound
<1> QED BY <1>1, <1>2, <1>3, <1>4, <1>5, Assemble DEF TypeOK

LEMMA CrashInv == ASSUME IInv, Crash PROVE IInv'
<1>1. TypeOK /\ UNCHANGED <<row, hook>>
  BY DEF IInv, Crash
<1>2. \A d \in Deliveries :
        delivery'[d] = IF delivery[d].state = "none" THEN NoDelivery ELSE Ended("gone")
  BY DEF Crash
<1>3. \A d \in Deliveries : Sound(delivery'[d]) /\ delivery'[d].state \in {"none", "gone"}
  <2>1. Sound(NoDelivery)
    BY Constants DEF Sound, NoDelivery
  <2> QED BY <1>2, <2>1, Deliveries1, EndedIsSound, Constants DEF Sound
<1>4. delivery' \in [Deliveries -> Delivery]
  BY <1>3 DEF Crash, Sound
<1>5. Counted'
  <2>1. \A r \in Results : {d \in Deliveries : delivery'[d].state = r} = {}
    BY <1>3 DEF Results
  <2> QED BY <2>1, FS_EmptySet DEF Counted, Crash, NoCounts
<1>6. \A k \in Probers : TaskSound(k)'
  BY <1>1, Constants DEF Crash, IInv, TaskSound
<1>7. /\ task' \in [Probers -> Task] /\ metrics' \in [Results -> Nat]
      /\ fate' \in [Probers -> {"none", "stands", "undone"}]
  BY <1>1, Constants DEF Crash, NoCounts, TypeOK
<1> QED BY <1>1, <1>3, <1>4, <1>5, <1>6, <1>7, Assemble DEF TypeOK

LEMMA StepInv == IInv /\ [Next]_vars => IInv'
<1> SUFFICES ASSUME IInv, [Next]_vars PROVE IInv'
  OBVIOUS
<1>1. ASSUME NEW k \in Probers, Probe(k) PROVE IInv'
  BY <1>1, ProbeInv
<1>2. ASSUME NEW d \in Deliveries, Deliver(d) PROVE IInv'
  BY <1>2, DeliverInv
<1>3. CASE Configure
  BY <1>3 DEF Configure, IInv, TypeOK, Counted, LastAttemptIsFutile, TaskSound
<1>4. CASE Remove
  <2>1. row' \in Row /\ row'.verified = row.verified
    BY <1>4 DEF Remove, IInv, TypeOK, Row
  <2> QED BY <1>4, <2>1 DEF Remove, IInv, TypeOK, Counted, LastAttemptIsFutile, TaskSound
<1>5. CASE UNCHANGED vars
  BY <1>5 DEF vars, IInv, TypeOK, Counted, LastAttemptIsFutile, TaskSound
<1>6. ASSUME NEW k \in Requests, Rewrite(k) PROVE IInv'
  BY <1>6, RewriteInv
<1> QED BY <1>1, <1>2, <1>3, <1>4, <1>5, <1>6, TickInv, CrashInv DEF Next

-----------------------------------------------------------------------------
(***************************************************************************)
(* The theorems.                                                           *)
(***************************************************************************)

\* The inductive invariant holds in every reachable state.
THEOREM Invariance == Spec => []IInv
<1> QED BY InitInv, StepInv, PTL DEF Spec

\* Type correctness: rows, probes and deliveries are of their types.
THEOREM TypeCorrect == Spec => []TypeOK
<1>1. IInv => TypeOK
  BY DEF IInv
<1> QED BY <1>1, Invariance, PTL

\* Whoever tells that a domain is verified has committed it, and the row says so
\* still, but for a stale save in between.
THEOREM AnnouncedAfterCommit == Spec => ToldOfCommitted
<1>1. ASSUME IInv, NEW k \in Probers, Announce(k), task[k].verdict = "firstVerify"
      PROVE  (fate[k] = "stands" /\ row.verified) \/ fate[k] = "undone"
  <2>1. task[k].pc = "saved" /\ TaskSound(k) /\ fate[k] \in {"none", "stands", "undone"}
    BY <1>1 DEF IInv, TypeOK, Announce
  <2> QED BY <1>1, <2>1 DEF TaskSound
<1>2. IInv => [\A k \in Probers :
                 Announce(k) /\ task[k].verdict = "firstVerify" =>
                    \/ fate[k] = "stands" /\ row.verified
                    \/ fate[k] = "undone"]_vars
  BY <1>1
<1> QED BY <1>2, Invariance, PTL DEF ToldOfCommitted

\* No prober verifies, and so none announces, a domain it has verified before, as
\* long as no stale save has undone that.
THEOREM VerifiedOnce == Spec => VerifiedOnceEach
<1>1. ASSUME IInv, NEW k \in Probers, Save(k) \/ ProbeThrows(k), task[k].verdict = "firstVerify"
      PROVE  fate[k] # "stands"
  BY <1>1 DEF IInv, TaskSound, Save, ProbeThrows
<1>2. IInv => [\A k \in Probers :
                 (Save(k) \/ ProbeThrows(k)) /\ task[k].verdict = "firstVerify"
                    => fate[k] # "stands"]_vars
  BY <1>1
<1> QED BY <1>2, Invariance, PTL DEF VerifiedOnceEach

\* No receiver that checks signatures takes an event in at the last attempt.
THEOREM LastAttemptWasted == Spec => []LastAttemptIsFutile
<1>1. IInv => LastAttemptIsFutile
  BY DEF IInv
<1> QED BY <1>1, Invariance, PTL

\* The counters add up, through retries, lost answers and restarts.
THEOREM CountersAddUp == Spec => []Counted
<1>1. IInv => Counted
  BY DEF IInv
<1> QED BY <1>1, Invariance, PTL

\* A result is final but for a restart: nothing follows the answer that was counted.
THEOREM NothingAfterTheResult == Spec => ResultsAreFinal
<1>1. ASSUME IInv, [Next]_vars, NEW d \in Deliveries, delivery[d].state \in Results \cup {"dropped"}
      PROVE  delivery'[d].state \in {delivery[d].state, "gone"}
  <2>1. TypeOK /\ delivery[d].state \notin Open \cup {"none"}
    BY <1>1 DEF IInv, Results, Open, Answers
  <2>2. ASSUME NEW k \in Probers, Probe(k) PROVE delivery'[d].state = delivery[d].state
    BY <2>1, <2>2 DEF Probe, StartProbe, Judge, Save, Announce, ProbeThrows, Dispatch, Unused, TypeOK
  <2>6. ASSUME NEW k \in Requests, Rewrite(k) PROVE delivery'[d].state = delivery[d].state
    BY <2>6 DEF Rewrite, Edit, Resave, EditFails
  <2>3. ASSUME NEW e \in Deliveries, Deliver(e) PROVE delivery'[d] = delivery[d]
    <3>1. delivery' = [delivery EXCEPT ![e] = delivery'[e]]
      BY <1>1, <2>3, DeliverSteps DEF Steps
    <3>2. delivery[e].state \in Open
      BY <2>3 DEF Deliver, LookUp, LookUpFails, Send, Arrive, Answered, FetchThrows, Open, Answers
    <3> QED BY <2>1, <3>1, <3>2 DEF TypeOK
  <2>4. CASE Tick
    BY <2>1, <2>4 DEF Tick, Signed
  <2>5. CASE Crash
    BY <1>1, <2>1, <2>5 DEF Crash, Ended
  <2> QED BY <1>1, <2>2, <2>3, <2>4, <2>5, <2>6 DEF Next, Configure, Remove, vars
<1>2. IInv /\ [Next]_vars =>
        [\A d \in Deliveries : delivery[d].state \in Results \cup {"dropped"} =>
            delivery'[d].state \in {delivery[d].state, "gone"}]_vars
  BY <1>1
<1> QED BY <1>2, Invariance, PTL DEF Spec, ResultsAreFinal
-----------------------------------------------------------------------------
(***************************************************************************)
(* No delivery goes on for ever.                                           *)
(***************************************************************************)

\* What a step from x to y has to respect.
Nearer(x, y) ==
    /\ Left(y) <= Left(x)
    /\ y.state # x.state => Left(y) < Left(x)

\* What is left in every state; a closure that is gone has used up everything.
LEMMA LeftIs ==
    ASSUME NEW x \in Delivery
    PROVE  /\ x.state = "none" => Left(x) = 3 * N + 3
           /\ x.state = "looking" => Left(x) = 3 * N + 2
           /\ x.state = "waiting" => Left(x) = 3 * (N - x.attempt) + 4
           /\ x.state = "sent" => Left(x) = 3 * (N - x.attempt) + 3
           /\ x.state \in Answers => Left(x) = 3 * (N - x.attempt) + 2
           /\ x.state \in Results \cup {"dropped"} => Left(x) = 1
           /\ x.state = "gone" => Left(x) = 0
           /\ Left(x) \in Nat /\ (x.state # "gone" => Left(x) > 0)
<1>1. x.attempt \in 0..N /\ x.state \in States /\ N \in Nat
  BY DEF Delivery
<1>2. /\ x.state = "none" => Left(x) = 3 * N + 3
      /\ x.state = "looking" => Left(x) = 3 * N + 2
      /\ x.state = "waiting" => Left(x) = 3 * (N - x.attempt) + 4
      /\ x.state = "sent" => Left(x) = 3 * (N - x.attempt) + 3
      /\ x.state \in Answers => Left(x) = 3 * (N - x.attempt) + 2
      /\ x.state \in Results \cup {"dropped"} => Left(x) = 1
      /\ x.state = "gone" => Left(x) = 0
  BY DEF Left, Answers, Results
<1> DEFINE a == x.attempt
<1>3. /\ 3 * N + 3 \in Nat \ {0} /\ 3 * N + 2 \in Nat \ {0} /\ 3 * (N - a) + 4 \in Nat \ {0}
      /\ 3 * (N - a) + 3 \in Nat \ {0} /\ 3 * (N - a) + 2 \in Nat \ {0}
  <2> HIDE DEF a
  <2>1. a \in 0..N /\ N \in Nat
    BY <1>1 DEF a
  <2> QED BY <2>1
<1>4. x.state \in {"none", "looking", "waiting", "sent", "gone"} \cup Answers \cup Results \cup {"dropped"}
  BY <1>1 DEF States, Open
<1>5. Left(x) \in Nat /\ (x.state # "gone" => Left(x) > 0)
  <2> HIDE DEF a
  <2>1. CASE x.state \in Answers \cup {"none", "looking", "waiting", "sent"}
    <3>1. Left(x) \in {3 * N + 3, 3 * N + 2, 3 * (N - a) + 4, 3 * (N - a) + 3, 3 * (N - a) + 2}
      BY <1>2, <2>1 DEF a
    <3> QED BY <1>3, <3>1
  <2>2. CASE x.state \in Results \cup {"dropped", "gone"}
    BY <1>2, <2>2
  <2> QED BY <1>4, <2>1, <2>2
<1> QED BY <1>2, <1>5

LEMMA Arithmetic ==
    ASSUME NEW a \in 1..N
    PROVE  /\ 1 < 3 * (N - a) + 2 /\ 1 < 3 * (N - a) + 3
           /\ 3 * (N - a) + 2 < 3 * (N - a) + 3 /\ 3 * (N - a) + 3 < 3 * (N - a) + 4
           /\ 3 * (N - (a + 1)) + 4 < 3 * (N - a) + 2
           /\ 3 * (N - (a + 1)) + 4 < 3 * (N - a) + 3
OBVIOUS

LEMMA LessIsNearer ==
    ASSUME NEW x \in Delivery, NEW y \in Delivery, Left(y) < Left(x)
    PROVE  Nearer(x, y)
BY LeftIs DEF Nearer

LEMMA TryAgainNearer ==
    ASSUME IInv, NEW d \in Deliveries, TryAgain(d), delivery[d].state \in {"sent"} \cup Answers
    PROVE  Nearer(delivery[d], delivery'[d])
<1> DEFINE x == delivery[d]
           y == delivery'[d]
<1>1. x \in Delivery /\ Aged(x) /\ TypeOK /\ y \in Delivery
  BY TryAgainSteps DEF IInv, TypeOK, Steps, Sound
<1>2. x.attempt \in 1..N
  BY <1>1 DEF Aged, Signed, Open, Answers
<1>3. CASE x.attempt = N
  <2>1. y.state = "exhausted"
    <3>1. y = Ended("exhausted")
      BY <1>1, <1>3 DEF TryAgain, Close, TypeOK
    <3> QED BY <3>1, EndedIsSound DEF Results
  <2> HIDE DEF x, y
  <2>2. Left(y) = 1 /\ Left(x) \in {2, 3}
    BY <1>1, <1>3, <2>1, LeftIs DEF Results, x
  <2>3. Left(y) < Left(x)
    BY <2>2
  <2> QED BY <1>1, <2>3, LessIsNearer DEF x, y
<1>4. CASE x.attempt # N
  <2>1. y.state = "waiting" /\ y.attempt = x.attempt + 1
    <3>1. y = Scheduled(x, x.attempt + 1)
      BY <1>1, <1>4 DEF TryAgain, TypeOK
    <3> HIDE DEF y
    <3> QED BY <1>1, <3>1 DEF Scheduled, Delivery
  <2>2. x.state \in {"sent"} \cup Answers
    OBVIOUS
  <2> HIDE DEF x, y
  <2>3. Left(y) = 3 * (N - (x.attempt + 1)) + 4
    BY <1>1, <2>1, LeftIs
  <2>4. Left(x) = 3 * (N - x.attempt) + 3 \/ Left(x) = 3 * (N - x.attempt) + 2
    BY <1>1, <2>2, LeftIs
  <2>5. Left(y) < Left(x)
    BY <1>2, <2>3, <2>4, Arithmetic
  <2> QED BY <1>1, <2>5, LessIsNearer DEF x, y
<1> QED BY <1>3, <1>4

LEMMA DeliverNearer ==
    ASSUME IInv, NEW d \in Deliveries, Deliver(d)
    PROVE  Nearer(delivery[d], delivery'[d])
<1> DEFINE x == delivery[d]
           y == delivery'[d]
<1>1. x \in Delivery /\ Aged(x) /\ TypeOK /\ y \in Delivery
  BY DeliverSteps DEF IInv, TypeOK, Steps, Sound
<1>2. CASE LookUp(d) \/ LookUpFails(d)
  <2> DEFINE z == [x EXCEPT !.secret = hook]
  <2>1. /\ x.state = "looking"
        /\ y = Ended("dropped") \/ (hook \in Secrets /\ y = Scheduled(z, 1))
    BY <1>1, <1>2 DEF LookUp, LookUpFails, TypeOK
  <2>2. y.state = "dropped" \/ (y.state = "waiting" /\ y.attempt = 1)
    <3>1. hook \in Secrets => z \in Delivery
      BY <1>1 DEF Delivery
    <3> HIDE DEF z
    <3>2. z \in Delivery => Scheduled(z, 1).state = "waiting" /\ Scheduled(z, 1).attempt = 1
      BY DEF Scheduled, Delivery
    <3>3. Ended("dropped").state = "dropped"
      BY DEF Ended
    <3> QED BY <2>1, <3>1, <3>2, <3>3
  <2> HIDE DEF x, y
  <2>3. Left(x) = 3 * N + 2
    BY <1>1, <2>1, LeftIs
  <2>4. Left(y) = 1 \/ Left(y) = 3 * (N - 1) + 4
    BY <1>1, <2>2, LeftIs
  <2>5. Left(y) < Left(x)
    BY <2>3, <2>4
  <2> QED BY <1>1, <2>5, LessIsNearer DEF x, y
<1>3. CASE Send(d)
  <2>1. x.state = "waiting" /\ y.state = "sent" /\ y.attempt = x.attempt
    BY <1>1, <1>3 DEF Send, TypeOK, Delivery
  <2>2. x.attempt \in 1..N
    BY <1>1, <2>1 DEF Aged, Signed, Open
  <2> HIDE DEF x, y
  <2>3. Left(x) = 3 * (N - x.attempt) + 4 /\ Left(y) = 3 * (N - x.attempt) + 3
    BY <1>1, <2>1, LeftIs
  <2>4. Left(y) < Left(x)
    BY <2>2, <2>3, Arithmetic
  <2> QED BY <1>1, <2>4, LessIsNearer DEF x, y
<1>4. CASE Arrive(d)
  <2>1. x.state = "sent" /\ y.state \in Answers /\ y.attempt = x.attempt
    BY <1>1, <1>4 DEF Arrive, TypeOK, Delivery
  <2>2. x.attempt \in 1..N
    BY <1>1, <2>1 DEF Aged, Signed, Open
  <2> HIDE DEF x, y
  <2>3. Left(x) = 3 * (N - x.attempt) + 3 /\ Left(y) = 3 * (N - x.attempt) + 2
    BY <1>1, <2>1, LeftIs
  <2>4. Left(y) < Left(x)
    BY <2>2, <2>3, Arithmetic
  <2> QED BY <1>1, <2>4, LessIsNearer DEF x, y
<1>5. CASE Answered(d) \/ FetchThrows(d)
  <2>1. x.state \in {"sent"} \cup Answers
    BY <1>5 DEF Answered, FetchThrows, Answers
  <2>2. CASE TryAgain(d)
    BY <2>1, <2>2, TryAgainNearer
  <2>3. ASSUME NEW r \in Results, Close(d, r) PROVE Nearer(x, y)
    <3>1. y.state = r /\ x.attempt \in 1..N
      BY <1>1, <2>1, <2>3 DEF Close, Ended, TypeOK, Aged, Signed, Open, Answers
    <3>2. x.state \in {"sent"} \cup Answers
      BY <2>1
    <3> HIDE DEF x, y
    <3>3. Left(y) = 1
      BY <1>1, <3>1, LeftIs
    <3>4. Left(x) = 3 * (N - x.attempt) + 3 \/ Left(x) = 3 * (N - x.attempt) + 2
      BY <1>1, <3>2, LeftIs
    <3>5. Left(y) < Left(x)
      BY <3>1, <3>3, <3>4, Arithmetic
    <3> QED BY <1>1, <3>5, LessIsNearer
  <2> QED BY <1>5, <2>1, <2>2, <2>3 DEF Answered, FetchThrows, Results
<1> QED BY <1>2, <1>3, <1>4, <1>5 DEF Deliver

\* The measure behind EveryDeliverySettles: every step of a delivery, N requests
\* included, uses up some of what is left, and no step gives anything back.
THEOREM NothingRetriedForEver == Spec => AttemptsRunOut
<1>1. ASSUME IInv, [Next]_vars, NEW d \in Deliveries PROVE Nearer(delivery[d], delivery'[d])
  <2>1. /\ TypeOK /\ delivery[d] \in Delivery /\ delivery'[d] \in Delivery
        /\ Left(delivery[d]) \in Nat
    BY <1>1, StepInv, LeftIs DEF IInv, TypeOK
  <2>2. CASE delivery'[d] = delivery[d]
    BY <2>1, <2>2 DEF Nearer
  <2>3. ASSUME NEW k \in Probers, Probe(k), delivery'[d] # delivery[d]
        PROVE  Nearer(delivery[d], delivery'[d])
    <3>1. delivery[d].state = "none" /\ delivery'[d].state = "looking"
      BY <2>1, <2>3 DEF Probe, StartProbe, Judge, Save, Announce, ProbeThrows,
                        Dispatch, Unused, TypeOK, NoDelivery
    <3>2. Left(delivery[d]) = 3 * N + 3 /\ Left(delivery'[d]) = 3 * N + 2
      BY <2>1, <3>1, LeftIs
    <3> QED BY <3>2 DEF Nearer
  <2>4. ASSUME NEW e \in Deliveries, Deliver(e), delivery'[d] # delivery[d]
        PROVE  Nearer(delivery[d], delivery'[d])
    <3>1. delivery' = [delivery EXCEPT ![e] = delivery'[e]]
      BY <1>1, <2>4, DeliverSteps DEF Steps
    <3>2. d = e
      BY <2>1, <2>4, <3>1 DEF TypeOK
    <3> QED BY <1>1, <2>4, <3>2, DeliverNearer
  <2>5. CASE Tick
    <3>1. delivery'[d].state = delivery[d].state /\ delivery'[d].attempt = delivery[d].attempt
      BY <2>1, <2>5 DEF Tick, Older, Delivery
    <3>2. Left(delivery'[d]) = Left(delivery[d])
      BY <3>1 DEF Left
    <3> QED BY <2>1, <3>1, <3>2 DEF Nearer
  <2>6. CASE Crash
    <3>1. \/ delivery[d].state = "none" /\ delivery'[d].state = "none"
          \/ delivery[d].state # "none" /\ delivery'[d].state = "gone"
      BY <2>6, Constants DEF Crash, Ended
    <3>2. CASE delivery[d].state = "none" /\ delivery'[d].state = "none"
      BY <2>1, <3>2, LeftIs DEF Nearer
    <3>3. CASE delivery[d].state # "none" /\ delivery'[d].state = "gone"
      BY <2>1, <3>3, LeftIs DEF Nearer
    <3> QED BY <3>1, <3>2, <3>3
  <2>7. CASE Configure \/ Remove \/ UNCHANGED vars \/ \E k \in Requests : Rewrite(k)
    BY <2>2, <2>7 DEF Configure, Remove, vars, Rewrite, Edit, Resave, EditFails
  <2> QED BY <1>1, <2>2, <2>3, <2>4, <2>5, <2>6, <2>7 DEF Next
<1>2. IInv /\ [Next]_vars =>
        [\A d \in Deliveries :
           /\ Left(delivery'[d]) <= Left(delivery[d])
           /\ delivery'[d].state # delivery[d].state => Left(delivery'[d]) < Left(delivery[d])]_vars
  BY <1>1 DEF Nearer
<1> QED BY <1>2, Invariance, PTL DEF Spec, AttemptsRunOut
=============================================================================
