------------------------ MODULE NotifierBudgetProofs ------------------------
(***************************************************************************)
(* Proofs, for every value of the constants and under every fault, that no *)
(* notification is given up early and that an idempotency key is sent for  *)
(* once.                                                                   *)
(*                                                                         *)
(* NoEarlyBurial rests on a count: every increment of attempt_count was    *)
(* preceded by a send of its own, so attempt_count and the workers that    *)
(* have sent and not yet counted do not exceed the sends (CountOK).  What  *)
(* a worker fetched is therefore a lower bound of the sends made before    *)
(* its own, however stale it is (WorkerBudget).                            *)
(***************************************************************************)
EXTENDS NotifierProofs, FiniteSetTheorems

NotYetSent == {"claim", "noprov", "send"}
HasSent == {"count", "record", "deliver", "requeue", "delay", "fail", "bury"}

Counting(n) == {w \in Workers : worker[w].pc = "count" /\ Id(w) = n}

CountOK(n) ==
  /\ IsFiniteSet(Counting(n))
  /\ attemptCount[n] + Cardinality(Counting(n)) <= sends[n]

WorkerBudget(w) ==
  /\ worker[w].pc \in NotYetSent => worker[w].seen <= attemptCount[Id(w)]
  /\ worker[w].pc \in HasSent => worker[w].seen + 1 <= sends[Id(w)]
  /\ worker[w].pc \in {"fail", "bury"} => MaxRetriesOf[Id(w)] <= worker[w].seen + 1

BudgetInv ==
  /\ \A n \in Notifications : CountOK(n)
  /\ \A w \in Workers : WorkerBudget(w)
  /\ NoEarlyBurial

-----------------------------------------------------------------------------

\* No goroutine is about to send or to count.
Harmless == {"reading", "limit", "fetch", "ack", "stopped"}

LEMMA WorkerTyped ==
  ASSUME TypeOK, IndexOK, NEW w \in Workers
  PROVE  /\ worker[w] \in WorkerRecord /\ worker[w].seen \in Nat
         /\ worker[w].pc \in NotYetSent \cup HasSent =>
              /\ Active(w) /\ Id(w) \in Notifications
              /\ attemptCount[Id(w)] \in Nat /\ sends[Id(w)] \in Nat
              /\ MaxRetriesOf[Id(w)] \in Nat
<1>1. worker[w] \in WorkerRecord /\ worker[w].seen \in Nat
  BY DEF TypeOK, DispatcherTypeOK, WorkerRecord
<1>2. worker[w].pc \in NotYetSent \cup HasSent => Active(w)
  BY DEF NotYetSent, HasSent, Active
<1> QED
  BY <1>1, <1>2, IdType, StoresAssumption DEF TypeOK, StoresTypeOK

\* A worker that stays where it is keeps its budget: the counts only grow.
LEMMA BudgetKept ==
  ASSUME TypeOK, IndexOK, Grown, NEW w \in Workers, WorkerBudget(w),
         attemptCount' \in [Notifications -> Nat], sends' \in [Notifications -> Nat],
         \A n \in Notifications : attemptCount[n] <= attemptCount'[n] /\ sends[n] <= sends'[n],
         \/ worker'[w].pc \in Harmless
         \/ /\ worker'[w].pc = worker[w].pc /\ worker'[w].msg = worker[w].msg
            /\ worker'[w].seen = worker[w].seen
  PROVE  WorkerBudget(w)'
<1>1. CASE worker'[w].pc \in Harmless
  BY <1>1 DEF Harmless, WorkerBudget, NotYetSent, HasSent
<1>2. CASE worker'[w].pc \notin Harmless
  <2>1. CASE worker[w].pc \notin NotYetSent \cup HasSent
    BY <1>2, <2>1 DEF WorkerBudget, NotYetSent, HasSent
  <2>2. CASE worker[w].pc \in NotYetSent \cup HasSent
    <3>1. Id(w)' = Id(w)
      BY <1>2, <2>2, WorkerTyped, IdStable
    <3>2. Id(w) \in Notifications /\ worker[w].seen \in Nat
      BY <2>2, WorkerTyped
    <3>3. /\ attemptCount[Id(w)] \in Nat /\ sends[Id(w)] \in Nat
          /\ attemptCount'[Id(w)] \in Nat /\ sends'[Id(w)] \in Nat
          /\ attemptCount[Id(w)] <= attemptCount'[Id(w)] /\ sends[Id(w)] <= sends'[Id(w)]
      BY <3>2, <2>2, WorkerTyped
    <3> QED
      BY <1>2, <3>1, <3>2, <3>3 DEF WorkerBudget, NotYetSent, HasSent
  <2> QED
    BY <2>1, <2>2
<1> QED
  BY <1>1, <1>2

\* Nobody starts counting.
LEMMA CountKept ==
  ASSUME TypeOK, IndexOK, Grown, UNCHANGED <<attemptCount, sends>>,
         NEW n \in Notifications, CountOK(n),
         \A v \in Workers : worker'[v].pc = "count" =>
           worker[v].pc = "count" /\ worker'[v].msg = worker[v].msg
  PROVE  CountOK(n)'
<1>1. ASSUME NEW v \in Workers, worker'[v].pc = "count"
      PROVE  worker[v].pc = "count" /\ Id(v)' = Id(v)
  BY <1>1, IdStable DEF Active
<1>2. Counting(n)' \in SUBSET Counting(n)
  BY <1>1 DEF Counting
<1>3. IsFiniteSet(Counting(n)') /\ Cardinality(Counting(n)') <= Cardinality(Counting(n))
  BY <1>2, FS_Subset DEF CountOK
<1>4. Cardinality(Counting(n)) \in Nat /\ Cardinality(Counting(n)') \in Nat
  BY <1>3, FS_CardinalityType DEF CountOK
<1>5. attemptCount[n] \in Nat /\ sends[n] \in Nat
  BY DEF TypeOK, StoresTypeOK
<1> QED
  BY <1>3, <1>4, <1>5 DEF CountOK

LEMMA QuietStep ==
  ASSUME TypeOK, IndexOK, Grown, BudgetInv, UNCHANGED <<attemptCount, sends, dlq>>,
         \A v \in Workers : \/ worker'[v].pc \in Harmless
                            \/ /\ worker'[v].pc = worker[v].pc /\ worker'[v].msg = worker[v].msg
                               /\ worker'[v].seen = worker[v].seen
  PROVE  BudgetInv'
<1>1. /\ attemptCount' \in [Notifications -> Nat] /\ sends' \in [Notifications -> Nat]
      /\ \A n \in Notifications : attemptCount[n] <= attemptCount'[n] /\ sends[n] <= sends'[n]
  BY DEF TypeOK, StoresTypeOK
<1>2. \A v \in Workers : WorkerBudget(v)'
  BY <1>1, BudgetKept DEF BudgetInv
<1>3. \A n \in Notifications : CountOK(n)'
  BY CountKept DEF BudgetInv, Harmless
<1>4. NoEarlyBurial'
  BY DEF BudgetInv, NoEarlyBurial, Promise!Budget
<1> QED
  BY <1>2, <1>3, <1>4 DEF BudgetInv

\* A step of worker w that goes on with its message.
LEMMA MovingStep ==
  ASSUME TypeOK, IndexOK, Grown, BudgetInv, NEW w \in Workers,
         UNCHANGED <<attemptCount, sends>>, WorkerBudget(w)', worker'[w].pc # "count",
         \A v \in Workers : v # w => worker'[v] = worker[v],
         NoEarlyBurial'
  PROVE  BudgetInv'
<1>1. /\ attemptCount' \in [Notifications -> Nat] /\ sends' \in [Notifications -> Nat]
      /\ \A n \in Notifications : attemptCount[n] <= attemptCount'[n] /\ sends[n] <= sends'[n]
  BY DEF TypeOK, StoresTypeOK
<1>2. \A v \in Workers : WorkerBudget(v)'
  BY <1>1, BudgetKept DEF BudgetInv
<1>3. \A n \in Notifications : CountOK(n)'
  BY CountKept DEF BudgetInv
<1> QED
  BY <1>2, <1>3 DEF BudgetInv

LEMMA SendStep ==
  ASSUME TypeOK, IndexOK, BudgetInv, NEW w \in Workers, Send(w)
  PROVE  BudgetInv'
<1> DEFINE x == Id(w)
<1>1. /\ worker[w].pc = "send" /\ UNCHANGED <<attemptCount, dlq, stream>>
      /\ \E ok : worker' = [worker EXCEPT ![w].pc = "count", ![w].ok = ok]
      /\ sends' = [sends EXCEPT ![x] = @ + 1]
  BY DEF Send, pgVars, redisVars
<1>2. worker[w].pc \in NotYetSent
  BY <1>1 DEF NotYetSent
<1>3. /\ x \in Notifications /\ worker[w].seen \in Nat /\ worker[w] \in WorkerRecord /\ Active(w)
      /\ attemptCount[x] \in Nat /\ worker[w].seen <= attemptCount[x]
  BY <1>2, WorkerTyped DEF BudgetInv, WorkerBudget
<1>4. /\ attemptCount \in [Notifications -> Nat] /\ sends \in [Notifications -> Nat]
      /\ dlq \in [Notifications -> Nat] /\ worker \in [Workers -> WorkerRecord]
  BY DEF TypeOK, StoresTypeOK, DispatcherTypeOK, WorkerRecord
<1>5. Grown
  BY <1>1 DEF Grown, TypeOK, StoresTypeOK
<1>6. /\ worker'[w].pc = "count" /\ worker'[w].msg = worker[w].msg
      /\ worker'[w].seen = worker[w].seen
      /\ \A v \in Workers : v # w => worker'[v] = worker[v]
  BY <1>1, <1>4 DEF WorkerRecord
<1>7. Id(w)' = x
  BY <1>3, <1>5, <1>6, IdStable
<1>8. /\ sends' \in [Notifications -> Nat] /\ sends'[x] = sends[x] + 1
      /\ \A n \in Notifications : n # x => sends'[n] = sends[n]
  BY <1>1, <1>3, <1>4
<1> HIDE DEF x
<1>9. ASSUME NEW n \in Notifications
      PROVE  CountOK(n)'
  <2>1. IsFiniteSet(Counting(n)) /\ Cardinality(Counting(n)) \in Nat
    BY FS_CardinalityType DEF BudgetInv, CountOK
  <2>2. \A v \in Workers : worker[v].pc = "count" => Id(v)' = Id(v) \/ v = w
    BY <1>5, <1>6, IdStable DEF Active
  <2>3. CASE n = x
    <3>1. Counting(n)' = Counting(n) \cup {w} /\ w \notin Counting(n)
      BY <1>1, <1>6, <1>7, <2>2, <2>3 DEF Counting
    <3>2. IsFiniteSet(Counting(n)') /\ Cardinality(Counting(n)') = Cardinality(Counting(n)) + 1
      BY <2>1, <3>1, FS_AddElement
    <3>3. attemptCount[n] + Cardinality(Counting(n)) <= sends[n]
      BY DEF BudgetInv, CountOK
    <3> QED
      BY <1>1, <1>3, <1>4, <1>8, <2>1, <2>3, <3>2, <3>3 DEF CountOK
  <2>4. CASE n # x
    <3>1. Counting(n)' = Counting(n)
      BY <1>1, <1>6, <1>7, <2>2, <2>4 DEF Counting
    <3> QED
      BY <1>1, <1>8, <2>4, <3>1 DEF CountOK, BudgetInv
  <2> QED
    BY <2>3, <2>4
<1>10. ASSUME NEW v \in Workers
       PROVE  WorkerBudget(v)'
  <2>1. CASE v # w
    <3>1. \A n \in Notifications :
            attemptCount[n] <= attemptCount'[n] /\ sends[n] <= sends'[n]
      BY <1>1, <1>4, <1>8
    <3> QED
      BY <1>1, <1>4, <1>5, <1>6, <1>8, <2>1, <3>1, BudgetKept DEF BudgetInv
  <2>2. CASE v = w
    <3>1. attemptCount[x] <= sends[x]
      <4>1. Cardinality(Counting(x)) \in Nat /\ attemptCount[x] + Cardinality(Counting(x)) <= sends[x]
        BY <1>3, FS_CardinalityType DEF BudgetInv, CountOK
      <4> QED
        BY <1>3, <1>4, <4>1
    <3>2. worker[w].seen + 1 <= sends'[x]
      BY <1>3, <1>4, <1>8, <3>1
    <3> QED
      BY <1>6, <1>7, <2>2, <3>2 DEF WorkerBudget, NotYetSent, HasSent
  <2> QED
    BY <2>1, <2>2
<1>11. NoEarlyBurial'
  <2>1. \A n \in Notifications : Promise!Budget(n) \in Nat /\ sends[n] <= sends'[n]
    BY <1>4, <1>8, StoresAssumption DEF Promise!Budget
  <2> QED
    BY <1>1, <1>4, <1>8, <2>1 DEF BudgetInv, NoEarlyBurial, Promise!Budget
<1> QED
  BY <1>9, <1>10, <1>11 DEF BudgetInv

LEMMA CountStep ==
  ASSUME TypeOK, IndexOK, BudgetInv, NEW w \in Workers, CountAttempt(w)
  PROVE  BudgetInv'
<1> DEFINE x == Id(w)
<1>1. /\ worker[w].pc = "count" /\ UNCHANGED <<sends, dlq, stream>> /\ Goto(w, "record")
      /\ attemptCount' = [attemptCount EXCEPT ![x] = @ + 1] \/ attemptCount' = attemptCount
  <2>1. PICK done \in Calls("pg", w) : CountAttempt(w)!(done)
    BY DEF CountAttempt
  <2>2. attemptCount' = [attemptCount EXCEPT ![x] = @ + 1] \/ attemptCount' = attemptCount
    BY <2>1, Zenon DEF IncrementAttempt
  <2> QED
    BY <2>1, <2>2 DEF redisVars, historyVars
<1>2. worker[w].pc \in HasSent
  BY <1>1 DEF HasSent
<1>3. /\ x \in Notifications /\ worker[w].seen \in Nat /\ worker[w] \in WorkerRecord /\ Active(w)
      /\ worker[w].seen + 1 <= sends[x]
  BY <1>2, WorkerTyped DEF BudgetInv, WorkerBudget
<1>4. /\ attemptCount \in [Notifications -> Nat] /\ sends \in [Notifications -> Nat]
      /\ worker \in [Workers -> WorkerRecord]
  BY DEF TypeOK, StoresTypeOK, DispatcherTypeOK, WorkerRecord
<1>5. Grown
  BY <1>1 DEF Grown, TypeOK, StoresTypeOK
<1>6. /\ worker'[w].pc = "record" /\ worker'[w].msg = worker[w].msg
      /\ worker'[w].seen = worker[w].seen
      /\ \A v \in Workers : v # w => worker'[v] = worker[v]
  BY <1>1, <1>4 DEF WorkerRecord, Goto
<1>7. Id(w)' = x
  BY <1>3, <1>5, <1>6, IdStable
<1>8. /\ attemptCount' \in [Notifications -> Nat]
      /\ attemptCount'[x] \in {attemptCount[x], attemptCount[x] + 1}
      /\ \A n \in Notifications : n # x => attemptCount'[n] = attemptCount[n]
  BY <1>1, <1>3, <1>4
<1> HIDE DEF x
<1>9. ASSUME NEW n \in Notifications
      PROVE  CountOK(n)'
  <2>1. IsFiniteSet(Counting(n)) /\ Cardinality(Counting(n)) \in Nat
    BY FS_CardinalityType DEF BudgetInv, CountOK
  <2>2. \A v \in Workers : worker[v].pc = "count" => Id(v)' = Id(v) \/ v = w
    BY <1>5, <1>6, IdStable DEF Active
  <2>3. CASE n = x
    <3>1. Counting(n)' = Counting(n) \ {w} /\ w \in Counting(n)
      BY <1>1, <1>6, <1>7, <2>2, <2>3 DEF Counting, x
    <3>2. IsFiniteSet(Counting(n)') /\ Cardinality(Counting(n)') = Cardinality(Counting(n)) - 1
      BY <2>1, <3>1, FS_RemoveElement
    <3>3. attemptCount[n] + Cardinality(Counting(n)) <= sends[n]
      BY DEF BudgetInv, CountOK
    <3> QED
      BY <1>1, <1>3, <1>4, <1>8, <2>1, <2>3, <3>2, <3>3 DEF CountOK
  <2>4. CASE n # x
    <3>1. Counting(n)' = Counting(n)
      BY <1>1, <1>6, <1>7, <2>2, <2>4 DEF Counting, x
    <3> QED
      BY <1>1, <1>8, <2>4, <3>1 DEF CountOK, BudgetInv
  <2> QED
    BY <2>3, <2>4
<1>10. ASSUME NEW v \in Workers
       PROVE  WorkerBudget(v)'
  <2>1. CASE v # w
    <3>1. \A n \in Notifications :
            attemptCount[n] <= attemptCount'[n] /\ sends[n] <= sends'[n]
      BY <1>1, <1>4, <1>8
    <3> QED
      BY <1>1, <1>4, <1>5, <1>6, <1>8, <2>1, <3>1, BudgetKept DEF BudgetInv
  <2>2. CASE v = w
    BY <1>1, <1>3, <1>6, <1>7, <2>2 DEF WorkerBudget, NotYetSent, HasSent
  <2> QED
    BY <2>1, <2>2
<1>11. NoEarlyBurial'
  BY <1>1 DEF BudgetInv, NoEarlyBurial, Promise!Budget
<1> QED
  BY <1>9, <1>10, <1>11 DEF BudgetInv

LEMMA GotoSeen ==
  ASSUME TypeOK, NEW w \in Workers, NEW pc, Goto(w, pc)
  PROVE  /\ worker'[w].pc = pc /\ worker'[w].msg = worker[w].msg
         /\ worker'[w].seen = worker[w].seen
<1>1. worker \in [Workers -> WorkerRecord]
  BY DEF TypeOK, DispatcherTypeOK, WorkerRecord
<1> QED
  BY <1>1 DEF Goto, WorkerRecord

\* Steps of processMessage with their message that neither send nor count.
LEMMA DecidingStep ==
  ASSUME TypeOK, IndexOK, BudgetInv, NEW w \in Workers,
         \/ Fetch(w) /\ status[Id(w)] \notin SkippedStatus
         \/ Claim(w) \/ RecordAttempt(w) \/ SetQueued(w) \/ SetFailed(w)
  PROVE  BudgetInv'
<1> USE DEF storeVars, pgVars, redisVars, groupVars, historyVars
<1>1. WorkerStep(w) /\ UNCHANGED <<attemptCount, sends, dlq, stream>>
  BY DEF WorkerStep, ProcessMessage, Fetch, Claim, RecordAttempt, SetQueued, SetFailed, SetOutcome
<1>2. Active(w)
  BY DEF Fetch, Claim, RecordAttempt, SetQueued, SetFailed, SetOutcome, Active
<1>3. Grown
  BY <1>1 DEF Grown, TypeOK, StoresTypeOK
<1>4. /\ worker[w] \in WorkerRecord /\ worker[w].seen \in Nat /\ Id(w) \in Notifications
      /\ MaxRetriesOf[Id(w)] \in Nat /\ attemptCount[Id(w)] \in Nat
      /\ worker \in [Workers -> WorkerRecord]
  BY <1>2, IdType, StoresAssumption DEF TypeOK, StoresTypeOK, DispatcherTypeOK, WorkerRecord
<1>5. worker'[w].msg = worker[w].msg => Id(w)' = Id(w)
  BY <1>2, <1>3, IdStable
<1>6. WorkerBudget(w)' /\ worker'[w].pc # "count"
  <2>1. CASE Fetch(w) /\ status[Id(w)] \notin SkippedStatus
    <3>1. worker' = [worker EXCEPT ![w].pc = "claim", ![w].seen = attemptCount[Id(w)]]
      BY <2>1 DEF Fetch
    <3>2. /\ worker'[w].pc = "claim" /\ worker'[w].seen = attemptCount[Id(w)]
          /\ worker'[w].msg = worker[w].msg
      BY <1>4, <3>1 DEF WorkerRecord
    <3> QED
      BY <1>1, <1>4, <1>5, <3>2 DEF WorkerBudget, NotYetSent, HasSent
  <2>2. CASE Claim(w)
    <3>1. worker[w].pc = "claim" /\ (Goto(w, "send") \/ Goto(w, "noprov"))
      BY <2>2 DEF Claim
    <3>2. /\ worker'[w].pc \in {"send", "noprov"} /\ worker'[w].msg = worker[w].msg
          /\ worker'[w].seen = worker[w].seen
      BY <3>1, GotoSeen
    <3> QED
      BY <1>1, <1>5, <3>1, <3>2 DEF WorkerBudget, BudgetInv, NotYetSent, HasSent
  <2>3. CASE RecordAttempt(w)
    <3>1. /\ worker[w].pc = "record"
          /\ \/ Goto(w, "deliver") \/ Goto(w, "requeue")
             \/ Goto(w, "fail") /\ ~ShouldRetry(worker[w].seen + 1, MaxRetriesOf[Id(w)])
      BY <2>3, Zenon DEF RecordAttempt
    <3>2. /\ worker'[w].pc \in {"deliver", "requeue", "fail"} /\ worker'[w].msg = worker[w].msg
          /\ worker'[w].seen = worker[w].seen
          /\ worker'[w].pc = "fail" => ~(worker[w].seen + 1 < MaxRetriesOf[Id(w)])
      BY <3>1, GotoSeen DEF ShouldRetry
    <3> QED
      BY <1>1, <1>4, <1>5, <3>1, <3>2 DEF WorkerBudget, BudgetInv, NotYetSent, HasSent
  <2>4. CASE SetQueued(w) \/ SetFailed(w)
    <3>1. \/ worker[w].pc = "requeue" /\ Goto(w, "delay")
          \/ worker[w].pc = "fail" /\ Goto(w, "bury")
      BY <2>4 DEF SetQueued, SetFailed, SetOutcome
    <3>2. /\ \/ worker[w].pc = "requeue" /\ worker'[w].pc = "delay"
             \/ worker[w].pc = "fail" /\ worker'[w].pc = "bury"
          /\ worker'[w].msg = worker[w].msg /\ worker'[w].seen = worker[w].seen
      BY <3>1, GotoSeen
    <3> QED
      BY <1>1, <1>5, <3>2 DEF WorkerBudget, BudgetInv, NotYetSent, HasSent
  <2> QED
    BY <2>1, <2>2, <2>3, <2>4
<1>7. NoEarlyBurial'
  BY <1>1 DEF BudgetInv, NoEarlyBurial, Promise!Budget
<1> QED
  BY <1>1, <1>3, <1>6, <1>7, OtherWorkers, MovingStep

LEMMA BuryStep ==
  ASSUME TypeOK, IndexOK, BudgetInv, NEW w \in Workers, Bury(w)
  PROVE  BudgetInv'
<1> USE DEF storeVars, pgVars, redisVars, groupVars, historyVars
<1>1. /\ worker[w].pc = "bury" /\ Goto(w, "ack") /\ UNCHANGED <<attemptCount, sends, stream>>
      /\ dlq' = [dlq EXCEPT ![Id(w)] = @ + 1] \/ dlq' = dlq
  <2>1. PICK done \in Calls("redis", w) : Bury(w)!(done)
    BY DEF Bury
  <2>2. dlq' = [dlq EXCEPT ![Id(w)] = @ + 1] \/ dlq' = dlq
    BY <2>1, Zenon DEF Push
  <2> QED
    BY <2>1, <2>2
<1>2. WorkerStep(w)
  BY DEF WorkerStep, ProcessMessage
<1>3. Grown
  BY <1>1 DEF Grown, TypeOK, StoresTypeOK
<1>4. worker'[w].pc = "ack"
  BY <1>1, GotoSeen
<1>5. WorkerBudget(w)' /\ worker'[w].pc # "count"
  BY <1>4 DEF WorkerBudget, NotYetSent, HasSent
<1>6. /\ worker[w].seen \in Nat /\ Id(w) \in Notifications
      /\ sends[Id(w)] \in Nat /\ MaxRetriesOf[Id(w)] \in Nat
      /\ worker[w].seen + 1 <= sends[Id(w)] /\ MaxRetriesOf[Id(w)] <= worker[w].seen + 1
  BY <1>1, WorkerTyped DEF HasSent, BudgetInv, WorkerBudget
<1>7. sends[Id(w)] >= Promise!Budget(Id(w))
  BY <1>6 DEF Promise!Budget
<1>8. NoEarlyBurial'
  BY <1>1, <1>7 DEF BudgetInv, NoEarlyBurial, Promise!Budget, TypeOK, StoresTypeOK
<1> QED
  BY <1>1, <1>2, <1>3, <1>5, <1>8, OtherWorkers, MovingStep

LEMMA WorkerBudgetStep ==
  ASSUME TypeOK, IndexOK, Grown, BudgetInv, NEW w \in Workers, WorkerStep(w)
  PROVE  BudgetInv'
<1> USE DEF storeVars, pgVars, redisVars, groupVars, historyVars
<1>1. CASE \/ worker'[w].pc \in Harmless /\ UNCHANGED <<attemptCount, sends, dlq>>
           \/ UNCHANGED <<worker, attemptCount, sends, dlq>>
  BY <1>1, OtherWorkers, QuietStep
<1>2. CASE Read(w)
  <2>1. worker'[w].pc = "limit"
    BY <1>2 DEF Read, Take, TypeOK, DispatcherTypeOK
  <2> QED
    BY <1>1, <1>2, <2>1 DEF Read, Harmless
<1>3. CASE ReadLost(w) \/ ReadNothing(w)
  <2>1. (UNCHANGED worker \/ Goto(w, "stopped")) /\ UNCHANGED <<attemptCount, sends, dlq>>
    BY <1>3, Zenon DEF ReadLost, ReadNothing
  <2> QED
    BY <1>1, <2>1, GotoSeen DEF Harmless
<1>4. CASE LimitAborted(w) \/ Acknowledge(w)
  <2>1. Advance(w) /\ UNCHANGED <<attemptCount, sends, dlq>>
    BY <1>4 DEF LimitAborted, Acknowledge
  <2> QED
    BY <1>1, <2>1, AdvancePC DEF Harmless
<1>5. CASE \/ Limit(w) \/ FetchFailed(w) \/ NoProvider(w) \/ SetDelivered(w) \/ ScheduleRetry(w)
           \/ Fetch(w) /\ status[Id(w)] \in SkippedStatus
  <2>1. (Goto(w, "fetch") \/ Goto(w, "ack")) /\ UNCHANGED <<attemptCount, sends, dlq>>
    BY <1>5 DEF Limit, FetchFailed, NoProvider, SetDelivered, SetOutcome, ScheduleRetry, Fetch
  <2> QED
    BY <1>1, <2>1, GotoSeen DEF Harmless
<1> QED
  BY <1>2, <1>3, <1>4, <1>5, SendStep, CountStep, DecidingStep, BuryStep
     DEF WorkerStep, ProcessMessage

LEMMA BudgetNext ==
  ASSUME TypeOK, IndexOK, BudgetInv, [Next]_vars
  PROVE  BudgetInv'
<1> USE DEF storeVars, pgVars, redisVars, groupVars, historyVars
<1>1. Grown
  BY NextGrows
<1>2. CASE \/ \E h \in Handlers : HandlerStep(h) /\ UNCHANGED <<due, pump, worker>>
           \/ \E n \in Notifications : Cancel(n) /\ UNCHANGED <<due, pump, worker>>
           \/ \E i \in Instances : SchedulerStep(i) /\ UNCHANGED <<handler, pump, worker>>
           \/ \E i \in Instances : DelayedRetryStep(i) /\ UNCHANGED <<handler, due, worker>>
           \/ UNCHANGED vars
  <2>1. UNCHANGED <<worker, attemptCount, sends, dlq>>
    <3>1. ASSUME NEW h \in Handlers, HandlerStep(h)
          PROVE  UNCHANGED <<attemptCount, sends, dlq>>
      BY <3>1 DEF HandlerStep, Create, CreateBatch, Submit, EnqueueNext, MarkQueued
    <3>2. ASSUME NEW n \in Notifications, Cancel(n)
          PROVE  UNCHANGED <<attemptCount, sends, dlq>>
      BY <3>2 DEF Cancel
    <3>3. ASSUME NEW i \in Instances, SchedulerStep(i)
          PROVE  UNCHANGED <<attemptCount, sends, dlq>>
      BY <3>3 DEF SchedulerStep, FetchScheduledDue, EnqueueDue
    <3>4. ASSUME NEW i \in Instances, DelayedRetryStep(i)
          PROVE  UNCHANGED <<attemptCount, sends, dlq>>
      BY <3>4 DEF DelayedRetryStep, RangeDelayed, RemovePopped, Reenqueue
    <3> QED
      BY <1>2, <3>1, <3>2, <3>3, <3>4 DEF vars
  <2> QED
    BY <1>1, <2>1, QuietStep
<1>3. CASE \E w \in Workers : WorkerStep(w)
  BY <1>1, <1>3, WorkerBudgetStep
<1>4. CASE \E i \in Instances : Stop(i) \/ Crash(i) \/ Exit(i) \/ Start(i)
  <2>1. UNCHANGED <<attemptCount, sends, dlq>>
    BY <1>4 DEF Stop, Crash, Exit, Halt, Start
  <2>2. \A v \in Workers : worker'[v].pc \in Harmless \/ worker'[v] = worker[v]
    BY <1>4 DEF Stop, Crash, Exit, Halt, Start, NewWorker, Harmless
  <2> QED
    BY <1>1, <2>1, <2>2, QuietStep
<1> QED
  BY <1>2, <1>3, <1>4 DEF Next

LEMMA BudgetInit == Init => BudgetInv
<1> SUFFICES ASSUME Init
             PROVE  BudgetInv
  OBVIOUS
<1>1. \A n \in Notifications : Counting(n) = {}
  BY DEF Init, DispatcherInit, NewWorker, Counting
<1>2. ASSUME NEW n \in Notifications
      PROVE  CountOK(n)
  <2>1. IsFiniteSet(Counting(n)) /\ Cardinality(Counting(n)) = 0
    BY <1>1, FS_EmptySet
  <2>2. attemptCount[n] = 0 /\ sends[n] = 0
    BY DEF Init, StoresInit
  <2> QED
    BY <2>1, <2>2 DEF CountOK
<1> QED
  BY <1>2 DEF BudgetInv, WorkerBudget, NotYetSent, HasSent, NoEarlyBurial, Init, StoresInit,
     DispatcherInit, NewWorker

\* A notification reaches the dead letter queue only after max_retries attempts
\* (one when it is 0), whatever calls fail, whichever processes die and however
\* many workers hold copies of its message.
THEOREM NothingIsBuriedEarly == Spec => []NoEarlyBurial
<1>1. TypeOK /\ IndexOK /\ BudgetInv /\ [Next]_vars => TypeOK' /\ IndexOK' /\ BudgetInv'
  BY NextOK, BudgetNext
<1>2. BudgetInv => NoEarlyBurial
  BY DEF BudgetInv
<1> QED
  BY InitOK, BudgetInit, <1>1, <1>2, PTL DEF Spec

-----------------------------------------------------------------------------
\* Only rows that are stored travel through the pipeline and are sent.
Known(n) == status[n] # "absent"

StoredOnly ==
  /\ \A n \in Notifications : sends[n] > 0 => Known(n)
  /\ \A h \in Handlers : \A n \in handler[h].job \cup handler[h].mark : Known(n)
  /\ \A i \in Instances : \A n \in due[i] \cup pump[i].hand : Known(n)
  /\ \A n \in delayed : Known(n)
  /\ \A p \in Priority : \A k \in 1 .. Len(stream[p]) : Known(stream[p][k])

OneRowPerKey ==
  \A m, n \in Notifications :
    m # n /\ KeyOf[m] = KeyOf[n] /\ KeyOf[m] # NoKey => ~(Known(m) /\ Known(n))

KeyInv == StoredOnly /\ OneRowPerKey

LEMMA EnqueueKnown ==
  ASSUME TypeOK, StoredOnly, NEW n \in Notifications, Known(n), NEW done, Enqueue(n, done)
  PROVE  \A p \in Priority : \A k \in 1 .. Len(stream'[p]) : Known(stream'[p][k])
<1>1. PriorityOf[n] \in Priority /\ stream \in [Priority -> Seq(Notifications)]
  BY StoresAssumption DEF TypeOK, StoresTypeOK
<1>2. stream' = [stream EXCEPT ![PriorityOf[n]] = Append(@, n)] \/ stream' = stream
  BY Zenon DEF Enqueue
<1>3. CASE stream' = stream
  BY <1>3 DEF StoredOnly
<1>4. ASSUME stream' = [stream EXCEPT ![PriorityOf[n]] = Append(@, n)],
             NEW p \in Priority, NEW k \in 1 .. Len(stream'[p])
      PROVE  Known(stream'[p][k])
  <2>1. stream[p] \in Seq(Notifications)
    BY <1>1
  <2>2. CASE p = PriorityOf[n]
    <3>1. stream'[p] = Append(stream[p], n)
      BY <1>1, <1>4, <2>2
    <3>2. stream'[p][k] = n \/ (k \in 1 .. Len(stream[p]) /\ stream'[p][k] = stream[p][k])
      BY <2>1, <3>1
    <3> QED
      BY <3>2 DEF StoredOnly
  <2>3. CASE p # PriorityOf[n]
    BY <1>1, <1>4, <2>3 DEF StoredOnly
  <2> QED
    BY <2>2, <2>3
<1> QED
  BY <1>2, <1>3, <1>4

\* A worker's notification comes from a stream.
LEMMA IdKnown ==
  ASSUME TypeOK, IndexOK, StoredOnly, NEW w \in Workers, Active(w)
  PROVE  Id(w) \in Notifications /\ Known(Id(w))
<1> DEFINE m == worker[w].msg
<1>1. m[1] \in Priority /\ m[2] \in Nat \ {0} /\ m[2] <= lastDelivered[m[1]]
  BY DEF IndexOK, HandedOut, Messages
<1>2. lastDelivered[m[1]] \in Nat /\ Len(stream[m[1]]) \in Nat /\ lastDelivered[m[1]] <= Len(stream[m[1]])
  BY <1>1 DEF TypeOK, StoresTypeOK, IndexOK
<1>3. m[2] \in 1 .. Len(stream[m[1]])
  BY <1>1, <1>2
<1> QED
  BY <1>1, <1>3, IdType DEF Id, Subject, StoredOnly

LEMMA UpdateKnown ==
  ASSUME TypeOK, NEW x \in Notifications, Known(x), NEW s \in Status, NEW done,
         UpdateStatus(x, s, done)
  PROVE  \A n \in Notifications : Known(n)' <=> Known(n)
<1>1. status' = [status EXCEPT ![x] = s] \/ status' = status
  BY Zenon DEF UpdateStatus
<1> QED
  BY <1>1 DEF TypeOK, StoresTypeOK, Status, Known

\* When no row is created, it is enough that nothing but stored rows travels.
LEMMA SameRows ==
  ASSUME TypeOK', OneRowPerKey, \A n \in Notifications : Known(n)' <=> Known(n),
         \A n \in Notifications : sends'[n] > 0 => Known(n),
         \A h \in Handlers : \A n \in handler'[h].job \cup handler'[h].mark : Known(n),
         \A i \in Instances : \A n \in due'[i] \cup pump'[i].hand : Known(n),
         \A n \in delayed' : Known(n),
         \A p \in Priority : \A k \in 1 .. Len(stream'[p]) : Known(stream'[p][k])
  PROVE  KeyInv'
<1>1. /\ \A h \in Handlers : handler'[h].job \cup handler'[h].mark \subseteq Notifications
      /\ \A i \in Instances : due'[i] \cup pump'[i].hand \subseteq Notifications
      /\ delayed' \subseteq Notifications
  BY DEF TypeOK, StoresTypeOK, ServiceTypeOK, SchedulerTypeOK, DelayedRetryTypeOK
<1>2. \A p \in Priority : \A k \in 1 .. Len(stream'[p]) : stream'[p][k] \in Notifications
  BY DEF TypeOK, StoresTypeOK
<1>3. StoredOnly'
  BY <1>1, <1>2 DEF StoredOnly
<1>4. OneRowPerKey'
  BY DEF OneRowPerKey
<1> QED
  BY <1>3, <1>4 DEF KeyInv

LEMMA SubmitKey ==
  ASSUME TypeOK, KeyInv, NEW h \in Handlers, NEW S \in SUBSET Notifications,
         NEW deferred \in SUBSET S, NEW replied, Submit(h, S, deferred, replied),
         UNCHANGED <<due, pump, worker>>
  PROVE  KeyInv'
<1> USE DEF redisVars, groupVars
<1>1. \A n \in Notifications : Known(n)' <=> Known(n) \/ n \in S
  BY DEF Submit, Insert, Insertable, Known, TypeOK, StoresTypeOK
<1>2. handler' = [handler EXCEPT ![h].job = S \ deferred]
        \/ handler' = [handler EXCEPT ![h].job = {}]
  BY Zenon DEF Submit
<1>3. handler \in [Handlers -> [job : SUBSET Notifications, mark : SUBSET Notifications]]
  BY DEF TypeOK, ServiceTypeOK
<1>4. \A g \in Handlers : \A n \in handler'[g].job \cup handler'[g].mark :
        n \in Notifications /\ (n \in S \/ n \in handler[g].job \cup handler[g].mark)
  BY <1>2, <1>3
<1>5. StoredOnly'
  <2>1. \A g \in Handlers : \A n \in handler'[g].job \cup handler'[g].mark : Known(n)'
    BY <1>1, <1>4 DEF KeyInv, StoredOnly
  <2>2. \A i \in Instances : \A n \in due'[i] \cup pump'[i].hand : Known(n)'
    BY <1>1 DEF KeyInv, StoredOnly, TypeOK, SchedulerTypeOK, DelayedRetryTypeOK
  <2>3. /\ \A n \in delayed' : Known(n)'
        /\ \A n \in Notifications : sends'[n] > 0 => Known(n)'
    BY <1>1 DEF Submit, KeyInv, StoredOnly, TypeOK, StoresTypeOK
  <2>4. \A p \in Priority : \A k \in 1 .. Len(stream[p]) : stream[p][k] \in Notifications
    BY DEF TypeOK, StoresTypeOK
  <2>5. \A p \in Priority : \A k \in 1 .. Len(stream'[p]) : Known(stream[p][k])'
    BY <1>1, <2>4 DEF Submit, KeyInv, StoredOnly
  <2> QED
    BY <2>1, <2>2, <2>3, <2>5 DEF StoredOnly
<1>6. OneRowPerKey'
  BY <1>1 DEF Submit, Insertable, KeyInv, OneRowPerKey, Known
<1> QED
  BY <1>5, <1>6 DEF KeyInv

LEMMA HandlerKey ==
  ASSUME TypeOK, TypeOK', KeyInv, NEW h \in Handlers, HandlerStep(h), UNCHANGED <<due, pump, worker>>
  PROVE  KeyInv'
<1> USE DEF storeVars, pgVars, redisVars, groupVars, historyVars
<1>1. handler \in [Handlers -> [job : SUBSET Notifications, mark : SUBSET Notifications]]
  BY DEF TypeOK, ServiceTypeOK
<1>2. CASE Create(h)
  <2>1. PICK n \in Notifications : \E deferred \in SUBSET {n}, replied \in BOOLEAN :
               Submit(h, {n}, deferred, replied)
    BY <1>2 DEF Create
  <2> QED
    BY <2>1, SubmitKey
<1>3. CASE CreateBatch(h)
  BY <1>3, SubmitKey, ServiceAssumption DEF CreateBatch
<1>4. CASE EnqueueNext(h)
  <2>1. PICK n \in handler[h].job, done \in BOOLEAN, replied \in BOOLEAN :
               EnqueueNext(h)!(n, done, replied)
    BY <1>4 DEF EnqueueNext
  <2>2. n \in Notifications /\ Known(n)
    BY <1>1 DEF KeyInv, StoredOnly
  <2>3. \A p \in Priority : \A k \in 1 .. Len(stream'[p]) : Known(stream'[p][k])
    BY <2>1, <2>2, EnqueueKnown DEF KeyInv
  <2>4. handler' = [handler EXCEPT ![h].job = @ \ {n}, ![h].mark = {n}]
          \/ handler' = [handler EXCEPT ![h].job = @ \ {n}, ![h].mark = {}]
    BY <2>1, Zenon
  <2>5. \A g \in Handlers : \A x \in handler'[g].job \cup handler'[g].mark :
          x = n \/ x \in handler[g].job \cup handler[g].mark
    BY <1>1, <2>4
  <2> QED
    BY <2>1, <2>2, <2>3, <2>5, SameRows DEF KeyInv, StoredOnly, Known
<1>5. CASE MarkQueued(h)
  <2>1. PICK n \in handler[h].mark, done \in BOOLEAN : MarkQueued(h)!(n, done)
    BY <1>5 DEF MarkQueued
  <2>2. n \in Notifications /\ Known(n)
    BY <1>1 DEF KeyInv, StoredOnly
  <2>3. \A x \in Notifications : Known(x)' <=> Known(x)
    BY <2>1, <2>2, UpdateKnown DEF Status
  <2>4. \A g \in Handlers : handler'[g].job \cup handler'[g].mark \subseteq
                              handler[g].job \cup handler[g].mark
    BY <1>1, <2>1
  <2> QED
    BY <2>1, <2>3, <2>4, SameRows DEF KeyInv, StoredOnly
<1> QED
  BY <1>2, <1>3, <1>4, <1>5 DEF HandlerStep

LEMMA SchedulerKey ==
  ASSUME TypeOK, TypeOK', KeyInv, NEW i \in Instances, SchedulerStep(i),
         UNCHANGED <<handler, pump, worker>>
  PROVE  KeyInv'
<1> USE DEF storeVars, pgVars, redisVars, groupVars, historyVars
<1>1. due \in [Instances -> SUBSET Notifications]
  BY DEF TypeOK, SchedulerTypeOK
<1>2. CASE FetchScheduledDue(i)
  <2>0. PICK S \in SUBSET Claimable : FetchScheduledDue(i)!(S)
    BY <1>2 DEF FetchScheduledDue
  <2>1. PICK got \in SUBSET S : FetchScheduledDue(i)!(S)!(got)
    BY <2>0
  <2>2. \A n \in S : Known(n)
    BY DEF Claimable, Known
  <2>3. \A n \in Notifications : Known(n)' <=> Known(n)
    BY <2>1, <2>2 DEF Known
  <2>4. \A j \in Instances : due'[j] \subseteq due[j] \cup S
    BY <1>1, <2>1
  <2> QED
    BY <2>1, <2>2, <2>3, <2>4, SameRows DEF KeyInv, StoredOnly
<1>3. CASE EnqueueDue(i)
  <2>1. PICK n \in due[i], done \in Outcomes("redis", i) : EnqueueDue(i)!(n, done)
    BY <1>3 DEF EnqueueDue
  <2>2. n \in Notifications /\ Known(n)
    BY <1>1 DEF KeyInv, StoredOnly
  <2>3. \A p \in Priority : \A k \in 1 .. Len(stream'[p]) : Known(stream'[p][k])
    BY <2>1, <2>2, EnqueueKnown DEF KeyInv
  <2>4. \A j \in Instances : due'[j] \subseteq due[j]
    BY <1>1, <2>1
  <2> QED
    BY <2>1, <2>3, <2>4, SameRows DEF KeyInv, StoredOnly, Known
<1> QED
  BY <1>2, <1>3 DEF SchedulerStep

LEMMA DelayedRetryKey ==
  ASSUME TypeOK, TypeOK', KeyInv, NEW i \in Instances, DelayedRetryStep(i),
         UNCHANGED <<handler, due, worker>>
  PROVE  KeyInv'
<1> USE DEF storeVars, pgVars, redisVars, groupVars, historyVars
<1>1. pump \in [Instances -> [hand : SUBSET Notifications, popped : BOOLEAN]]
  BY DEF TypeOK, DelayedRetryTypeOK
<1>2. CASE RangeDelayed(i)
  <2>1. PICK S \in SUBSET delayed : RangeDelayed(i)!(S)
    BY <1>2 DEF RangeDelayed
  <2>2. \A j \in Instances : pump'[j].hand \subseteq pump[j].hand \cup S
    BY <1>1, <2>1
  <2> QED
    BY <2>1, <2>2, SameRows DEF KeyInv, StoredOnly, Known
<1>3. CASE RemovePopped(i)
  <2>1. PICK done \in Outcomes("redis", i) : RemovePopped(i)!(done)
    BY <1>3 DEF RemovePopped
  <2>2. delayed' = delayed \ pump[i].hand \/ delayed' = delayed
    BY <2>1, Zenon
  <2>3. \A j \in Instances : pump'[j].hand = pump[j].hand
    BY <1>1, <2>1
  <2> QED
    BY <2>1, <2>2, <2>3, SameRows DEF KeyInv, StoredOnly, Known
<1>4. CASE Reenqueue(i)
  <2>1. PICK n \in pump[i].hand, done \in Outcomes("redis", i) : Reenqueue(i)!(n, done)
    BY <1>4 DEF Reenqueue
  <2>2. n \in Notifications /\ Known(n)
    BY <1>1 DEF KeyInv, StoredOnly
  <2>3. \A p \in Priority : \A k \in 1 .. Len(stream'[p]) : Known(stream'[p][k])
    BY <2>1, <2>2, EnqueueKnown DEF KeyInv
  <2>4. \A j \in Instances : pump'[j].hand \subseteq pump[j].hand
    BY <1>1, <2>1
  <2> QED
    BY <2>1, <2>3, <2>4, SameRows DEF KeyInv, StoredOnly, Known
<1> QED
  BY <1>2, <1>3, <1>4 DEF DelayedRetryStep

\* A worker writes the status of its own notification, sends it, and hands it
\* to the sorted set; nothing else.
LEMMA WorkerTouches ==
  ASSUME TypeOK, IndexOK, KeyInv, NEW w \in Workers, WorkerStep(w)
  PROVE  /\ UNCHANGED stream
         /\ \A n \in Notifications : Known(n)' <=> Known(n)
         /\ \A n \in Notifications : sends'[n] = sends[n] \/ Known(n)
         /\ \A n \in delayed' : n \in delayed \/ Known(n)
<1> USE DEF storeVars, pgVars, redisVars, groupVars, historyVars
<1>1. CASE UNCHANGED <<status, sends, delayed, stream>>
  BY <1>1 DEF Known
<1>2. Active(w) => Id(w) \in Notifications /\ Known(Id(w))
  BY IdKnown DEF KeyInv
<1>3. CASE Claim(w) \/ NoProvider(w) \/ SetDelivered(w) \/ SetQueued(w) \/ SetFailed(w)
  <2>1. UNCHANGED <<sends, delayed, stream>>
    BY <1>3 DEF Claim, NoProvider, SetDelivered, SetQueued, SetFailed, SetOutcome, End
  <2>2. Active(w)
    BY <1>3 DEF Claim, NoProvider, SetDelivered, SetQueued, SetFailed, SetOutcome, Active
  <2>3. \E s \in {"processing", "failed", "delivered", "queued"} : \E done \in Calls("pg", w) :
          UpdateStatus(Id(w), s, done)
    BY <1>3 DEF Claim, NoProvider, SetDelivered, SetQueued, SetFailed, SetOutcome
  <2>4. PICK s \in {"processing", "failed", "delivered", "queued"}, done \in Calls("pg", w) :
          UpdateStatus(Id(w), s, done)
    BY <2>3
  <2>5. s \in Status
    BY DEF Status
  <2>6. \A n \in Notifications : Known(n)' <=> Known(n)
    BY <1>2, <2>2, <2>4, <2>5, UpdateKnown
  <2> QED
    BY <2>1, <2>6
<1>4. CASE Send(w)
  <2>1. Active(w) /\ sends' = [sends EXCEPT ![Id(w)] = @ + 1] /\ UNCHANGED <<status, delayed, stream>>
    BY <1>4 DEF Send, Active
  <2> QED
    BY <1>2, <2>1 DEF Known, TypeOK, StoresTypeOK
<1>5. CASE ScheduleRetry(w)
  <2>1. PICK done \in Calls("redis", w) : ScheduleRetry(w)!(done)
    BY <1>5 DEF ScheduleRetry
  <2>2. delayed' = delayed \cup {Id(w)} \/ delayed' = delayed
    BY <2>1, Zenon DEF EnqueueDelayed
  <2>3. Active(w) /\ UNCHANGED <<status, sends, stream>>
    BY <2>1 DEF Active
  <2> QED
    BY <1>2, <2>2, <2>3 DEF Known
<1>6. CASE \/ Read(w) \/ ReadLost(w) \/ ReadNothing(w) \/ Limit(w) \/ LimitAborted(w) \/ Fetch(w)
           \/ FetchFailed(w) \/ CountAttempt(w) \/ RecordAttempt(w) \/ Bury(w) \/ Acknowledge(w)
  BY <1>1, <1>6 DEF Read, ReadLost, ReadNothing, Limit, LimitAborted, Fetch, FetchFailed,
     CountAttempt, RecordAttempt, Bury, Acknowledge
<1> QED
  BY <1>3, <1>4, <1>5, <1>6 DEF WorkerStep, ProcessMessage

LEMMA KeyNext ==
  ASSUME TypeOK, IndexOK, TypeOK', KeyInv, [Next]_vars
  PROVE  KeyInv'
<1> USE DEF storeVars, pgVars, redisVars, groupVars, historyVars
<1>1. CASE \E n \in Notifications : Cancel(n) /\ UNCHANGED <<due, pump, worker>>
  <2>1. PICK n \in Notifications : Cancel(n) /\ UNCHANGED <<due, pump, worker>>
    BY <1>1
  <2>2. Known(n)
    BY <2>1 DEF Cancel, CancellableStatus, Known
  <2>3. \A x \in Notifications : Known(x)' <=> Known(x)
    BY <2>1, <2>2, UpdateKnown DEF Cancel, Status
  <2> QED
    BY <2>1, <2>3, SameRows DEF Cancel, KeyInv, StoredOnly
<1>2. CASE \E w \in Workers : WorkerStep(w) /\ UNCHANGED <<handler, due, pump>>
  BY <1>2, WorkerTouches, SameRows DEF KeyInv, StoredOnly
<1>3. CASE \E i \in Instances : Stop(i) \/ Crash(i) \/ Exit(i) \/ Start(i)
  <2>1. UNCHANGED <<pgVars, redisVars, sends>>
    BY <1>3 DEF Stop, Crash, Exit, Halt, Start
  <2>2. \A h \in Handlers : handler'[h].job \cup handler'[h].mark \subseteq
                              handler[h].job \cup handler[h].mark
    BY <1>3 DEF Stop, Crash, Exit, Halt, Start, IdleHandler
  <2>3. \A i \in Instances : due'[i] \cup pump'[i].hand \subseteq due[i] \cup pump[i].hand
    BY <1>3 DEF Stop, Crash, Exit, Halt, Start, IdlePump, TypeOK, SchedulerTypeOK, DelayedRetryTypeOK
  <2> QED
    BY <2>1, <2>2, <2>3, SameRows DEF KeyInv, StoredOnly, Known
<1>4. CASE UNCHANGED vars
  BY <1>4, SameRows DEF vars, KeyInv, StoredOnly, Known
<1> QED
  BY <1>1, <1>2, <1>3, <1>4, HandlerKey, SchedulerKey, DelayedRetryKey DEF Next

LEMMA KeyInit == Init => KeyInv
BY DEF Init, StoresInit, ServiceInit, SchedulerInit, DelayedRetryInit, IdleHandler, IdlePump,
   KeyInv, StoredOnly, OneRowPerKey, Known

\* Of the notifications submitted with one idempotency key, at most one is ever
\* handed to a provider.
THEOREM KeysAreSentOnce == Spec => []OneSendPerKey
<1>1. TypeOK /\ IndexOK /\ KeyInv /\ [Next]_vars => TypeOK' /\ IndexOK' /\ KeyInv'
  BY NextOK, KeyNext
<1>2. TypeOK /\ KeyInv => OneSendPerKey
  <2> SUFFICES ASSUME TypeOK, KeyInv, NEW m \in Notifications, NEW n \in Notifications,
                      m # n, KeyOf[m] = KeyOf[n], KeyOf[m] # NoKey
               PROVE  sends[m] = 0 \/ sends[n] = 0
    BY DEF OneSendPerKey
  <2>1. sends[m] \in Nat /\ sends[n] \in Nat
    BY DEF TypeOK, StoresTypeOK
  <2> QED
    BY <2>1 DEF KeyInv, StoredOnly, OneRowPerKey
<1> QED
  BY InitOK, KeyInit, <1>1, <1>2, PTL DEF Spec

=============================================================================
