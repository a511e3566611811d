--------------------------- MODULE NotifierProofs ---------------------------
(***************************************************************************)
(* Proofs, for every value of the constants and under every fault, that    *)
(* variables keep their types and that final statuses stay.                *)
(***************************************************************************)
EXTENDS Notifier, TLAPS

-----------------------------------------------------------------------------
\* The invariant

\* The group has handed m to some worker.
HandedOut(m) == m \in Messages /\ m[2] <= lastDelivered[m[1]]

Active(w) == worker[w].pc \notin {"reading", "stopped"}

\* Every message a worker knows of names an entry of its stream.
IndexOK ==
  /\ \A p \in Priority : lastDelivered[p] <= Len(stream[p])
  /\ \A w \in Workers : /\ Active(w) => HandedOut(worker[w].msg)
                        /\ \A m \in worker[w].rest : HandedOut(m)

-----------------------------------------------------------------------------

LEMMA SubjectType ==
  ASSUME TypeOK, IndexOK, NEW m, HandedOut(m)
  PROVE  Subject(m) \in Notifications
BY DEF TypeOK, StoresTypeOK, IndexOK, HandedOut, Messages, Subject

LEMMA InitOK == Init => TypeOK /\ IndexOK
BY StoresAssumption DEF Init, StoresInit, ServiceInit, SchedulerInit, DelayedRetryInit,
   DispatcherInit, TypeOK, StoresTypeOK, ServiceTypeOK, SchedulerTypeOK,
   DelayedRetryTypeOK, DispatcherTypeOK, IndexOK, Active, NewWorker, IdleHandler,
   IdlePump, NoMessage, Status, EndKinds, PC, Messages

-----------------------------------------------------------------------------
\* Effects of the stores' operations on the types and on the streams

\* Streams are append-only.
Grown == \A p \in Priority :
           /\ Len(stream[p]) <= Len(stream'[p])
           /\ \A k \in 1 .. Len(stream[p]) : stream'[p][k] = stream[p][k]

LEMMA EnqueueGrows ==
  ASSUME TypeOK, NEW n \in Notifications, NEW done, Enqueue(n, done)
  PROVE  stream' \in [Priority -> Seq(Notifications)] /\ Grown
<1>1. PriorityOf[n] \in Priority
  BY StoresAssumption
<1>2. stream' = [stream EXCEPT ![PriorityOf[n]] = Append(@, n)] \/ stream' = stream
  BY Zenon DEF Enqueue
<1>3. CASE stream' = stream
  BY <1>3 DEF TypeOK, StoresTypeOK, Grown
<1>4. CASE stream' = [stream EXCEPT ![PriorityOf[n]] = Append(@, n)]
  <2>1. stream \in [Priority -> Seq(Notifications)]
    BY DEF TypeOK, StoresTypeOK
  <2>2. ASSUME NEW p \in Priority
        PROVE  /\ Len(stream[p]) <= Len(stream'[p])
               /\ \A k \in 1 .. Len(stream[p]) : stream'[p][k] = stream[p][k]
    <3>1. stream[p] \in Seq(Notifications)
      BY <2>1
    <3>2. CASE p = PriorityOf[n]
      BY <1>4, <2>1, <3>1, <3>2
    <3>3. CASE p # PriorityOf[n]
      BY <1>4, <2>1, <3>1, <3>3
    <3> QED BY <3>2, <3>3
  <2>3. stream' \in [Priority -> Seq(Notifications)]
    BY <1>1, <1>4, <2>1
  <2> QED BY <2>2, <2>3 DEF Grown
<1> QED BY <1>2, <1>3, <1>4

LEMMA EndType ==
  ASSUME TypeOK, NEW S, NEW how \in EndKinds, End(S, how)
  PROVE  ends' \in [Notifications -> SUBSET EndKinds]
BY DEF End, TypeOK, StoresTypeOK

LEMMA UpdateStatusType ==
  ASSUME TypeOK, NEW n, NEW s \in Status, NEW done, UpdateStatus(n, s, done)
  PROVE  status' \in [Notifications -> Status \cup {"absent"}]
<1>1. status' = [status EXCEPT ![n] = s] \/ status' = status
  BY Zenon DEF UpdateStatus
<1> QED BY <1>1 DEF TypeOK, StoresTypeOK

-----------------------------------------------------------------------------
\* Steps that leave the workers and the group alone

LEMMA IndexOKFrame ==
  ASSUME TypeOK, IndexOK, Grown, UNCHANGED <<lastDelivered, worker>>
  PROVE  IndexOK'
BY DEF TypeOK, StoresTypeOK, IndexOK, HandedOut, Messages, Grown, Active

LEMMA HandlerStepOK ==
  ASSUME TypeOK, IndexOK, NEW h \in Handlers, HandlerStep(h), UNCHANGED <<due, pump, worker>>
  PROVE  TypeOK' /\ IndexOK'
<1> USE DEF storeVars, pgVars, redisVars, groupVars, historyVars
<1>1. ASSUME NEW S \in SUBSET Notifications, NEW deferred \in SUBSET S, NEW replied,
             Submit(h, S, deferred, replied)
      PROVE  TypeOK' /\ IndexOK'
  <2>1. ends' \in [Notifications -> SUBSET EndKinds]
    BY <1>1, EndType DEF Submit, EndKinds, LossKinds
  <2>2. handler' = [handler EXCEPT ![h].job = S \ deferred]
          \/ handler' = [handler EXCEPT ![h].job = {}]
    BY <1>1, Zenon DEF Submit
  <2>3. ServiceTypeOK'
    BY <2>2 DEF TypeOK, ServiceTypeOK
  <2>4. Grown
    BY <1>1 DEF Submit, Grown, TypeOK, StoresTypeOK
  <2>5. IndexOK'
    BY <1>1, <2>4, IndexOKFrame DEF Submit
  <2>6. status' \in [Notifications -> Status \cup {"absent"}]
    BY <1>1 DEF Submit, Insert, TypeOK, StoresTypeOK, Status
  <2> QED
    BY <1>1, <2>1, <2>3, <2>5, <2>6 DEF Submit, TypeOK, StoresTypeOK, SchedulerTypeOK,
       DelayedRetryTypeOK, DispatcherTypeOK
<1>2. CASE Create(h)
  <2>1. PICK n \in Notifications : \E deferred \in SUBSET {n}, replied \in BOOLEAN :
               Submit(h, {n}, deferred, replied)
    BY <1>2 DEF Create
  <2> QED BY <2>1, <1>1
<1>3. CASE CreateBatch(h)
  BY <1>1, <1>3, ServiceAssumption DEF CreateBatch
<1>4. CASE EnqueueNext(h)
  <2>1. PICK n \in handler[h].job, done \in BOOLEAN, replied \in BOOLEAN :
               EnqueueNext(h)!(n, done, replied)
    BY <1>4 DEF EnqueueNext
  <2>2. n \in Notifications
    BY DEF TypeOK, ServiceTypeOK
  <2>3. stream' \in [Priority -> Seq(Notifications)] /\ Grown
    BY <2>1, <2>2, EnqueueGrows
  <2>4. ends' \in [Notifications -> SUBSET EndKinds]
    BY <2>1, EndType DEF EndKinds, LossKinds
  <2>5. IndexOK'
    BY <2>1, <2>3, IndexOKFrame
  <2>6. handler' = [handler EXCEPT ![h].job = @ \ {n}, ![h].mark = {n}]
          \/ handler' = [handler EXCEPT ![h].job = @ \ {n}, ![h].mark = {}]
    BY <2>1, Zenon
  <2>7. ServiceTypeOK'
    BY <2>2, <2>6 DEF TypeOK, ServiceTypeOK
  <2> QED
    BY <2>1, <2>3, <2>4, <2>5, <2>7 DEF TypeOK, StoresTypeOK, SchedulerTypeOK,
       DelayedRetryTypeOK, DispatcherTypeOK
<1>5. CASE MarkQueued(h)
  <2>1. PICK n \in handler[h].mark, done \in BOOLEAN :
               /\ UpdateStatus(n, "queued", done)
               /\ handler' = [handler EXCEPT ![h].mark = {}]
               /\ UNCHANGED <<attemptCount, attempts, redisVars, ctx, historyVars>>
    BY <1>5 DEF MarkQueued
  <2>2. status' \in [Notifications -> Status \cup {"absent"}]
    BY <2>1, UpdateStatusType DEF Status
  <2>3. IndexOK'
    BY <2>1, IndexOKFrame DEF Grown, TypeOK, StoresTypeOK
  <2>4. ServiceTypeOK'
    BY <2>1 DEF TypeOK, ServiceTypeOK
  <2> QED
    BY <2>1, <2>2, <2>3, <2>4 DEF TypeOK, StoresTypeOK, SchedulerTypeOK,
       DelayedRetryTypeOK, DispatcherTypeOK
<1> QED BY <1>2, <1>3, <1>4, <1>5 DEF HandlerStep

LEMMA CancelOK ==
  ASSUME TypeOK, IndexOK, NEW n \in Notifications, Cancel(n), UNCHANGED <<due, pump, worker>>
  PROVE  TypeOK' /\ IndexOK'
<1> USE DEF storeVars, pgVars, redisVars, groupVars, historyVars
<1>1. status' \in [Notifications -> Status \cup {"absent"}]
  BY UpdateStatusType DEF Cancel, Status
<1>2. ends' \in [Notifications -> SUBSET EndKinds]
  BY EndType DEF Cancel, EndKinds, LossKinds
<1>3. IndexOK'
  BY IndexOKFrame DEF Cancel, Grown, TypeOK, StoresTypeOK
<1> QED
  BY <1>1, <1>2, <1>3 DEF Cancel, TypeOK, StoresTypeOK, ServiceTypeOK, SchedulerTypeOK,
     DelayedRetryTypeOK, DispatcherTypeOK

LEMMA SchedulerStepOK ==
  ASSUME TypeOK, IndexOK, NEW i \in Instances, SchedulerStep(i),
         UNCHANGED <<handler, pump, worker>>
  PROVE  TypeOK' /\ IndexOK'
<1> USE DEF storeVars, pgVars, redisVars, groupVars, historyVars
<1>1. CASE FetchScheduledDue(i)
  <2>0. PICK S \in SUBSET Claimable : FetchScheduledDue(i)!(S)
    BY <1>1 DEF FetchScheduledDue
  <2>1. PICK got \in SUBSET S : FetchScheduledDue(i)!(S)!(got)
    BY <2>0
  <2>2. S \subseteq Notifications /\ got \subseteq Notifications
    BY DEF Claimable
  <2>3. ends' \in [Notifications -> SUBSET EndKinds]
    BY <2>1, EndType DEF EndKinds, LossKinds
  <2>4. status' \in [Notifications -> Status \cup {"absent"}]
    BY <2>1 DEF TypeOK, StoresTypeOK, Status
  <2>5. SchedulerTypeOK'
    BY <2>1, <2>2 DEF TypeOK, SchedulerTypeOK
  <2>6. IndexOK'
    BY <2>1, IndexOKFrame DEF Grown, TypeOK, StoresTypeOK
  <2> QED
    BY <2>1, <2>3, <2>4, <2>5, <2>6 DEF TypeOK, StoresTypeOK, ServiceTypeOK,
       DelayedRetryTypeOK, DispatcherTypeOK
<1>2. CASE EnqueueDue(i)
  <2>1. PICK n \in due[i], done \in Outcomes("redis", i) : EnqueueDue(i)!(n, done)
    BY <1>2 DEF EnqueueDue
  <2>2. n \in Notifications
    BY DEF TypeOK, SchedulerTypeOK
  <2>3. stream' \in [Priority -> Seq(Notifications)] /\ Grown
    BY <2>1, <2>2, EnqueueGrows
  <2>4. ends' \in [Notifications -> SUBSET EndKinds]
    BY <2>1, EndType DEF EndKinds, LossKinds
  <2>5. IndexOK'
    BY <2>1, <2>3, IndexOKFrame
  <2>6. SchedulerTypeOK'
    BY <2>1 DEF TypeOK, SchedulerTypeOK
  <2> QED
    BY <2>1, <2>3, <2>4, <2>5, <2>6 DEF TypeOK, StoresTypeOK, ServiceTypeOK,
       DelayedRetryTypeOK, DispatcherTypeOK
<1> QED BY <1>1, <1>2 DEF SchedulerStep

LEMMA DelayedRetryStepOK ==
  ASSUME TypeOK, IndexOK, NEW i \in Instances, DelayedRetryStep(i),
         UNCHANGED <<handler, due, worker>>
  PROVE  TypeOK' /\ IndexOK'
<1> USE DEF storeVars, pgVars, redisVars, groupVars, historyVars
<1>1. CASE RangeDelayed(i)
  <2>1. PICK S \in SUBSET delayed : RangeDelayed(i)!(S)
    BY <1>1 DEF RangeDelayed
  <2>2. S \subseteq Notifications
    BY DEF TypeOK, StoresTypeOK
  <2>3. DelayedRetryTypeOK'
    BY <2>1, <2>2 DEF TypeOK, DelayedRetryTypeOK
  <2>4. IndexOK'
    BY <2>1, IndexOKFrame DEF Grown, TypeOK, StoresTypeOK
  <2> QED
    BY <2>1, <2>3, <2>4 DEF TypeOK, StoresTypeOK, ServiceTypeOK, SchedulerTypeOK,
       DispatcherTypeOK
<1>2. CASE RemovePopped(i)
  <2>1. PICK done \in Outcomes("redis", i) : RemovePopped(i)!(done)
    BY <1>2 DEF RemovePopped
  <2>2. delayed' = delayed \ pump[i].hand \/ delayed' = delayed
    BY <2>1, Zenon
  <2>3. DelayedRetryTypeOK'
    BY <2>1 DEF TypeOK, DelayedRetryTypeOK
  <2>4. IndexOK'
    BY <2>1, IndexOKFrame DEF Grown, TypeOK, StoresTypeOK
  <2> QED
    BY <2>1, <2>2, <2>3, <2>4 DEF TypeOK, StoresTypeOK, ServiceTypeOK, SchedulerTypeOK,
       DispatcherTypeOK
<1>3. CASE Reenqueue(i)
  <2>1. PICK n \in pump[i].hand, done \in Outcomes("redis", i) : Reenqueue(i)!(n, done)
    BY <1>3 DEF Reenqueue
  <2>2. n \in Notifications
    BY DEF TypeOK, DelayedRetryTypeOK
  <2>3. stream' \in [Priority -> Seq(Notifications)] /\ Grown
    BY <2>1, <2>2, EnqueueGrows
  <2>4. ends' \in [Notifications -> SUBSET EndKinds]
    BY <2>1, EndType DEF EndKinds, LossKinds
  <2>5. IndexOK'
    BY <2>1, <2>3, IndexOKFrame
  <2>6. DelayedRetryTypeOK'
    <3>1. (pump[i].hand # {n}) \in BOOLEAN
      OBVIOUS
    <3> QED BY <2>1, <3>1 DEF TypeOK, DelayedRetryTypeOK
  <2> QED
    BY <2>1, <2>3, <2>4, <2>5, <2>6 DEF TypeOK, StoresTypeOK, ServiceTypeOK,
       SchedulerTypeOK, DispatcherTypeOK
<1> QED BY <1>1, <1>2, <1>3 DEF DelayedRetryStep

-----------------------------------------------------------------------------
\* Steps of a worker

WorkerRecord == [pc : PC, msg : Messages \cup {NoMessage},
                 rest : SUBSET Messages, seen : Nat, ok : BOOLEAN]

LEMMA MoveOK ==
  ASSUME TypeOK, IndexOK, UNCHANGED <<stream, lastDelivered>>,
         NEW w \in Workers, NEW r \in WorkerRecord,
         worker' = [worker EXCEPT ![w] = r],
         r.pc \notin {"reading", "stopped"} => HandedOut(r.msg),
         \A m \in r.rest : HandedOut(m)
  PROVE  DispatcherTypeOK' /\ IndexOK'
<1>1. DispatcherTypeOK'
  BY DEF TypeOK, DispatcherTypeOK, WorkerRecord
<1>2. ASSUME NEW v \in Workers
      PROVE  /\ Active(v)' => HandedOut(worker[v].msg)'
             /\ \A m \in worker'[v].rest : HandedOut(m)'
  <2>1. CASE v = w
    <3>1. worker'[v] = r
      BY <2>1 DEF TypeOK, DispatcherTypeOK
    <3> QED BY <3>1 DEF Active, HandedOut
  <2>2. CASE v # w
    <3>1. worker'[v] = worker[v]
      BY <2>2 DEF TypeOK, DispatcherTypeOK
    <3> QED BY <3>1 DEF Active, HandedOut, IndexOK
  <2> QED BY <2>1, <2>2
<1> QED BY <1>1, <1>2 DEF IndexOK

LEMMA GotoOK ==
  ASSUME TypeOK, IndexOK, UNCHANGED <<stream, lastDelivered>>,
         NEW w \in Workers, NEW pc \in PC, Goto(w, pc),
         Active(w) \/ pc = "stopped"
  PROVE  DispatcherTypeOK' /\ IndexOK'
<1> DEFINE r == [worker[w] EXCEPT !.pc = pc]
<1>1. worker[w] \in WorkerRecord
  BY DEF TypeOK, DispatcherTypeOK, WorkerRecord
<1>2. r \in WorkerRecord /\ r.pc = pc /\ r.msg = worker[w].msg /\ r.rest = worker[w].rest
  BY <1>1 DEF WorkerRecord
<1>3. worker' = [worker EXCEPT ![w] = r]
  BY DEF Goto
<1>4. /\ r.pc \notin {"reading", "stopped"} => HandedOut(r.msg)
      /\ \A m \in r.rest : HandedOut(m)
  BY <1>2 DEF IndexOK
<1> HIDE DEF r
<1> QED BY <1>2, <1>3, <1>4, MoveOK

LEMMA AdvanceOK ==
  ASSUME TypeOK, IndexOK, UNCHANGED <<stream, lastDelivered>>,
         NEW w \in Workers, Advance(w)
  PROVE  DispatcherTypeOK' /\ IndexOK'
<1>1. ASSUME NEW m \in worker[w].rest, Take(w, m, worker[w].rest)
      PROVE  DispatcherTypeOK' /\ IndexOK'
  <2> DEFINE r == [pc |-> "limit", msg |-> m, rest |-> worker[w].rest \ {m},
                   seen |-> 0, ok |-> FALSE]
  <2>1. r \in WorkerRecord
    BY DEF TypeOK, DispatcherTypeOK, WorkerRecord, PC
  <2>2. worker' = [worker EXCEPT ![w] = r]
    BY <1>1 DEF Take
  <2>3. HandedOut(r.msg) /\ \A o \in r.rest : HandedOut(o)
    BY DEF IndexOK
  <2> HIDE DEF r
  <2> QED BY <2>1, <2>2, <2>3, MoveOK
<1>2. ASSUME NEW pc \in {"reading", "stopped"},
             worker' = [worker EXCEPT ![w] = [NewWorker EXCEPT !.pc = pc]]
      PROVE  DispatcherTypeOK' /\ IndexOK'
  <2> DEFINE r == [NewWorker EXCEPT !.pc = pc]
  <2>1. r \in WorkerRecord /\ r.pc = pc /\ r.rest = {}
    BY DEF WorkerRecord, NewWorker, PC, NoMessage
  <2>2. worker' = [worker EXCEPT ![w] = r]
    BY <1>2
  <2> HIDE DEF r
  <2> QED BY <2>1, <2>2, MoveOK
<1> QED BY <1>1, <1>2 DEF Advance

\* What XREADGROUP hands out.
LEMMA DeliverOK ==
  ASSUME TypeOK, IndexOK, DeliverFresh, UNCHANGED stream
  PROVE  /\ lastDelivered' \in [Priority -> Nat] /\ pel' \subseteq Messages
         /\ \A p \in Priority : lastDelivered'[p] <= Len(stream[p])
         /\ \A m : HandedOut(m) => HandedOut(m)'
         /\ \A m \in Fresh : HandedOut(m)'
<1>1. lastDelivered \in [Priority -> Nat]
  BY DEF TypeOK, StoresTypeOK
<1>2. /\ lastDelivered' \in [Priority -> Nat]
      /\ \A p \in Priority : lastDelivered[p] <= lastDelivered'[p]
      /\ \A p \in Undelivered : lastDelivered'[p] = lastDelivered[p] + 1
  BY <1>1 DEF DeliverFresh, Undelivered
<1>3. ASSUME NEW p \in Priority
      PROVE  lastDelivered'[p] <= Len(stream[p])
  <2>1. Len(stream[p]) \in Nat /\ lastDelivered[p] \in Nat /\ lastDelivered[p] <= Len(stream[p])
    BY DEF TypeOK, StoresTypeOK, IndexOK
  <2> QED BY <2>1 DEF DeliverFresh, Undelivered
<1>4. ASSUME NEW m, HandedOut(m)
      PROVE  HandedOut(m)'
  <2>1. m[1] \in Priority /\ m[2] \in Nat
    BY <1>4 DEF HandedOut, Messages
  <2> QED BY <1>1, <1>2, <1>4, <2>1 DEF HandedOut
<1>5. ASSUME NEW m \in Fresh
      PROVE  HandedOut(m)'
  <2>1. PICK p \in Undelivered : m = <<p, lastDelivered[p] + 1>>
    BY DEF Fresh
  <2>2. p \in Priority /\ lastDelivered[p] \in Nat
    BY <1>1 DEF Undelivered
  <2>3. m \in Messages /\ m[1] = p /\ m[2] = lastDelivered[p] + 1
    BY <2>1, <2>2 DEF Messages
  <2> QED BY <1>2, <2>2, <2>3 DEF HandedOut
<1>6. pel' \subseteq Messages
  BY <1>5 DEF DeliverFresh, HandedOut, TypeOK, StoresTypeOK
<1> QED BY <1>2, <1>3, <1>4, <1>5, <1>6

LEMMA ReadOK ==
  ASSUME TypeOK, IndexOK, NEW w \in Workers,
         Read(w) \/ ReadLost(w) \/ ReadNothing(w), UNCHANGED <<handler, due, pump>>
  PROVE  TypeOK' /\ IndexOK'
<1> USE DEF storeVars, pgVars, redisVars, groupVars, historyVars
<1>1. CASE Read(w)
  <2>1. PICK m \in Fresh : Take(w, m, Fresh)
    BY <1>1 DEF Read
  <2>2. UNCHANGED stream /\ DeliverFresh
    BY <1>1 DEF Read
  <2> DEFINE r == [pc |-> "limit", msg |-> m, rest |-> Fresh \ {m}, seen |-> 0, ok |-> FALSE]
  <2>3. Fresh \subseteq Messages
    BY <2>2, DeliverOK DEF HandedOut
  <2>4. r \in WorkerRecord /\ r.msg = m /\ r.rest = Fresh \ {m}
    BY <2>3 DEF WorkerRecord, PC
  <2>5. worker' = [worker EXCEPT ![w] = r]
    BY <2>1 DEF Take
  <2> HIDE DEF r
  <2>6. DispatcherTypeOK'
    BY <2>4, <2>5 DEF TypeOK, DispatcherTypeOK, WorkerRecord
  <2>7. ASSUME NEW v \in Workers
        PROVE  /\ Active(v)' => HandedOut(worker[v].msg)'
               /\ \A o \in worker'[v].rest : HandedOut(o)'
    <3>1. CASE v = w
      <4>1. worker'[v] = r
        BY <2>5, <3>1 DEF TypeOK, DispatcherTypeOK
      <4> QED BY <2>2, <2>4, <4>1, DeliverOK DEF HandedOut
    <3>2. CASE v # w
      <4>1. worker'[v] = worker[v]
        BY <2>5, <3>2 DEF TypeOK, DispatcherTypeOK
      <4>2. \A o : HandedOut(o) => HandedOut(o)'
        BY <2>2, DeliverOK
      <4> QED BY <4>1, <4>2 DEF Active, HandedOut, IndexOK
    <3> QED BY <3>1, <3>2
  <2>8. IndexOK'
    BY <2>2, <2>7, DeliverOK DEF IndexOK
  <2>9. lastDelivered' \in [Priority -> Nat] /\ pel' \subseteq Messages
    BY <2>2, DeliverOK
  <2> QED
    BY <1>1, <2>6, <2>8, <2>9
    DEF Read, TypeOK, StoresTypeOK, ServiceTypeOK, SchedulerTypeOK, DelayedRetryTypeOK
<1>2. CASE ReadLost(w)
  <2>1. UNCHANGED <<stream, worker>> /\ DeliverFresh
    BY <1>2 DEF ReadLost
  <2>2. ends' \in [Notifications -> SUBSET EndKinds]
    BY <1>2, EndType DEF ReadLost, EndKinds, LossKinds
  <2>3. lastDelivered' \in [Priority -> Nat] /\ pel' \subseteq Messages
    BY <2>1, DeliverOK
  <2>4. \A o : HandedOut(o) => HandedOut(o)'
    BY <2>1, DeliverOK
  <2>5. \A p \in Priority : lastDelivered'[p] <= Len(stream'[p])
    BY <2>1, DeliverOK
  <2>6. IndexOK'
    BY <2>1, <2>4, <2>5 DEF IndexOK, Active, HandedOut
  <2> QED
    BY <1>2, <2>2, <2>3, <2>6 DEF ReadLost, TypeOK, StoresTypeOK, ServiceTypeOK,
       SchedulerTypeOK, DelayedRetryTypeOK, DispatcherTypeOK
<1>3. CASE ReadNothing(w)
  <2>1. UNCHANGED storeVars /\ (UNCHANGED worker \/ Goto(w, "stopped"))
    BY <1>3 DEF ReadNothing
  <2>2. DispatcherTypeOK' /\ IndexOK'
    <3>1. CASE UNCHANGED worker
      BY <2>1, <3>1, IndexOKFrame DEF TypeOK, StoresTypeOK, DispatcherTypeOK, Grown
    <3>2. CASE Goto(w, "stopped")
      BY <2>1, <3>2, GotoOK DEF PC
    <3> QED BY <2>1, <3>1, <3>2
  <2> QED
    BY <2>1, <2>2
    DEF TypeOK, StoresTypeOK, ServiceTypeOK, SchedulerTypeOK, DelayedRetryTypeOK
<1> QED BY <1>1, <1>2, <1>3

LEMMA IdType ==
  ASSUME TypeOK, IndexOK, NEW w \in Workers, Active(w)
  PROVE  Id(w) \in Notifications
BY SubjectType DEF Id, IndexOK

\* processMessage leaves the streams, the group's position and the memory of
\* the other goroutines alone.
LEMMA ProcessMessageFrame ==
  ASSUME NEW w \in Workers, ProcessMessage(w)
  PROVE  /\ UNCHANGED <<stream, lastDelivered, ctx>>
         /\ Active(w)
BY Zenon DEF ProcessMessage, Limit, LimitAborted, Fetch, FetchFailed, Claim, NoProvider,
   Send, CountAttempt, RecordAttempt, SetDelivered, SetQueued, SetFailed, SetOutcome,
   ScheduleRetry, Bury, Acknowledge, Active, storeVars, pgVars, redisVars, groupVars,
   historyVars

\* The worker's part: it moves on, with its message, or advances.
LEMMA ProcessMessageWorker ==
  ASSUME TypeOK, IndexOK, NEW w \in Workers, ProcessMessage(w)
  PROVE  DispatcherTypeOK' /\ IndexOK'
<1>1. UNCHANGED <<stream, lastDelivered>> /\ Active(w)
  BY ProcessMessageFrame
<1>2. worker[w] \in WorkerRecord
  BY DEF TypeOK, DispatcherTypeOK, WorkerRecord
<1>3. CASE \E pc \in PC : Goto(w, pc)
  BY <1>1, <1>3, GotoOK
<1>4. CASE Advance(w)
  BY <1>1, <1>4, AdvanceOK
<1>5. ASSUME NEW k \in Nat, worker' = [worker EXCEPT ![w].pc = "claim", ![w].seen = k]
      PROVE  DispatcherTypeOK' /\ IndexOK'
  <2> DEFINE r == [worker[w] EXCEPT !.pc = "claim", !.seen = k]
  <2>1. r \in WorkerRecord /\ r.msg = worker[w].msg /\ r.rest = worker[w].rest
    BY <1>2 DEF WorkerRecord, PC
  <2>2. worker' = [worker EXCEPT ![w] = r]
    BY <1>5
  <2> HIDE DEF r
  <2> QED BY <1>1, <2>1, <2>2, MoveOK DEF IndexOK
<1>6. ASSUME NEW ok \in BOOLEAN, worker' = [worker EXCEPT ![w].pc = "count", ![w].ok = ok]
      PROVE  DispatcherTypeOK' /\ IndexOK'
  <2> DEFINE r == [worker[w] EXCEPT !.pc = "count", !.ok = ok]
  <2>1. r \in WorkerRecord /\ r.msg = worker[w].msg /\ r.rest = worker[w].rest
    BY <1>2 DEF WorkerRecord, PC
  <2>2. worker' = [worker EXCEPT ![w] = r]
    BY <1>6
  <2> HIDE DEF r
  <2> QED BY <1>1, <2>1, <2>2, MoveOK DEF IndexOK
<1>7. attemptCount[Id(w)] \in Nat
  BY <1>1, IdType DEF TypeOK, StoresTypeOK
<1>8. CASE Fetch(w)
  BY <1>3, <1>5, <1>7, <1>8 DEF Fetch, PC
<1>9. CASE Send(w)
  BY <1>6, <1>9 DEF Send
<1>10. CASE LimitAborted(w) \/ Acknowledge(w)
  BY <1>4, <1>10 DEF LimitAborted, Acknowledge
<1>11. CASE \/ Limit(w) \/ FetchFailed(w) \/ NoProvider(w) \/ CountAttempt(w)
            \/ SetDelivered(w) \/ SetQueued(w) \/ SetFailed(w)
            \/ ScheduleRetry(w) \/ Bury(w)
  BY <1>3, <1>11 DEF Limit, FetchFailed, NoProvider, CountAttempt, SetDelivered,
     SetQueued, SetFailed, SetOutcome, ScheduleRetry, Bury, PC
<1>12. CASE Claim(w)
  <2>1. Goto(w, "send") \/ Goto(w, "noprov")
    BY <1>12 DEF Claim, Goto
  <2> QED BY <1>3, <2>1 DEF PC
<1>13. CASE RecordAttempt(w)
  <2>1. Goto(w, "deliver") \/ Goto(w, "requeue") \/ Goto(w, "fail")
    BY <1>13, Zenon DEF RecordAttempt, Goto
  <2> QED BY <1>3, <2>1 DEF PC
<1> QED BY <1>8, <1>9, <1>10, <1>11, <1>12, <1>13 DEF ProcessMessage

\* The stores' part.
LEMMA ProcessMessageStores ==
  ASSUME TypeOK, IndexOK, NEW w \in Workers, ProcessMessage(w)
  PROVE  StoresTypeOK'
<1> USE DEF storeVars, pgVars, redisVars, groupVars, historyVars
<1>1. Active(w) /\ UNCHANGED <<stream, lastDelivered, ctx>>
  BY ProcessMessageFrame
<1>2. Id(w) \in Notifications
  BY <1>1, IdType
<1>3. CASE UNCHANGED storeVars
  BY <1>3 DEF TypeOK, StoresTypeOK
<1>4. CASE \/ LimitAborted(w) \/ FetchFailed(w)
  <2>1. ends' \in [Notifications -> SUBSET EndKinds]
    BY <1>4, EndType DEF LimitAborted, FetchFailed, EndKinds, LossKinds
  <2> QED BY <1>4, <2>1 DEF LimitAborted, FetchFailed, TypeOK, StoresTypeOK
<1>5. CASE Claim(w) \/ SetDelivered(w) \/ SetQueued(w) \/ SetFailed(w)
  <2>1. status' \in [Notifications -> Status \cup {"absent"}]
    BY <1>5, UpdateStatusType
    DEF Claim, SetDelivered, SetQueued, SetFailed, SetOutcome, Status
  <2> QED
    BY <1>5, <2>1 DEF Claim, SetDelivered, SetQueued, SetFailed, SetOutcome, TypeOK,
       StoresTypeOK
<1>6. CASE NoProvider(w)
  <2>1. status' \in [Notifications -> Status \cup {"absent"}]
    BY <1>6, UpdateStatusType DEF NoProvider, Status
  <2>2. ends' \in [Notifications -> SUBSET EndKinds]
    BY <1>6, EndType DEF NoProvider, EndKinds, LossKinds
  <2> QED BY <1>6, <2>1, <2>2 DEF NoProvider, TypeOK, StoresTypeOK
<1>7. CASE Send(w)
  <2>1. ends' \in [Notifications -> SUBSET EndKinds]
    BY <1>7, EndType DEF Send, EndKinds, LossKinds
  <2>2. sends' = [sends EXCEPT ![Id(w)] = @ + 1]
    BY <1>7, Zenon DEF Send
  <2>3. sends' \in [Notifications -> Nat]
    <3>1. sends \in [Notifications -> Nat]
      BY DEF TypeOK, StoresTypeOK
    <3> QED BY <1>2, <2>2, <3>1
  <2>4. UNCHANGED <<pgVars, redisVars, ctx>>
    BY <1>7, Zenon DEF Send
  <2> QED BY <2>1, <2>3, <2>4 DEF TypeOK, StoresTypeOK
<1>8. CASE CountAttempt(w)
  <2>1. attemptCount' = [attemptCount EXCEPT ![Id(w)] = @ + 1] \/ attemptCount' = attemptCount
    BY <1>8, Zenon DEF CountAttempt, IncrementAttempt
  <2> QED BY <1>8, <2>1 DEF CountAttempt, TypeOK, StoresTypeOK
<1>9. CASE RecordAttempt(w)
  <2>1. \/ attempts' = [attempts EXCEPT ![Id(w)] = Append(@, worker[w].seen + 1)]
        \/ attempts' = attempts
    BY <1>9, Zenon DEF RecordAttempt, CreateDeliveryAttempt
  <2>2. worker[w].seen + 1 \in Nat
    BY DEF TypeOK, DispatcherTypeOK
  <2>3. Append(attempts[Id(w)], worker[w].seen + 1) \in Seq(Nat)
    BY <1>2, <2>2 DEF TypeOK, StoresTypeOK
  <2>4. attempts' \in [Notifications -> Seq(Nat)]
    BY <2>1, <2>3 DEF TypeOK, StoresTypeOK
  <2> QED BY <1>9, <2>4 DEF RecordAttempt, TypeOK, StoresTypeOK
<1>10. CASE ScheduleRetry(w)
  <2>1. ends' \in [Notifications -> SUBSET EndKinds]
    BY <1>10, EndType DEF ScheduleRetry, EndKinds, LossKinds
  <2>2. delayed' = delayed \cup {Id(w)} \/ delayed' = delayed
    BY <1>10, Zenon DEF ScheduleRetry, EnqueueDelayed
  <2> QED BY <1>2, <1>10, <2>1, <2>2 DEF ScheduleRetry, TypeOK, StoresTypeOK
<1>11. CASE Bury(w)
  <2>1. ends' \in [Notifications -> SUBSET EndKinds]
    BY <1>11, EndType DEF Bury, EndKinds, LossKinds
  <2>2. dlq' = [dlq EXCEPT ![Id(w)] = @ + 1] \/ dlq' = dlq
    BY <1>11, Zenon DEF Bury, Push
  <2> QED BY <1>11, <2>1, <2>2 DEF Bury, TypeOK, StoresTypeOK
<1>12. CASE Acknowledge(w)
  <2>1. pel' = pel \ {worker[w].msg} \/ pel' = pel
    BY <1>12, Zenon DEF Acknowledge, Ack
  <2> QED BY <1>12, <2>1 DEF Acknowledge, TypeOK, StoresTypeOK
<1> QED
  BY <1>3, <1>4, <1>5, <1>6, <1>7, <1>8, <1>9, <1>10, <1>11, <1>12
  DEF ProcessMessage, Limit, Fetch

-----------------------------------------------------------------------------
\* The life of a process

LEMMA ProcessLifeOK ==
  ASSUME TypeOK, IndexOK, NEW i \in Instances, Stop(i) \/ Crash(i) \/ Exit(i) \/ Start(i)
  PROVE  TypeOK' /\ IndexOK'
<1> USE DEF storeVars, pgVars, redisVars, groupVars, historyVars
<1>1. CASE Stop(i)
  <2>1. IndexOK'
    BY <1>1, IndexOKFrame DEF Stop, Grown, TypeOK, StoresTypeOK
  <2> QED
    BY <1>1, <2>1 DEF Stop, TypeOK, StoresTypeOK, ServiceTypeOK, SchedulerTypeOK,
       DelayedRetryTypeOK, DispatcherTypeOK
<1>2. CASE Halt(i)
  <2>1. ends' \in [Notifications -> SUBSET EndKinds]
    <3>1. \A n \in Notifications : Loss(i, n) \in SUBSET EndKinds
      BY DEF Loss, EndKinds, LossKinds
    <3> QED
      BY <1>2, <3>1 DEF Halt, TypeOK, StoresTypeOK
  <2>2. ServiceTypeOK' /\ SchedulerTypeOK' /\ DelayedRetryTypeOK'
    BY <1>2 DEF Halt, TypeOK, ServiceTypeOK, SchedulerTypeOK, DelayedRetryTypeOK,
       IdleHandler, IdlePump
  <2>3. [NewWorker EXCEPT !.pc = "stopped"] \in WorkerRecord
    BY DEF NewWorker, WorkerRecord, PC
  <2>4. DispatcherTypeOK'
    BY <1>2, <2>3 DEF Halt, TypeOK, DispatcherTypeOK, WorkerRecord
  <2>5. IndexOK'
    BY <1>2 DEF Halt, IndexOK, Active, HandedOut, NewWorker
  <2> QED
    BY <1>2, <2>1, <2>2, <2>4, <2>5 DEF Halt, TypeOK, StoresTypeOK
<1>3. CASE Start(i)
  <2>1. NewWorker \in WorkerRecord
    BY DEF NewWorker, WorkerRecord, PC
  <2>2. DispatcherTypeOK'
    BY <1>3, <2>1 DEF Start, TypeOK, DispatcherTypeOK, WorkerRecord
  <2>3. IndexOK'
    BY <1>3 DEF Start, IndexOK, Active, HandedOut, NewWorker
  <2> QED
    BY <1>3, <2>2, <2>3 DEF Start, TypeOK, StoresTypeOK, ServiceTypeOK, SchedulerTypeOK,
       DelayedRetryTypeOK
<1> QED BY <1>1, <1>2, <1>3 DEF Crash, Exit

-----------------------------------------------------------------------------

LEMMA NextOK == TypeOK /\ IndexOK /\ [Next]_vars => TypeOK' /\ IndexOK'
<1> SUFFICES ASSUME TypeOK, IndexOK, [Next]_vars PROVE TypeOK' /\ IndexOK'
  OBVIOUS
<1>1. ASSUME NEW w \in Workers, ProcessMessage(w), UNCHANGED <<handler, due, pump>>
      PROVE  TypeOK' /\ IndexOK'
  BY <1>1, ProcessMessageWorker, ProcessMessageStores
  DEF TypeOK, ServiceTypeOK, SchedulerTypeOK, DelayedRetryTypeOK
<1>2. CASE UNCHANGED vars
  BY <1>2 DEF vars, storeVars, pgVars, redisVars, groupVars, historyVars, TypeOK,
     StoresTypeOK, ServiceTypeOK, SchedulerTypeOK, DelayedRetryTypeOK, DispatcherTypeOK,
     IndexOK, Active, HandedOut
<1> QED
  BY <1>1, <1>2, HandlerStepOK, CancelOK, SchedulerStepOK, DelayedRetryStepOK, ReadOK,
     ProcessLifeOK DEF Next, WorkerStep

\* Every variable keeps its type, and every message in a worker's hands names
\* an entry of its stream: appends never move an entry and a read never runs
\* past the end.
THEOREM TypeCorrect == Spec => []TypeOK
<1>1. Spec => [](TypeOK /\ IndexOK)
  BY InitOK, NextOK, PTL DEF Spec
<1> QED BY <1>1, PTL

-----------------------------------------------------------------------------
\* Final statuses stay

\* Every step appends to the streams at most.
LEMMA NextGrows ==
  ASSUME TypeOK, IndexOK, [Next]_vars
  PROVE  Grown
<1> USE DEF storeVars, pgVars, redisVars, groupVars, historyVars
<1>1. CASE UNCHANGED stream
  BY <1>1 DEF Grown, TypeOK, StoresTypeOK
<1>2. ASSUME NEW n \in Notifications, NEW done, Enqueue(n, done)
      PROVE  Grown
  BY <1>2, EnqueueGrows
<1>3. ASSUME NEW h \in Handlers, HandlerStep(h)
      PROVE  Grown
  <2>1. CASE EnqueueNext(h)
    BY <1>2, <2>1 DEF EnqueueNext, TypeOK, ServiceTypeOK
  <2>2. CASE Create(h) \/ CreateBatch(h) \/ MarkQueued(h)
    BY <1>1, <2>2 DEF Create, CreateBatch, MarkQueued, Submit
  <2> QED BY <1>3, <2>1, <2>2 DEF HandlerStep
<1>4. ASSUME NEW i \in Instances, SchedulerStep(i)
      PROVE  Grown
  BY <1>1, <1>2, <1>4 DEF SchedulerStep, FetchScheduledDue, EnqueueDue, TypeOK, SchedulerTypeOK
<1>5. ASSUME NEW i \in Instances, DelayedRetryStep(i)
      PROVE  Grown
  <2>1. CASE Reenqueue(i)
    BY <1>2, <2>1 DEF Reenqueue, TypeOK, DelayedRetryTypeOK
  <2>2. CASE RangeDelayed(i) \/ RemovePopped(i)
    BY <1>1, <2>2 DEF RangeDelayed, RemovePopped
  <2> QED BY <1>5, <2>1, <2>2 DEF DelayedRetryStep
<1>6. ASSUME NEW w \in Workers, WorkerStep(w)
      PROVE  Grown
  BY <1>1, <1>6, ProcessMessageFrame DEF WorkerStep, Read, ReadLost, ReadNothing
<1>7. CASE \/ \E n \in Notifications : Cancel(n)
           \/ \E i \in Instances : Stop(i) \/ Crash(i) \/ Exit(i) \/ Start(i)
           \/ UNCHANGED vars
  BY <1>1, <1>7 DEF Cancel, Stop, Crash, Exit, Halt, Start, vars
<1> QED BY <1>3, <1>4, <1>5, <1>6, <1>7 DEF Next

LEMMA SubjectStable ==
  ASSUME TypeOK, IndexOK, Grown, NEW m, HandedOut(m)
  PROVE  stream'[m[1]][m[2]] = stream[m[1]][m[2]]
<1>1. m[1] \in Priority /\ m[2] \in Nat \ {0} /\ m[2] <= lastDelivered[m[1]]
  BY DEF HandedOut, Messages
<1>2. lastDelivered[m[1]] \in Nat /\ Len(stream[m[1]]) \in Nat
  BY <1>1 DEF TypeOK, StoresTypeOK
<1>3. lastDelivered[m[1]] <= Len(stream[m[1]])
  BY <1>1 DEF IndexOK
<1>4. m[2] \in 1 .. Len(stream[m[1]])
  BY <1>1, <1>2, <1>3
<1> QED BY <1>1, <1>4 DEF Grown

LEMMA IdStable ==
  ASSUME TypeOK, IndexOK, Grown, NEW w \in Workers, Active(w),
         worker'[w].msg = worker[w].msg
  PROVE  Id(w)' = Id(w)
BY SubjectStable DEF Id, Subject, IndexOK

\* A step of worker w is a step of no other worker.
LEMMA OtherWorkers ==
  ASSUME TypeOK, NEW w \in Workers, WorkerStep(w), NEW v \in Workers, v # w
  PROVE  worker'[v] = worker[v]
<1>1. worker \in [Workers -> WorkerRecord]
  BY DEF TypeOK, DispatcherTypeOK, WorkerRecord
<1>2. \/ UNCHANGED worker \/ \E r : worker' = [worker EXCEPT ![w] = r]
  BY DEF WorkerStep, Read, ReadLost, ReadNothing, ProcessMessage, Limit, LimitAborted,
     Fetch, FetchFailed, Claim, NoProvider, Send, CountAttempt, RecordAttempt,
     SetDelivered, SetQueued, SetFailed, SetOutcome, ScheduleRetry, Bury, Acknowledge,
     Advance, Take, Goto
<1> QED BY <1>1, <1>2

PastTheCheck == PC \ {"reading", "limit", "fetch", "ack", "stopped"}

LEMMA PastTheCheckActive ==
  ASSUME NEW w \in Workers, worker[w].pc \in PastTheCheck
  PROVE  Active(w)
BY DEF PastTheCheck, Active

\* Nobody but the handlers and the workers can commit to n.
LEMMA CommittedFrame ==
  ASSUME TypeOK, IndexOK, Grown, NEW n \in Notifications, ~Committed(n),
         \A h \in Handlers : n \notin handler'[h].job \cup handler'[h].mark,
         \A w \in Workers : \/ worker'[w] = worker[w]
                           \/ worker'[w].pc \notin PastTheCheck
                           \/ Id(w)' # n
  PROVE  ~Committed(n)'
<1>1. ASSUME NEW w \in Workers, worker'[w].pc \in PastTheCheck, Id(w)' = n,
             worker'[w] = worker[w]
      PROVE  FALSE
  <2>1. Id(w)' = Id(w)
    BY <1>1, IdStable, PastTheCheckActive
  <2> QED BY <1>1, <2>1 DEF Committed, PastTheCheck
<1> QED BY <1>1 DEF Committed, PastTheCheck

LEMMA FinishedFrame ==
  ASSUME NEW n \in Notifications, Finished(n), status'[n] = status[n], ~Committed(n)'
  PROVE  Finished(n)'
BY DEF Finished

LEMMA StatusElsewhere ==
  ASSUME TypeOK, NEW n \in Notifications, NEW m, n # m, NEW s, NEW done,
         UpdateStatus(m, s, done)
  PROVE  status'[n] = status[n]
<1>1. status' = [status EXCEPT ![m] = s] \/ status' = status
  BY Zenon DEF UpdateStatus
<1> QED BY <1>1 DEF TypeOK, StoresTypeOK

LEMMA AdvancePC ==
  ASSUME TypeOK, NEW w \in Workers, Advance(w)
  PROVE  worker'[w].pc \in {"limit", "reading", "stopped"}
<1>1. worker \in [Workers -> WorkerRecord]
  BY DEF TypeOK, DispatcherTypeOK, WorkerRecord
<1> QED BY <1>1 DEF Advance, Take, NewWorker

LEMMA GotoPC ==
  ASSUME TypeOK, NEW w \in Workers, NEW pc, Goto(w, pc)
  PROVE  /\ worker'[w].pc = pc /\ worker'[w].msg = worker[w].msg
         /\ worker'[w].rest = worker[w].rest /\ worker'[w].ok = worker[w].ok
<1>1. worker \in [Workers -> WorkerRecord]
  BY DEF TypeOK, DispatcherTypeOK, WorkerRecord
<1> QED BY <1>1 DEF Goto, WorkerRecord

LEMMA WorkerKeepsFinished ==
  ASSUME TypeOK, IndexOK, Grown, NEW n \in Notifications, Finished(n),
         NEW w \in Workers, WorkerStep(w), UNCHANGED handler
  PROVE  ~Committed(n)' /\ status'[n] = status[n] /\ sends'[n] = sends[n]
<1> USE DEF storeVars, pgVars, redisVars, groupVars, historyVars
<1>n. /\ status[n] \in SkippedStatus /\ ~Committed(n)
      /\ \A h \in Handlers : n \notin handler[h].job \cup handler[h].mark
  BY DEF Finished, Committed
<1>w. worker \in [Workers -> WorkerRecord]
  BY DEF TypeOK, DispatcherTypeOK, WorkerRecord
<1>1. ASSUME \/ worker'[w] = worker[w]
             \/ worker'[w].pc \notin PastTheCheck
             \/ Id(w)' # n
      PROVE  ~Committed(n)'
  BY <1>n, <1>1, OtherWorkers, CommittedFrame
<1>2. CASE Read(w) \/ ReadLost(w) \/ ReadNothing(w)
  <2>1. worker'[w] = worker[w] \/ worker'[w].pc \notin PastTheCheck
    BY <1>2, <1>w DEF Read, ReadLost, ReadNothing, Take, Goto, PastTheCheck, WorkerRecord
  <2> QED BY <1>1, <1>2, <2>1 DEF Read, ReadLost, ReadNothing
<1>3. CASE Limit(w) \/ FetchFailed(w)
  <2>1. worker'[w].pc \notin PastTheCheck
    BY <1>3, GotoPC DEF Limit, FetchFailed, PastTheCheck
  <2> QED BY <1>1, <1>3, <2>1 DEF Limit, FetchFailed
<1>4. CASE LimitAborted(w) \/ Acknowledge(w)
  <2>1. worker'[w].pc \notin PastTheCheck
    BY <1>4, AdvancePC DEF LimitAborted, Acknowledge, PastTheCheck
  <2> QED BY <1>1, <1>4, <2>1 DEF LimitAborted, Acknowledge
<1>5. CASE Fetch(w)
  <2>1. CASE status[Id(w)] \in SkippedStatus
    <3>1. worker'[w].pc \notin PastTheCheck
      BY <1>5, <2>1, GotoPC DEF Fetch, PastTheCheck
    <3> QED BY <1>1, <1>5, <3>1 DEF Fetch
  <2>2. CASE status[Id(w)] \notin SkippedStatus
    <3>1. Id(w) # n
      BY <1>n, <2>2
    <3>2. worker'[w].msg = worker[w].msg
      BY <1>5, <2>2, <1>w DEF Fetch, WorkerRecord
    <3>3. Active(w)
      BY <1>5 DEF Fetch, Active
    <3>4. Id(w)' # n
      BY <3>1, <3>2, <3>3, IdStable
    <3> QED BY <1>1, <1>5, <3>4 DEF Fetch
  <2> QED BY <2>1, <2>2
\* The remaining calls are made past the check, so for other notifications.
<1>6. ASSUME worker[w].pc \in PastTheCheck, worker'[w].msg = worker[w].msg
      PROVE  ~Committed(n)' /\ Id(w) # n
  <2>1. Id(w) # n
    BY <1>n, <1>6 DEF Committed, PastTheCheck
  <2>2. Id(w)' # n
    BY <1>6, <2>1, IdStable, PastTheCheckActive
  <2> QED BY <1>1, <2>1, <2>2
<1>7. CASE Send(w)
  <2>1. worker[w].pc \in PastTheCheck /\ worker'[w].msg = worker[w].msg
    BY <1>7, <1>w DEF Send, PastTheCheck, PC, WorkerRecord
  <2>2. sends' = [sends EXCEPT ![Id(w)] = @ + 1] /\ UNCHANGED status
    BY <1>7, Zenon DEF Send
  <2>3. sends'[n] = sends[n]
    BY <1>6, <2>1, <2>2 DEF TypeOK, StoresTypeOK
  <2> QED BY <1>6, <2>1, <2>2, <2>3
<1>8. CASE \/ Claim(w) \/ NoProvider(w) \/ SetDelivered(w) \/ SetQueued(w) \/ SetFailed(w)
  <2>1. worker[w].pc \in PastTheCheck
    BY <1>8 DEF Claim, NoProvider, SetDelivered, SetQueued, SetFailed, SetOutcome,
       PastTheCheck, PC
  <2>2. /\ \E pc : Goto(w, pc)
        /\ \E s, done : UpdateStatus(Id(w), s, done)
        /\ UNCHANGED sends
    BY <1>8, Zenon DEF Claim, NoProvider, SetDelivered, SetQueued, SetFailed, SetOutcome
  <2>3. worker'[w].msg = worker[w].msg
    BY <2>2, GotoPC
  <2> QED BY <1>6, <2>1, <2>2, <2>3, StatusElsewhere
<1>9. CASE CountAttempt(w) \/ RecordAttempt(w) \/ ScheduleRetry(w) \/ Bury(w)
  <2>1. worker[w].pc \in PastTheCheck
    BY <1>9 DEF CountAttempt, RecordAttempt, ScheduleRetry, Bury, PastTheCheck, PC
  <2>2. (\E pc : Goto(w, pc)) /\ UNCHANGED <<status, sends>>
    BY <1>9, Zenon DEF CountAttempt, RecordAttempt, ScheduleRetry, Bury
  <2>3. worker'[w].msg = worker[w].msg
    BY <2>2, GotoPC
  <2> QED BY <1>6, <2>1, <2>2, <2>3
<1> QED
  BY <1>2, <1>3, <1>4, <1>5, <1>7, <1>8, <1>9 DEF WorkerStep, ProcessMessage

LEMMA FinishedStep ==
  ASSUME TypeOK, IndexOK, [Next]_vars, NEW n \in Notifications, Finished(n)
  PROVE  Finished(n)' /\ status'[n] = status[n] /\ sends'[n] = sends[n]
<1> USE DEF storeVars, pgVars, redisVars, groupVars, historyVars
<1> SUFFICES ~Committed(n)' /\ status'[n] = status[n] /\ sends'[n] = sends[n]
  BY FinishedFrame
<1>g. Grown
  BY NextGrows
<1>n. /\ status[n] \in SkippedStatus /\ ~Committed(n)
      /\ \A h \in Handlers : n \notin handler[h].job \cup handler[h].mark
  BY DEF Finished, Committed
<1>1. ASSUME NEW h \in Handlers, HandlerStep(h), UNCHANGED <<due, pump, worker>>
      PROVE  ~Committed(n)' /\ status'[n] = status[n] /\ sends'[n] = sends[n]
  <2>1. ASSUME NEW S \in SUBSET Notifications, NEW deferred \in SUBSET S, NEW replied,
               Submit(h, S, deferred, replied)
        PROVE  ~Committed(n)' /\ status'[n] = status[n] /\ sends'[n] = sends[n]
    <3>1. n \notin S
      BY <1>n, <2>1 DEF Submit, Insertable, SkippedStatus
    <3>2. status'[n] = status[n] /\ sends' = sends
      BY <2>1, <3>1 DEF Submit, Insert
    <3>3. handler' = [handler EXCEPT ![h].job = S \ deferred]
            \/ handler' = [handler EXCEPT ![h].job = {}]
      BY <2>1, Zenon DEF Submit
    <3>4. \A g \in Handlers : n \notin handler'[g].job \cup handler'[g].mark
      BY <1>n, <3>1, <3>3 DEF TypeOK, ServiceTypeOK
    <3> QED BY <1>1, <1>g, <1>n, <3>2, <3>4, CommittedFrame
  <2>2. CASE Create(h)
    <3>1. PICK m \in Notifications : \E deferred \in SUBSET {m}, replied \in BOOLEAN :
                 Submit(h, {m}, deferred, replied)
      BY <2>2 DEF Create
    <3> QED BY <2>1, <3>1
  <2>3. CASE CreateBatch(h)
    BY <2>1, <2>3, ServiceAssumption DEF CreateBatch
  <2>4. CASE EnqueueNext(h)
    <3>1. PICK m \in handler[h].job, done \in BOOLEAN, replied \in BOOLEAN :
                 EnqueueNext(h)!(m, done, replied)
      BY <2>4 DEF EnqueueNext
    <3>2. handler' = [handler EXCEPT ![h].job = @ \ {m}, ![h].mark = {m}]
            \/ handler' = [handler EXCEPT ![h].job = @ \ {m}, ![h].mark = {}]
      BY <3>1, Zenon
    <3>3. \A g \in Handlers : n \notin handler'[g].job \cup handler'[g].mark
      BY <1>n, <3>2 DEF TypeOK, ServiceTypeOK
    <3> QED BY <1>1, <1>g, <1>n, <3>1, <3>3, CommittedFrame
  <2>5. CASE MarkQueued(h)
    <3>1. PICK m \in handler[h].mark, done \in BOOLEAN :
                 /\ UpdateStatus(m, "queued", done)
                 /\ handler' = [handler EXCEPT ![h].mark = {}]
                 /\ UNCHANGED sends
      BY <2>5 DEF MarkQueued
    <3>2. status'[n] = status[n]
      BY <1>n, <3>1, StatusElsewhere
    <3>3. \A g \in Handlers : n \notin handler'[g].job \cup handler'[g].mark
      BY <1>n, <3>1 DEF TypeOK, ServiceTypeOK
    <3> QED BY <1>1, <1>g, <1>n, <3>1, <3>2, <3>3, CommittedFrame
  <2> QED BY <1>1, <2>2, <2>3, <2>4, <2>5 DEF HandlerStep
<1>2. ASSUME NEW m \in Notifications, Cancel(m), UNCHANGED <<due, pump, worker>>
      PROVE  ~Committed(n)' /\ status'[n] = status[n] /\ sends'[n] = sends[n]
  <2>1. n # m
    BY <1>n, <1>2 DEF Cancel, CancellableStatus, SkippedStatus
  <2>2. status'[n] = status[n]
    BY <1>2, <2>1, StatusElsewhere DEF Cancel
  <2> QED BY <1>2, <1>g, <1>n, <2>2, CommittedFrame DEF Cancel
<1>3. ASSUME NEW i \in Instances, SchedulerStep(i), UNCHANGED <<handler, pump, worker>>
      PROVE  ~Committed(n)' /\ status'[n] = status[n] /\ sends'[n] = sends[n]
  <2>1. status'[n] = status[n] /\ sends' = sends
    BY <1>n, <1>3 DEF SchedulerStep, FetchScheduledDue, EnqueueDue, Claimable,
       SkippedStatus
  <2> QED BY <1>3, <1>g, <1>n, <2>1, CommittedFrame
<1>4. ASSUME NEW i \in Instances, DelayedRetryStep(i), UNCHANGED <<handler, due, worker>>
      PROVE  ~Committed(n)' /\ status'[n] = status[n] /\ sends'[n] = sends[n]
  <2>1. status' = status /\ sends' = sends
    BY <1>4 DEF DelayedRetryStep, RangeDelayed, RemovePopped, Reenqueue
  <2> QED BY <1>4, <1>g, <1>n, <2>1, CommittedFrame
<1>5. ASSUME NEW i \in Instances, Stop(i) \/ Crash(i) \/ Exit(i) \/ Start(i)
      PROVE  ~Committed(n)' /\ status'[n] = status[n] /\ sends'[n] = sends[n]
  <2>1. status' = status /\ sends' = sends
    BY <1>5 DEF Stop, Crash, Exit, Halt, Start
  <2>2. \A g \in Handlers : n \notin handler'[g].job \cup handler'[g].mark
    BY <1>n, <1>5 DEF Stop, Crash, Exit, Halt, Start, IdleHandler
  <2>3. \A w \in Workers : worker'[w] = worker[w] \/ worker'[w].pc \notin PastTheCheck
    BY <1>5 DEF Stop, Crash, Exit, Halt, Start, NewWorker, PastTheCheck
  <2> QED BY <1>g, <1>n, <2>1, <2>2, <2>3, CommittedFrame
<1>6. ASSUME NEW w \in Workers, WorkerStep(w), UNCHANGED <<handler, due, pump>>
      PROVE  ~Committed(n)' /\ status'[n] = status[n] /\ sends'[n] = sends[n]
  BY <1>6, <1>g, WorkerKeepsFinished
<1>7. CASE UNCHANGED vars
  BY <1>7, <1>g, <1>n, CommittedFrame DEF vars
<1> QED BY <1>1, <1>2, <1>3, <1>4, <1>5, <1>6, <1>7 DEF Next

\* A final status that no goroutine has overtaken is never overwritten and the
\* notification never sent again, with any number of processes, under every
\* fault: the status check of processMessage and the WHERE clauses of Cancel
\* and FetchScheduledDue are enough.
THEOREM FinalStatusIsStable == Spec => FinalStatusSticks
<1>1. TypeOK /\ IndexOK /\ [Next]_vars =>
        [\A n \in Notifications :
           Finished(n) => /\ Finished(n)'
                          /\ status'[n] = status[n] /\ sends'[n] = sends[n]]_vars
  BY FinishedStep
<1> QED BY <1>1, InitOK, NextOK, PTL DEF Spec, FinalStatusSticks

=============================================================================
