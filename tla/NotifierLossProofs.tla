------------------------- MODULE NotifierLossProofs -------------------------
(***************************************************************************)
(* Proofs, for every value of the constants and under every fault, that a  *)
(* final status is true and that no notification disappears silently.     *)
(***************************************************************************)
EXTENDS NotifierProofs

-----------------------------------------------------------------------------
\* The invariant

\* What a worker knows about the attempt it has made.
WorkerOutcome(w) ==
  /\ worker[w].pc \in {"count", "record"} /\ worker[w].ok => "accepted" \in ends[Id(w)]
  /\ worker[w].pc = "deliver" => "accepted" \in ends[Id(w)]
  /\ worker[w].pc \in {"requeue", "delay", "fail", "bury"} => ~worker[w].ok

\* A worker that waits for a message, or has returned, holds none.
WorkerIdle(w) ==
  /\ worker[w].pc \in {"reading", "stopped"} => worker[w].rest = {}
  /\ Context(w) = "down" => worker[w].pc = "stopped"

\* The rows a create request still works on have been inserted and were not
\* scheduled, so that 'queued' overwrites nobody's only trace of them.
JobOK ==
  \A h \in Handlers : \A n \in handler[h].job \cup handler[h].mark :
    status[n] \notin {"absent", "scheduled"}

LossInv ==
  /\ TypeOK /\ IndexOK /\ JobOK
  /\ \A w \in Workers : WorkerOutcome(w) /\ WorkerIdle(w)

-----------------------------------------------------------------------------
\* Ends accumulate

EndsGrow ==
  \A n \in Notifications : ends[n] \subseteq ends'[n] /\ dlq[n] <= dlq'[n]

LEMMA EndGrows ==
  ASSUME TypeOK, NEW S, NEW how, End(S, how)
  PROVE  /\ \A n \in Notifications : ends[n] \subseteq ends'[n]
         /\ \A n \in Notifications : n \in S => how \in ends'[n]
BY DEF End

LEMMA NextEndsGrow ==
  ASSUME TypeOK, IndexOK, [Next]_vars
  PROVE  EndsGrow
<1> USE DEF storeVars, pgVars, redisVars, groupVars, historyVars
<1>1. CASE UNCHANGED dlq /\ (UNCHANGED ends \/ \E S, how : End(S, how))
  BY <1>1, EndGrows DEF EndsGrow, TypeOK, StoresTypeOK
<1>2. ASSUME NEW w \in Workers, Bury(w)
      PROVE  EndsGrow
  <2>1. dlq' = [dlq EXCEPT ![Id(w)] = @ + 1] \/ dlq' = dlq
    BY <1>2, Zenon DEF Bury, Push
  <2>2. \A n \in Notifications : dlq[n] <= dlq'[n]
    <3>1. dlq \in [Notifications -> Nat]
      BY DEF TypeOK, StoresTypeOK
    <3> QED BY <2>1, <3>1
  <2> QED BY <1>2, <2>2, EndGrows DEF Bury, EndsGrow
<1>3. ASSUME NEW w \in Workers, WorkerStep(w)
      PROVE  EndsGrow
  BY <1>1, <1>2, <1>3 DEF WorkerStep, Read, ReadLost, ReadNothing, ProcessMessage, Limit,
     LimitAborted, Fetch, FetchFailed, Claim, NoProvider, Send, CountAttempt,
     RecordAttempt, SetDelivered, SetQueued, SetFailed, SetOutcome, ScheduleRetry,
     Acknowledge
<1>4. ASSUME NEW h \in Handlers, HandlerStep(h)
      PROVE  EndsGrow
  BY <1>1, <1>4 DEF HandlerStep, Create, CreateBatch, Submit, EnqueueNext, MarkQueued
<1>5. ASSUME NEW i \in Instances, SchedulerStep(i) \/ DelayedRetryStep(i)
      PROVE  EndsGrow
  BY <1>1, <1>5 DEF SchedulerStep, FetchScheduledDue, EnqueueDue, DelayedRetryStep,
     RangeDelayed, RemovePopped, Reenqueue
<1>6. CASE \/ \E n \in Notifications : Cancel(n)
           \/ \E i \in Instances : Stop(i) \/ Start(i)
           \/ UNCHANGED vars
  BY <1>1, <1>6 DEF Cancel, Stop, Start, vars
<1>7. ASSUME NEW i \in Instances, Halt(i)
      PROVE  EndsGrow
  BY <1>7 DEF Halt, EndsGrow, TypeOK, StoresTypeOK
<1> QED BY <1>3, <1>4, <1>5, <1>6, <1>7 DEF Next, Crash, Exit

LEMMA LossInit == Init => LossInv /\ FinalStatusIsTrue /\ NoSilentLoss
<1> SUFFICES ASSUME Init
             PROVE  /\ \A w \in Workers : WorkerOutcome(w) /\ WorkerIdle(w)
                    /\ JobOK /\ FinalStatusIsTrue /\ NoSilentLoss
  BY InitOK DEF LossInv
<1> QED
  BY DispatcherAssumption DEF Init, StoresInit, ServiceInit, DispatcherInit, NewWorker,
     IdleHandler, WorkerOutcome, WorkerIdle, JobOK, Context, FinalStatusIsTrue,
     StatusIsTrue, NoSilentLoss

-----------------------------------------------------------------------------
\* The invariant is preserved

\* A worker that does not move keeps its part of the invariant.
LEMMA OutcomeFrame ==
  ASSUME TypeOK, IndexOK, Grown, EndsGrow, NEW w \in Workers, WorkerOutcome(w),
         worker'[w] = worker[w]
  PROVE  WorkerOutcome(w)'
<1>1. CASE Active(w)
  <2>1. Id(w)' = Id(w) /\ Id(w) \in Notifications
    BY <1>1, IdStable, IdType
  <2> QED BY <2>1 DEF WorkerOutcome, EndsGrow
<1>2. CASE ~Active(w)
  BY <1>2 DEF WorkerOutcome, Active
<1> QED BY <1>1, <1>2

\* The moving worker.
LEMMA OutcomeStep ==
  ASSUME TypeOK, IndexOK, Grown, EndsGrow, NEW w \in Workers, WorkerOutcome(w), WorkerStep(w)
  PROVE  WorkerOutcome(w)'
<1>w. worker \in [Workers -> WorkerRecord]
  BY DEF TypeOK, DispatcherTypeOK, WorkerRecord
<1>1. CASE UNCHANGED worker
  BY <1>1, OutcomeFrame
<1>2. CASE worker'[w].pc \in {"reading", "stopped", "limit", "fetch", "claim", "noprov", "send", "ack"}
  BY <1>2 DEF WorkerOutcome
<1>3. CASE Read(w) \/ ReadLost(w) \/ ReadNothing(w)
  <2>1. UNCHANGED worker \/ worker'[w].pc \in {"limit", "stopped"}
    BY <1>3, <1>w DEF Read, ReadLost, ReadNothing, Take, Goto, WorkerRecord
  <2> QED BY <1>1, <1>2, <2>1
<1>4. CASE LimitAborted(w) \/ Acknowledge(w)
  <2>1. worker'[w].pc \in {"limit", "reading", "stopped"}
    BY <1>4, AdvancePC DEF LimitAborted, Acknowledge
  <2> QED BY <1>2, <2>1
<1>5. CASE \/ Limit(w) \/ FetchFailed(w) \/ NoProvider(w) \/ SetDelivered(w)
           \/ ScheduleRetry(w) \/ Bury(w)
  <2>1. Goto(w, "fetch") \/ Goto(w, "ack")
    BY <1>5, Zenon DEF Limit, FetchFailed, NoProvider, SetDelivered, SetOutcome, ScheduleRetry, Bury
  <2>2. worker'[w].pc \in {"fetch", "ack"}
    BY <2>1, GotoPC
  <2> QED BY <1>2, <2>2
<1>6. CASE Claim(w)
  <2>1. PICK pc \in {"send", "noprov"} : Goto(w, pc)
    BY <1>6 DEF Claim
  <2> QED BY <1>2, <2>1, GotoPC
<1>7. CASE Fetch(w)
  <2>1. worker'[w].pc \in {"claim", "ack"}
    BY <1>7, <1>w DEF Fetch, Goto, WorkerRecord
  <2> QED BY <1>2, <2>1
<1>8. ASSUME Active(w), worker'[w].msg = worker[w].msg
      PROVE  Id(w)' = Id(w) /\ Id(w) \in Notifications
  BY <1>8, IdStable, IdType
<1>9. CASE Send(w)
  <2>1. PICK ok \in BOOLEAN : Send(w)!(ok)
    BY <1>9 DEF Send
  <2>2. worker'[w].pc = "count" /\ worker'[w].ok = ok /\ worker'[w].msg = worker[w].msg
    BY <2>1, <1>w DEF WorkerRecord
  <2>3. Id(w)' = Id(w) /\ Id(w) \in Notifications
    BY <1>8, <2>1, <2>2 DEF Active
  <2>4. ok => End({Id(w)}, "accepted")
    BY <2>1, Zenon
  <2>5. ok => "accepted" \in ends'[Id(w)]
    BY <2>3, <2>4, EndGrows
  <2> QED BY <2>2, <2>3, <2>5 DEF WorkerOutcome
<1>10. CASE CountAttempt(w)
  <2>1. Goto(w, "record") /\ worker[w].pc = "count"
    BY <1>10 DEF CountAttempt
  <2>2. worker'[w].pc = "record" /\ worker'[w].ok = worker[w].ok /\ worker'[w].msg = worker[w].msg
    BY <2>1, GotoPC
  <2> QED BY <1>8, <2>1, <2>2 DEF WorkerOutcome, Active, EndsGrow
<1>11. CASE RecordAttempt(w)
  <2>1. /\ worker[w].pc = "record"
        /\ \/ worker[w].ok /\ Goto(w, "deliver")
           \/ ~worker[w].ok /\ (Goto(w, "requeue") \/ Goto(w, "fail"))
    BY <1>11, Zenon DEF RecordAttempt, Goto
  <2>2. /\ worker'[w].ok = worker[w].ok /\ worker'[w].msg = worker[w].msg
        /\ \/ worker[w].ok /\ worker'[w].pc = "deliver"
           \/ ~worker[w].ok /\ worker'[w].pc \in {"requeue", "fail"}
    BY <2>1, GotoPC
  <2>3. Id(w)' = Id(w) /\ Id(w) \in Notifications
    BY <1>8, <2>1, <2>2 DEF Active
  <2> QED BY <2>1, <2>2, <2>3 DEF WorkerOutcome, EndsGrow
<1>12. CASE SetQueued(w) \/ SetFailed(w)
  <2>1. /\ worker[w].pc \in {"requeue", "fail"}
        /\ Goto(w, "delay") \/ Goto(w, "bury")
    BY <1>12 DEF SetQueued, SetFailed, SetOutcome
  <2>2. worker'[w].ok = worker[w].ok /\ worker'[w].pc \in {"delay", "bury"}
    BY <2>1, GotoPC
  <2> QED BY <2>1, <2>2 DEF WorkerOutcome
<1> QED
  BY <1>3, <1>4, <1>5, <1>6, <1>7, <1>9, <1>10, <1>11, <1>12 DEF WorkerStep, ProcessMessage

LEMMA IdleStep ==
  ASSUME TypeOK, IndexOK, NEW w \in Workers, WorkerIdle(w), WorkerStep(w)
  PROVE  WorkerIdle(w)'
<1> USE DEF storeVars, pgVars, redisVars, groupVars, historyVars
<1>w. worker \in [Workers -> WorkerRecord]
  BY DEF TypeOK, DispatcherTypeOK, WorkerRecord
<1>1. worker[w].pc # "stopped" /\ Context(w)' = Context(w)
  BY ProcessMessageFrame DEF WorkerStep, Read, ReadLost, ReadNothing, Context, Active
<1>2. Context(w)' # "down"
  BY <1>1 DEF WorkerIdle
<1>3. CASE worker'[w].pc \notin {"reading", "stopped"} \/ worker'[w].rest = {}
  BY <1>2, <1>3 DEF WorkerIdle
<1>4. CASE Read(w) \/ ReadLost(w) \/ ReadNothing(w)
  <2>1. worker[w].pc = "reading" /\ worker[w].rest = {}
    BY <1>4 DEF Read, ReadLost, ReadNothing, WorkerIdle
  <2>2. worker'[w].pc = "limit" \/ worker'[w].rest = worker[w].rest
    BY <1>4, <1>w DEF Read, ReadLost, ReadNothing, Take, Goto, WorkerRecord
  <2> QED BY <1>3, <2>1, <2>2
<1>5. CASE Advance(w)
  <2>1. worker'[w].pc = "limit" \/ worker'[w].rest = {}
    BY <1>5, <1>w DEF Advance, Take, NewWorker
  <2> QED BY <1>3, <2>1
<1>6. CASE Fetch(w) \/ Send(w)
  <2>1. worker'[w].pc \in {"ack", "claim", "count"}
    BY <1>6, <1>w DEF Fetch, Send, Goto, WorkerRecord
  <2> QED BY <1>3, <2>1
<1>7. CASE \E pc \in PC \ {"reading", "stopped"} : Goto(w, pc)
  BY <1>3, <1>7, GotoPC
<1>8. CASE Claim(w)
  <2>1. PICK pc \in {"send", "noprov"} : Goto(w, pc)
    BY <1>8 DEF Claim
  <2> QED BY <1>7, <2>1 DEF PC
<1>9. CASE RecordAttempt(w)
  <2>1. Goto(w, "deliver") \/ Goto(w, "requeue") \/ Goto(w, "fail")
    BY <1>9, Zenon DEF RecordAttempt, Goto
  <2> QED BY <1>7, <2>1 DEF PC
<1>10. CASE \/ Limit(w) \/ FetchFailed(w) \/ NoProvider(w) \/ CountAttempt(w)
            \/ SetDelivered(w) \/ SetQueued(w) \/ SetFailed(w)
            \/ ScheduleRetry(w) \/ Bury(w)
  BY <1>7, <1>10 DEF Limit, FetchFailed, NoProvider, CountAttempt, SetDelivered,
     SetQueued, SetFailed, SetOutcome, ScheduleRetry, Bury, PC
<1> QED
  BY <1>4, <1>5, <1>6, <1>8, <1>9, <1>10
  DEF WorkerStep, ProcessMessage, LimitAborted, Acknowledge

\* Once a row is inserted and no longer scheduled it stays so.
LEMMA LiveRow ==
  ASSUME TypeOK, IndexOK, [Next]_vars, NEW n \in Notifications,
         status[n] \notin {"absent", "scheduled"}
  PROVE  status'[n] \notin {"absent", "scheduled"}
<1> USE DEF storeVars, pgVars, redisVars, groupVars, historyVars
<1>1. ASSUME NEW m, NEW s \in {"queued", "processing", "delivered", "failed", "cancelled"},
             NEW done, UpdateStatus(m, s, done)
      PROVE  status'[n] \notin {"absent", "scheduled"}
  <2>1. status' = [status EXCEPT ![m] = s] \/ status' = status
    BY <1>1, Zenon DEF UpdateStatus
  <2> QED BY <2>1 DEF TypeOK, StoresTypeOK
<1>2. CASE UNCHANGED status
  BY <1>2
<1>3. ASSUME NEW h \in Handlers, HandlerStep(h)
      PROVE  status'[n] \notin {"absent", "scheduled"}
  <2>1. ASSUME NEW S, NEW deferred, NEW replied, Submit(h, S, deferred, replied)
        PROVE  status'[n] \notin {"absent", "scheduled"}
    BY <2>1 DEF Submit, Insertable, Insert
  <2>2. CASE EnqueueNext(h) \/ MarkQueued(h)
    BY <1>1, <1>2, <2>2 DEF EnqueueNext, MarkQueued
  <2> QED BY <1>3, <2>1, <2>2 DEF HandlerStep, Create, CreateBatch
<1>4. ASSUME NEW i \in Instances, SchedulerStep(i) \/ DelayedRetryStep(i)
      PROVE  status'[n] \notin {"absent", "scheduled"}
  BY <1>2, <1>4 DEF SchedulerStep, FetchScheduledDue, EnqueueDue, DelayedRetryStep,
     RangeDelayed, RemovePopped, Reenqueue
<1>5. ASSUME NEW w \in Workers, WorkerStep(w)
      PROVE  status'[n] \notin {"absent", "scheduled"}
  BY <1>1, <1>2, <1>5 DEF WorkerStep, Read, ReadLost, ReadNothing, ProcessMessage, Limit,
     LimitAborted, Fetch, FetchFailed, Claim, NoProvider, Send, CountAttempt,
     RecordAttempt, SetDelivered, SetQueued, SetFailed, SetOutcome, ScheduleRetry, Bury,
     Acknowledge
<1>6. CASE \E m \in Notifications : Cancel(m)
  BY <1>1, <1>6 DEF Cancel
<1>7. CASE \/ \E i \in Instances : Stop(i) \/ Crash(i) \/ Exit(i) \/ Start(i)
           \/ UNCHANGED vars
  BY <1>2, <1>7 DEF Stop, Crash, Exit, Halt, Start, vars
<1> QED BY <1>3, <1>4, <1>5, <1>6, <1>7 DEF Next

LEMMA JobStep ==
  ASSUME TypeOK, IndexOK, JobOK, [Next]_vars
  PROVE  JobOK'
<1>t. TypeOK'
  BY NextOK
<1> SUFFICES ASSUME NEW g \in Handlers, NEW n \in handler'[g].job \cup handler'[g].mark
             PROVE  status'[n] \notin {"absent", "scheduled"}
  BY DEF JobOK
<1>n. n \in Notifications
  BY <1>t DEF TypeOK, ServiceTypeOK
<1>1. CASE n \in handler[g].job \cup handler[g].mark
  BY <1>1, <1>n, LiveRow DEF JobOK
<1>2. ASSUME NEW h \in Handlers, HandlerStep(h)
      PROVE  status'[n] \notin {"absent", "scheduled"}
  <2>1. ASSUME NEW S, NEW deferred, NEW replied, Submit(h, S, deferred, replied)
        PROVE  status'[n] \notin {"absent", "scheduled"}
    <3>1. handler' = [handler EXCEPT ![h].job = S \ deferred]
            \/ handler' = [handler EXCEPT ![h].job = {}]
      BY <2>1, Zenon DEF Submit
    <3>2. n \in handler[g].job \cup handler[g].mark \/ n \in S \ deferred
      BY <3>1 DEF TypeOK, ServiceTypeOK
    <3>3. CASE n \in S \ deferred
      BY <1>n, <2>1, <3>3 DEF Submit, Insert
    <3> QED BY <1>1, <3>2, <3>3
  <2>2. CASE EnqueueNext(h)
    <3>1. PICK m \in handler[h].job, done \in BOOLEAN, replied \in BOOLEAN :
                 EnqueueNext(h)!(m, done, replied)
      BY <2>2 DEF EnqueueNext
    <3>2. handler' = [handler EXCEPT ![h].job = @ \ {m}, ![h].mark = {m}]
            \/ handler' = [handler EXCEPT ![h].job = @ \ {m}, ![h].mark = {}]
      BY <3>1, Zenon
    <3>3. n \in handler[g].job \cup handler[g].mark
      BY <3>2 DEF TypeOK, ServiceTypeOK
    <3> QED BY <1>1, <3>3
  <2>3. CASE MarkQueued(h)
    <3>1. handler' = [handler EXCEPT ![h].mark = {}]
      BY <2>3 DEF MarkQueued
    <3>2. n \in handler[g].job \cup handler[g].mark
      BY <3>1 DEF TypeOK, ServiceTypeOK
    <3> QED BY <1>1, <3>2
  <2> QED BY <1>2, <2>1, <2>2, <2>3 DEF HandlerStep, Create, CreateBatch
<1>3. CASE UNCHANGED handler
  BY <1>1, <1>3
<1>4. ASSUME NEW i \in Instances, Stop(i) \/ Crash(i) \/ Exit(i) \/ Start(i)
      PROVE  status'[n] \notin {"absent", "scheduled"}
  <2>1. n \in handler[g].job \cup handler[g].mark
    BY <1>4 DEF Stop, Crash, Exit, Halt, Start, IdleHandler
  <2> QED BY <1>1, <2>1
<1> QED BY <1>2, <1>3, <1>4 DEF Next, Cancel, vars

LEMMA LossInvNext == LossInv /\ [Next]_vars => LossInv'
<1> SUFFICES ASSUME LossInv, [Next]_vars PROVE LossInv'
  OBVIOUS
<1>1. TypeOK' /\ IndexOK' /\ JobOK' /\ Grown /\ EndsGrow
  BY NextOK, JobStep, NextGrows, NextEndsGrow DEF LossInv
<1>2. ASSUME NEW v \in Workers
      PROVE  WorkerOutcome(v)' /\ WorkerIdle(v)'
  <2>1. CASE worker'[v] = worker[v] /\ Context(v)' = Context(v)
    BY <1>1, <2>1, OutcomeFrame DEF LossInv, WorkerIdle
  <2>2. ASSUME NEW w \in Workers, WorkerStep(w)
        PROVE  WorkerOutcome(v)' /\ WorkerIdle(v)'
    <3>1. CASE v = w
      BY <1>1, <2>2, <3>1, OutcomeStep, IdleStep DEF LossInv
    <3>2. CASE v # w
      <4>1. Context(v)' = Context(v)
        BY <2>2, ProcessMessageFrame DEF WorkerStep, Read, ReadLost, ReadNothing, Context,
           storeVars
      <4> QED BY <2>1, <2>2, <3>2, <4>1, OtherWorkers DEF LossInv
    <3> QED BY <3>1, <3>2
  <2>3. ASSUME NEW i \in Instances, Stop(i)
        PROVE  WorkerOutcome(v)' /\ WorkerIdle(v)'
    <3>1. worker' = worker /\ (Context(v)' = Context(v) \/ Context(v)' = "stopping")
      BY <2>3 DEF Stop, Context, LossInv, TypeOK, StoresTypeOK
    <3> QED BY <1>1, <3>1, OutcomeFrame DEF LossInv, WorkerIdle
  <2>4. ASSUME NEW i \in Instances, Halt(i) \/ Start(i)
        PROVE  WorkerOutcome(v)' /\ WorkerIdle(v)'
    <3>1. CASE WorkerHost[v] = i
      <4>1. \/ worker'[v].pc = "stopped" /\ worker'[v].rest = {}
            \/ worker'[v].pc = "reading" /\ worker'[v].rest = {} /\ Context(v)' = "running"
        <5>1. ctx \in [Instances -> {"running", "stopping", "down"}]
          BY DEF LossInv, TypeOK, StoresTypeOK
        <5>2. CASE Halt(i)
          BY <3>1, <5>2 DEF Halt, NewWorker
        <5>3. CASE Start(i)
          BY <3>1, <5>1, <5>3 DEF Start, NewWorker, Context
        <5> QED BY <2>4, <5>2, <5>3
      <4> QED BY <4>1 DEF WorkerOutcome, WorkerIdle
    <3>2. CASE WorkerHost[v] # i
      <4>1. worker'[v] = worker[v] /\ Context(v)' = Context(v)
        BY <2>4, <3>2, DispatcherAssumption
        DEF Halt, Start, Context, LossInv, TypeOK, StoresTypeOK
      <4> QED BY <2>1, <4>1
    <3> QED BY <3>1, <3>2
  <2>5. CASE UNCHANGED <<worker, ctx>>
    BY <2>1, <2>5 DEF Context
  <2>6. ASSUME NEW h \in Handlers, HandlerStep(h)
        PROVE  UNCHANGED ctx
    BY <2>6 DEF HandlerStep, Create, CreateBatch, Submit, EnqueueNext, MarkQueued
  <2>7. ASSUME NEW i \in Instances, SchedulerStep(i) \/ DelayedRetryStep(i)
        PROVE  UNCHANGED ctx
    BY <2>7 DEF SchedulerStep, FetchScheduledDue, EnqueueDue, DelayedRetryStep,
       RangeDelayed, RemovePopped, Reenqueue, storeVars
  <2> QED
    BY <2>2, <2>3, <2>4, <2>5, <2>6, <2>7 DEF Next, Cancel, Crash, Exit, vars, storeVars
<1> QED BY <1>1, <1>2 DEF LossInv

-----------------------------------------------------------------------------
\* A final status is true

Burying(w, n) == worker[w].pc = "bury" /\ Id(w) = n

\* A worker about to write the dead letter of n does, or loses it and is
\* recorded to have, or stays where it is.
LEMMA BuryingStep ==
  ASSUME LossInv, [Next]_vars, NEW n \in Notifications, NEW v \in Workers, Burying(v, n)
  PROVE  Burying(v, n)' \/ dlq'[n] > 0 \/ "unburied" \in ends'[n]
<1>1. Grown /\ TypeOK /\ IndexOK /\ Active(v)
  BY NextGrows DEF LossInv, Burying, Active
<1>2. CASE worker'[v] = worker[v]
  BY <1>1, <1>2, IdStable DEF Burying
<1>3. ASSUME NEW w \in Workers, WorkerStep(w)
      PROVE  Burying(v, n)' \/ dlq'[n] > 0 \/ "unburied" \in ends'[n]
  <2>1. CASE v # w
    BY <1>1, <1>2, <1>3, <2>1, OtherWorkers
  <2>2. CASE v = w
    <3>1. Bury(w)
      BY <1>3, <2>2 DEF Burying, WorkerStep, Read, ReadLost, ReadNothing, ProcessMessage,
         Limit, LimitAborted, Fetch, FetchFailed, Claim, NoProvider, Send, CountAttempt,
         RecordAttempt, SetDelivered, SetQueued, SetFailed, SetOutcome, ScheduleRetry,
         Acknowledge
    <3>2. dlq' = [dlq EXCEPT ![n] = @ + 1] \/ End({n}, "unburied")
      BY <2>2, <3>1, Zenon DEF Bury, Burying, Push
    <3>3. CASE dlq' = [dlq EXCEPT ![n] = @ + 1]
      <4>1. dlq \in [Notifications -> Nat]
        BY <1>1 DEF TypeOK, StoresTypeOK
      <4> QED BY <3>3, <4>1
    <3>4. CASE End({n}, "unburied")
      BY <1>1, <3>4, EndGrows
    <3> QED BY <3>2, <3>3, <3>4
  <2> QED BY <2>1, <2>2
<1>4. ASSUME NEW i \in Instances, Halt(i)
      PROVE  Burying(v, n)' \/ "unburied" \in ends'[n]
  <2>1. CASE WorkerHost[v] = i
    <3>1. "unburied" \in Loss(i, n)
      BY <2>1 DEF Loss, Burying
    <3> QED BY <1>4, <3>1 DEF Halt
  <2>2. CASE WorkerHost[v] # i
    BY <1>2, <1>4, <2>2, <1>1, IdStable DEF Halt, Burying
  <2> QED BY <2>1, <2>2
<1>5. ASSUME NEW i \in Instances, Start(i)
      PROVE  Burying(v, n)'
  <2>1. WorkerHost[v] # i
    BY <1>5 DEF Start, LossInv, WorkerIdle, Context, Burying
  <2>2. worker'[v] = worker[v]
    BY <1>5, <2>1 DEF Start
  <2> QED BY <1>1, <2>2, IdStable DEF Burying
<1> QED BY <1>2, <1>3, <1>4, <1>5 DEF Next, Crash, Exit, Stop, vars

LEMMA TrueFrame ==
  ASSUME LossInv, [Next]_vars, NEW n \in Notifications, StatusIsTrue(n),
         status'[n] = status[n]
  PROVE  StatusIsTrue(n)'
<1>1. EndsGrow
  BY NextEndsGrow DEF LossInv
<1>2. ends[n] \subseteq ends'[n] /\ (dlq[n] > 0 => dlq'[n] > 0)
  <2>1. dlq[n] \in Nat /\ dlq'[n] \in Nat
    BY NextOK DEF LossInv, TypeOK, StoresTypeOK
  <2> QED BY <1>1, <2>1 DEF EndsGrow
<1>3. ASSUME status[n] = "failed"
      PROVE  \/ dlq'[n] > 0 \/ ends'[n] \cap {"unroutable", "unburied"} # {}
             \/ \E w \in Workers : Burying(w, n)'
  <2>1. \/ dlq[n] > 0 \/ ends[n] \cap {"unroutable", "unburied"} # {}
        \/ \E w \in Workers : Burying(w, n)
    BY <1>3 DEF StatusIsTrue, Burying
  <2> QED BY <1>2, <2>1, BuryingStep
<1> QED BY <1>2, <1>3 DEF StatusIsTrue, Burying

LEMMA NotFinalIsTrue ==
  ASSUME NEW n \in Notifications, status'[n] \notin SkippedStatus
  PROVE  StatusIsTrue(n)'
BY DEF StatusIsTrue, SkippedStatus

LEMMA UpdateStatusCases ==
  ASSUME TypeOK, NEW m, NEW s, NEW done, UpdateStatus(m, s, done), NEW n \in Notifications
  PROVE  status'[n] = status[n] \/ (n = m /\ status'[n] = s)
<1>1. status' = [status EXCEPT ![m] = s] \/ status' = status
  BY Zenon DEF UpdateStatus
<1> QED BY <1>1 DEF TypeOK, StoresTypeOK

LEMMA TrueStep ==
  ASSUME LossInv, [Next]_vars, NEW n \in Notifications, StatusIsTrue(n)
  PROVE  StatusIsTrue(n)'
<1> USE DEF storeVars, pgVars, redisVars, groupVars, historyVars
<1>1. TypeOK /\ IndexOK /\ Grown
  BY NextGrows DEF LossInv
<1>2. CASE status'[n] = status[n]
  BY <1>2, TrueFrame
<1>3. ASSUME NEW h \in Handlers, HandlerStep(h)
      PROVE  StatusIsTrue(n)'
  <2>1. ASSUME NEW S, NEW deferred, NEW replied, Submit(h, S, deferred, replied)
        PROVE  status'[n] = status[n] \/ status'[n] \notin SkippedStatus
    BY <2>1 DEF Submit, Insert, SkippedStatus
  <2>2. CASE MarkQueued(h)
    <3>1. status'[n] = status[n] \/ status'[n] = "queued"
      BY <1>1, <2>2, UpdateStatusCases DEF MarkQueued
    <3> QED BY <1>2, <3>1, NotFinalIsTrue DEF SkippedStatus
  <2>3. CASE EnqueueNext(h)
    BY <1>2, <2>3 DEF EnqueueNext
  <2> QED
    BY <1>2, <1>3, <2>1, <2>2, <2>3, NotFinalIsTrue DEF HandlerStep, Create, CreateBatch
<1>4. ASSUME NEW m \in Notifications, Cancel(m)
      PROVE  StatusIsTrue(n)'
  <2>1. status'[n] = status[n] \/ (n = m /\ status'[n] = "cancelled")
    BY <1>1, <1>4, UpdateStatusCases DEF Cancel
  <2>2. "withdrawn" \in ends'[m]
    BY <1>1, <1>4, EndGrows DEF Cancel
  <2>3. CASE n = m /\ status'[n] = "cancelled"
    BY <2>2, <2>3 DEF StatusIsTrue
  <2> QED BY <1>2, <2>1, <2>3
<1>5. ASSUME NEW i \in Instances, SchedulerStep(i) \/ DelayedRetryStep(i)
      PROVE  StatusIsTrue(n)'
  <2>1. status'[n] = status[n] \/ status'[n] = "pending"
    BY <1>5 DEF SchedulerStep, FetchScheduledDue, EnqueueDue, DelayedRetryStep,
       RangeDelayed, RemovePopped, Reenqueue
  <2> QED BY <1>2, <2>1, NotFinalIsTrue DEF SkippedStatus
<1>6. ASSUME NEW w \in Workers, WorkerStep(w)
      PROVE  StatusIsTrue(n)'
  <2>1. CASE Claim(w) \/ SetQueued(w)
    <3>1. \E done : \/ UpdateStatus(Id(w), "processing", done)
                    \/ UpdateStatus(Id(w), "queued", done)
      BY <2>1, Zenon DEF Claim, SetQueued, SetOutcome
    <3>2. status'[n] = status[n] \/ status'[n] \in {"processing", "queued"}
      BY <1>1, <3>1, UpdateStatusCases
    <3> QED BY <1>2, <3>2, NotFinalIsTrue DEF SkippedStatus
  <2>2. CASE NoProvider(w)
    <3>1. status'[n] = status[n] \/ (n = Id(w) /\ status'[n] = "failed")
      BY <1>1, <2>2, UpdateStatusCases DEF NoProvider
    <3>2. CASE n = Id(w) /\ status'[n] = "failed"
      <4>1. "unroutable" \in ends'[n]
        BY <1>1, <2>2, <3>2, EndGrows DEF NoProvider
      <4> QED BY <3>2, <4>1 DEF StatusIsTrue
    <3> QED BY <1>2, <3>1, <3>2
  <2>3. CASE SetDelivered(w)
    <3>1. status'[n] = status[n] \/ (n = Id(w) /\ status'[n] = "delivered")
      BY <1>1, <2>3, UpdateStatusCases DEF SetDelivered, SetOutcome
    <3>2. CASE n = Id(w) /\ status'[n] = "delivered"
      <4>1. "accepted" \in ends[n]
        BY <2>3, <3>2 DEF SetDelivered, SetOutcome, LossInv, WorkerOutcome
      <4>2. UNCHANGED ends
        BY <2>3 DEF SetDelivered, SetOutcome
      <4> QED BY <3>2, <4>1, <4>2 DEF StatusIsTrue
    <3> QED BY <1>2, <3>1, <3>2
  <2>4. CASE SetFailed(w)
    <3>1. status'[n] = status[n] \/ (n = Id(w) /\ status'[n] = "failed")
      BY <1>1, <2>4, UpdateStatusCases DEF SetFailed, SetOutcome
    <3>2. CASE n = Id(w) /\ status'[n] = "failed"
      <4>1. worker'[w].pc = "bury" /\ worker'[w].msg = worker[w].msg
        BY <1>1, <2>4, GotoPC DEF SetFailed, SetOutcome
      <4>2. Active(w)
        BY <2>4 DEF SetFailed, SetOutcome, Active
      <4>3. Id(w)' = n
        BY <1>1, <3>2, <4>1, <4>2, IdStable
      <4> QED BY <3>2, <4>1, <4>3 DEF StatusIsTrue
    <3> QED BY <1>2, <3>1, <3>2
  <2>5. CASE \/ Read(w) \/ ReadLost(w) \/ ReadNothing(w) \/ Limit(w) \/ LimitAborted(w)
             \/ Fetch(w) \/ FetchFailed(w) \/ Send(w) \/ CountAttempt(w)
             \/ RecordAttempt(w) \/ ScheduleRetry(w) \/ Bury(w) \/ Acknowledge(w)
    BY <1>2, <2>5 DEF Read, ReadLost, ReadNothing, Limit, LimitAborted, Fetch,
       FetchFailed, Send, CountAttempt, RecordAttempt, ScheduleRetry, Bury, Acknowledge
  <2> QED
    BY <1>6, <2>1, <2>2, <2>3, <2>4, <2>5 DEF WorkerStep, ProcessMessage
<1>7. CASE \/ \E i \in Instances : Stop(i) \/ Crash(i) \/ Exit(i) \/ Start(i)
           \/ UNCHANGED vars
  BY <1>2, <1>7 DEF Stop, Crash, Exit, Halt, Start, vars
<1> QED BY <1>3, <1>4, <1>5, <1>6, <1>7 DEF Next

\* What reads 'delivered' was accepted by the provider, what reads 'cancelled'
\* was cancelled, and what reads 'failed' is in the dead letter queue, on its
\* way there, had no provider, or that very push failed or died with its process.
THEOREM FinalStatusHolds == Spec => []FinalStatusIsTrue
<1>1. LossInv /\ FinalStatusIsTrue /\ [Next]_vars => LossInv' /\ FinalStatusIsTrue'
  BY LossInvNext, TrueStep DEF FinalStatusIsTrue
<1> QED BY <1>1, LossInit, PTL DEF Spec

-----------------------------------------------------------------------------
\* No notification disappears

\* After the step n has ended or something carries it.
Kept(n) == Ended(n)' \/ Carried(n)'

LEMMA EndedStays ==
  ASSUME LossInv, [Next]_vars, NEW n \in Notifications, Ended(n)
  PROVE  Kept(n)
<1>1. dlq[n] \in Nat /\ dlq'[n] \in Nat
  BY NextOK DEF LossInv, TypeOK, StoresTypeOK
<1>2. ends[n] \subseteq ends'[n] /\ dlq[n] <= dlq'[n]
  BY NextEndsGrow DEF LossInv, EndsGrow
<1> QED BY <1>1, <1>2 DEF Ended, Kept

LEMMA EndKeeps ==
  ASSUME TypeOK, NEW S, NEW how, End(S, how), NEW n \in Notifications, n \in S
  PROVE  Kept(n)
BY EndGrows DEF Kept, Ended

LEMMA ProcessingKeeps ==
  ASSUME NEW n \in Notifications, NEW w \in Workers, Processing(w, n)' \/ Waiting(w, n)'
  PROVE  Kept(n)
BY DispatcherAssumption DEF Kept, Carried, Held

LEMMA UnsettledActive ==
  ASSUME NEW w \in Workers, Unsettled(w)
  PROVE  Active(w)
BY DEF Unsettled, Active

LEMMA WaitingStable ==
  ASSUME TypeOK, IndexOK, Grown, NEW n, NEW w \in Workers, Waiting(w, n),
         worker[w].rest \subseteq worker'[w].rest
  PROVE  Waiting(w, n)'
<1>1. PICK m \in worker[w].rest : Subject(m) = n
  BY DEF Waiting
<1>2. HandedOut(m)
  BY DEF IndexOK
<1>3. Subject(m)' = n
  BY <1>1, <1>2, SubjectStable DEF Subject
<1> QED BY <1>3 DEF Waiting

LEMMA StreamKeeps ==
  ASSUME TypeOK, Grown, NEW n \in Notifications, InStream(n), UNCHANGED lastDelivered,
         stream' \in [Priority -> Seq(Notifications)]
  PROVE  InStream(n)'
<1>1. PICK p \in Priority : \E k \in DOMAIN stream[p] : lastDelivered[p] < k /\ stream[p][k] = n
  BY DEF InStream
<1>2. PICK k \in DOMAIN stream[p] : lastDelivered[p] < k /\ stream[p][k] = n
  BY <1>1
<1>3. stream[p] \in Seq(Notifications) /\ stream'[p] \in Seq(Notifications)
  BY DEF TypeOK, StoresTypeOK
<1>4. k \in 1 .. Len(stream[p]) /\ k \in 1 .. Len(stream'[p])
  BY <1>2, <1>3 DEF Grown
<1>5. stream'[p][k] = n
  BY <1>2, <1>4 DEF Grown
<1>6. k \in DOMAIN stream'[p]
  BY <1>3, <1>4
<1> QED BY <1>2, <1>5, <1>6 DEF InStream

\* Every carrier of n that the step touches keeps n; the others stay.
LEMMA CarriedFrame ==
  ASSUME LossInv, [Next]_vars, NEW n \in Notifications, Carried(n),
         status[n] = "scheduled" => status'[n] = "scheduled" \/ Kept(n),
         InStream(n) => UNCHANGED lastDelivered \/ Kept(n),
         n \in delayed => n \in delayed' \/ Kept(n),
         \A h \in Handlers : HeldByHandler(h, n) => HeldByHandler(h, n)' \/ Kept(n),
         \A i \in Instances : HeldByScheduler(i, n) => HeldByScheduler(i, n)' \/ Kept(n),
         \A i \in Instances : HeldByPump(i, n) => HeldByPump(i, n)' \/ Kept(n),
         \A w \in Workers : Processing(w, n) => worker'[w] = worker[w] \/ Kept(n),
         \A w \in Workers :
           Waiting(w, n) => worker[w].rest \subseteq worker'[w].rest \/ Kept(n)
  PROVE  Kept(n)
<1>1. TypeOK /\ IndexOK /\ Grown /\ TypeOK'
  BY NextGrows, NextOK DEF LossInv
<1>2. CASE status[n] = "scheduled"
  BY <1>2 DEF Kept, Carried
<1>3. CASE InStream(n)
  <2>1. stream' \in [Priority -> Seq(Notifications)]
    BY <1>1 DEF TypeOK, StoresTypeOK
  <2> QED BY <1>1, <1>3, <2>1, StreamKeeps DEF Kept, Carried
<1>4. CASE n \in delayed
  BY <1>4 DEF Kept, Carried
<1>5. CASE \E h \in Handlers : HeldByHandler(h, n)
  BY <1>5, ServiceAssumption DEF Kept, Carried, Held
<1>6. CASE \E i \in Instances : HeldByScheduler(i, n) \/ HeldByPump(i, n)
  BY <1>6 DEF Kept, Carried, Held
<1>7. ASSUME NEW w \in Workers, Processing(w, n)
      PROVE  Kept(n)
  <2>1. CASE worker'[w] = worker[w]
    <3>1. Id(w)' = Id(w)
      BY <1>1, <1>7, <2>1, IdStable, UnsettledActive DEF Processing
    <3> QED BY <1>7, <2>1, <3>1, ProcessingKeeps DEF Processing, Unsettled
  <2> QED BY <1>7, <2>1
<1>8. ASSUME NEW w \in Workers, Waiting(w, n)
      PROVE  Kept(n)
  BY <1>1, <1>8, WaitingStable, ProcessingKeeps
<1> QED BY <1>2, <1>3, <1>4, <1>5, <1>6, <1>7, <1>8 DEF Carried, Held

\* An entry just appended to its stream has not been read.
LEMMA EnqueueKeeps ==
  ASSUME TypeOK, IndexOK, NEW n \in Notifications, NEW done, done,
         Enqueue(n, done), UNCHANGED lastDelivered
  PROVE  Kept(n)
<1> DEFINE p == PriorityOf[n]
           k == Len(stream[p]) + 1
<1>1. p \in Priority
  BY StoresAssumption
<1>2. stream \in [Priority -> Seq(Notifications)] /\ stream[p] \in Seq(Notifications)
  BY <1>1 DEF TypeOK, StoresTypeOK
<1>3. stream'[p] = Append(stream[p], n)
  <2>1. stream' = [stream EXCEPT ![p] = Append(@, n)]
    BY Zenon DEF Enqueue
  <2> QED BY <1>1, <1>2, <2>1
<1>4. k \in DOMAIN stream'[p] /\ stream'[p][k] = n
  BY <1>2, <1>3
<1>5. lastDelivered'[p] < k
  BY <1>1, <1>2 DEF IndexOK, TypeOK, StoresTypeOK
<1>6. InStream(n)'
  BY <1>1, <1>4, <1>5 DEF InStream
<1> QED BY <1>6 DEF Kept, Carried

LEMMA HandlerKeeps ==
  ASSUME LossInv, NoSilentLoss, [Next]_vars, NEW n \in Notifications, status'[n] # "absent",
         NEW h \in Handlers, HandlerStep(h), UNCHANGED <<due, pump, worker>>
  PROVE  Kept(n)
<1> USE DEF storeVars, pgVars, redisVars, groupVars, historyVars
<1>1. TypeOK /\ IndexOK
  BY DEF LossInv
<1>2. CASE Ended(n)
  BY <1>2, EndedStays
<1>3. ASSUME NEW S, NEW deferred, NEW replied \in BOOLEAN, Submit(h, S, deferred, replied)
      PROVE  Kept(n)
  <2>1. CASE n \in S /\ n \in deferred
    BY <1>3, <2>1 DEF Submit, Insert, Kept, Carried
  <2>2. CASE n \in S \ deferred
    <3>1. handler' = [handler EXCEPT ![h].job = S \ deferred] \/ End(S \ deferred, "dropped")
      BY <1>3, Zenon DEF Submit
    <3>2. CASE handler' = [handler EXCEPT ![h].job = S \ deferred]
      <4>1. HeldByHandler(h, n)'
        BY <1>1, <2>2, <3>2 DEF HeldByHandler, TypeOK, ServiceTypeOK
      <4> QED BY <4>1, ServiceAssumption DEF Kept, Carried, Held
    <3> QED BY <1>1, <2>2, <3>1, <3>2, EndKeeps
  <2>3. CASE n \notin S
    <3>1. status'[n] = status[n]
      BY <1>3, <2>3 DEF Submit, Insert
    <3>2. \A g \in Handlers : HeldByHandler(g, n) => HeldByHandler(g, n)'
      <4>1. handler[h].job = {}
        BY <1>3 DEF Submit, IdleHandler
      <4>2. handler' = [handler EXCEPT ![h].job = S \ deferred]
              \/ handler' = [handler EXCEPT ![h].job = {}]
        BY <1>3, Zenon DEF Submit
      <4> QED BY <1>1, <4>1, <4>2 DEF HeldByHandler, TypeOK, ServiceTypeOK
    <3>3. UNCHANGED <<lastDelivered, delayed>>
      BY <1>3 DEF Submit
    <3>4. CASE Carried(n)
      BY <3>1, <3>2, <3>3, <3>4, CarriedFrame DEF HeldByScheduler, HeldByPump
    <3> QED BY <1>2, <3>1, <3>4 DEF NoSilentLoss
  <2> QED BY <2>1, <2>2, <2>3
<1>4. CASE EnqueueNext(h)
  <2>1. PICK m \in handler[h].job, done \in BOOLEAN, replied \in BOOLEAN :
               EnqueueNext(h)!(m, done, replied)
    BY <1>4 DEF EnqueueNext
  <2>2. CASE n = m
    <3>1. CASE done
      BY <1>1, <2>1, <2>2, <3>1, EnqueueKeeps
    <3>2. CASE ~done
      <4>1. End({n}, "unqueued")
        BY <2>1, <2>2, <3>2, Zenon
      <4> QED BY <1>1, <4>1, EndKeeps
    <3> QED BY <3>1, <3>2
  <2>3. CASE n # m
    <3>1. handler' = [handler EXCEPT ![h].job = @ \ {m}, ![h].mark = {m}]
            \/ handler' = [handler EXCEPT ![h].job = @ \ {m}, ![h].mark = {}]
      BY <2>1, Zenon
    <3>2. \A g \in Handlers : HeldByHandler(g, n) => HeldByHandler(g, n)'
      BY <1>1, <2>3, <3>1 DEF HeldByHandler, TypeOK, ServiceTypeOK
    <3>3. UNCHANGED <<status, lastDelivered, delayed>>
      BY <2>1
    <3>4. CASE Carried(n)
      BY <3>2, <3>3, <3>4, CarriedFrame DEF HeldByScheduler, HeldByPump
    <3> QED BY <1>2, <3>3, <3>4 DEF NoSilentLoss
  <2> QED BY <2>2, <2>3
<1>5. CASE MarkQueued(h)
  <2>1. PICK m \in handler[h].mark, done \in BOOLEAN :
               /\ UpdateStatus(m, "queued", done)
               /\ handler' = [handler EXCEPT ![h].mark = {}]
               /\ UNCHANGED <<lastDelivered, delayed>>
    BY <1>5 DEF MarkQueued
  <2>2. status[m] \notin {"absent", "scheduled"}
    BY DEF LossInv, JobOK
  <2>3. status'[n] = status[n] \/ n = m
    BY <1>1, <2>1, UpdateStatusCases
  <2>4. \A g \in Handlers : HeldByHandler(g, n) => HeldByHandler(g, n)'
    BY <1>1, <2>1 DEF HeldByHandler, TypeOK, ServiceTypeOK
  <2>5. CASE Carried(n)
    BY <2>1, <2>2, <2>3, <2>4, <2>5, CarriedFrame DEF HeldByScheduler, HeldByPump
  <2> QED BY <1>2, <2>2, <2>3, <2>5 DEF NoSilentLoss
<1> QED BY <1>3, <1>4, <1>5 DEF HandlerStep, Create, CreateBatch

LEMMA CancelKeeps ==
  ASSUME LossInv, NoSilentLoss, [Next]_vars, NEW n \in Notifications, status'[n] # "absent",
         NEW m \in Notifications, Cancel(m), UNCHANGED <<due, pump, worker>>
  PROVE  Kept(n)
<1>1. TypeOK
  BY DEF LossInv
<1>2. CASE n = m
  BY <1>1, <1>2, EndKeeps DEF Cancel
<1>3. CASE n # m
  <2>0. UpdateStatus(m, "cancelled", TRUE)
    BY DEF Cancel
  <2>1. status'[n] = status[n]
    BY <1>1, <1>3, <2>0, UpdateStatusCases
  <2>2. UNCHANGED <<lastDelivered, delayed, handler>>
    BY DEF Cancel, redisVars, groupVars
  <2>3. CASE Carried(n)
    BY <2>1, <2>2, <2>3, CarriedFrame DEF HeldByHandler, HeldByScheduler, HeldByPump
  <2> QED BY <2>1, <2>3, EndedStays DEF NoSilentLoss
<1> QED BY <1>2, <1>3

LEMMA SchedulerKeeps ==
  ASSUME LossInv, NoSilentLoss, [Next]_vars, NEW n \in Notifications, status'[n] # "absent",
         NEW i \in Instances, SchedulerStep(i), UNCHANGED <<handler, pump, worker>>
  PROVE  Kept(n)
<1> USE DEF storeVars, pgVars, redisVars, groupVars, historyVars
<1>1. TypeOK /\ IndexOK
  BY DEF LossInv
<1>2. CASE FetchScheduledDue(i)
  <2>0. PICK S \in SUBSET Claimable : FetchScheduledDue(i)!(S)
    BY <1>2 DEF FetchScheduledDue
  <2>1. PICK got \in SUBSET S : FetchScheduledDue(i)!(S)!(got)
    BY <2>0
  <2>2. CASE n \in got
    <3>1. HeldByScheduler(i, n)'
      BY <1>1, <2>1, <2>2 DEF HeldByScheduler, TypeOK, SchedulerTypeOK
    <3> QED BY <3>1 DEF Kept, Carried, Held
  <2>3. CASE n \in S \ got
    BY <1>1, <2>1, <2>3, EndKeeps
  <2>4. CASE n \notin S
    <3>1. status'[n] = status[n] /\ UNCHANGED <<lastDelivered, delayed>>
      BY <2>1, <2>4
    <3>2. \A j \in Instances : HeldByScheduler(j, n) => HeldByScheduler(j, n)'
      BY <1>1, <2>1 DEF HeldByScheduler, TypeOK, SchedulerTypeOK
    <3>3. CASE Carried(n)
      BY <3>1, <3>2, <3>3, CarriedFrame DEF HeldByHandler, HeldByPump
    <3> QED BY <3>1, <3>3, EndedStays DEF NoSilentLoss
  <2> QED BY <2>2, <2>3, <2>4
<1>3. CASE EnqueueDue(i)
  <2>1. PICK m \in due[i], done \in Outcomes("redis", i) : EnqueueDue(i)!(m, done)
    BY <1>3 DEF EnqueueDue
  <2>2. CASE n = m
    <3>1. CASE done
      BY <1>1, <2>1, <2>2, <3>1, EnqueueKeeps
    <3>2. CASE ~done
      <4>1. End({n}, "dropped")
        BY <2>1, <2>2, <3>2, Zenon
      <4> QED BY <1>1, <4>1, EndKeeps
    <3> QED BY <3>1, <3>2
  <2>3. CASE n # m
    <3>1. UNCHANGED <<status, lastDelivered, delayed>>
      BY <2>1
    <3>2. \A j \in Instances : HeldByScheduler(j, n) => HeldByScheduler(j, n)'
      BY <1>1, <2>1, <2>3 DEF HeldByScheduler, TypeOK, SchedulerTypeOK
    <3>3. CASE Carried(n)
      BY <3>1, <3>2, <3>3, CarriedFrame DEF HeldByHandler, HeldByPump
    <3> QED BY <3>1, <3>3, EndedStays DEF NoSilentLoss
  <2> QED BY <2>2, <2>3
<1> QED BY <1>2, <1>3 DEF SchedulerStep

LEMMA DelayedRetryKeeps ==
  ASSUME LossInv, NoSilentLoss, [Next]_vars, NEW n \in Notifications, status'[n] # "absent",
         NEW i \in Instances, DelayedRetryStep(i), UNCHANGED <<handler, due, worker>>
  PROVE  Kept(n)
<1> USE DEF storeVars, pgVars, redisVars, groupVars, historyVars
<1>1. TypeOK /\ IndexOK
  BY DEF LossInv
<1>p. pump \in [Instances -> [hand : SUBSET Notifications, popped : BOOLEAN]]
  BY <1>1 DEF TypeOK, DelayedRetryTypeOK
<1>s. UNCHANGED <<status, lastDelivered>>
  BY DEF DelayedRetryStep, RangeDelayed, RemovePopped, Reenqueue
<1>2. ASSUME n \in delayed => n \in delayed' \/ Kept(n),
             \A j \in Instances : HeldByPump(j, n) => HeldByPump(j, n)' \/ Kept(n)
      PROVE  Kept(n)
  <2>1. CASE Carried(n)
    BY <1>2, <1>s, <2>1, CarriedFrame DEF HeldByHandler, HeldByScheduler
  <2> QED BY <1>s, <2>1, EndedStays DEF NoSilentLoss
<1>3. CASE RangeDelayed(i)
  <2>1. PICK S \in SUBSET delayed : RangeDelayed(i)!(S)
    BY <1>3 DEF RangeDelayed
  <2>2. \A j \in Instances : HeldByPump(j, n) => HeldByPump(j, n)'
    <3>1. pump[i].hand = {}
      BY <2>1 DEF IdlePump
    <3> QED BY <1>p, <2>1, <3>1 DEF HeldByPump
  <2> QED BY <1>2, <2>1, <2>2
<1>4. CASE RemovePopped(i)
  <2>1. PICK done \in Outcomes("redis", i) : RemovePopped(i)!(done)
    BY <1>4 DEF RemovePopped
  <2>2. delayed' = delayed \ pump[i].hand \/ delayed' = delayed
    BY <2>1, Zenon
  <2>3. CASE n \in pump[i].hand
    <3>1. HeldByPump(i, n)'
      BY <1>p, <2>1, <2>3 DEF HeldByPump
    <3> QED BY <3>1 DEF Kept, Carried, Held
  <2>4. CASE n \notin pump[i].hand
    <3>1. \A j \in Instances : HeldByPump(j, n) => HeldByPump(j, n)'
      BY <1>p, <2>1, <2>4 DEF HeldByPump
    <3> QED BY <1>2, <2>2, <2>4, <3>1
  <2> QED BY <2>3, <2>4
<1>5. CASE Reenqueue(i)
  <2>1. PICK m \in pump[i].hand, done \in Outcomes("redis", i) : Reenqueue(i)!(m, done)
    BY <1>5 DEF Reenqueue
  <2>2. CASE n = m
    <3>1. CASE done
      BY <1>1, <2>1, <2>2, <3>1, EnqueueKeeps
    <3>2. CASE ~done
      <4>1. End({n}, "dropped")
        BY <2>1, <2>2, <3>2, Zenon
      <4> QED BY <1>1, <4>1, EndKeeps
    <3> QED BY <3>1, <3>2
  <2>3. CASE n # m
    <3>1. \A j \in Instances : HeldByPump(j, n) => HeldByPump(j, n)'
      <4>1. n \in pump[i].hand => pump[i].hand # {m}
        BY <2>3
      <4> QED BY <1>p, <2>1, <2>3, <4>1 DEF HeldByPump
    <3> QED BY <1>2, <2>1, <3>1
  <2> QED BY <2>2, <2>3
<1> QED BY <1>3, <1>4, <1>5 DEF DelayedRetryStep

\* A read takes the first unread entry of every stream and leaves the others.
LEMMA FreshKeeps ==
  ASSUME TypeOK, IndexOK, DeliverFresh, UNCHANGED stream, NEW n \in Notifications, InStream(n)
  PROVE  InStream(n)' \/ \E m \in Fresh : Subject(m) = n
<1>1. PICK p \in Priority : \E k \in DOMAIN stream[p] : lastDelivered[p] < k /\ stream[p][k] = n
  BY DEF InStream
<1>2. PICK k \in DOMAIN stream[p] : lastDelivered[p] < k /\ stream[p][k] = n
  BY <1>1
<1>3. /\ stream[p] \in Seq(Notifications) /\ lastDelivered[p] \in Nat
      /\ lastDelivered \in [Priority -> Nat]
  BY DEF TypeOK, StoresTypeOK
<1>4. k \in 1 .. Len(stream[p])
  BY <1>2, <1>3
<1>5. p \in Undelivered /\ lastDelivered'[p] = lastDelivered[p] + 1
  BY <1>2, <1>3, <1>4 DEF Undelivered, DeliverFresh
<1>6. CASE k = lastDelivered[p] + 1
  <2>1. <<p, k>> \in Fresh
    BY <1>5, <1>6 DEF Fresh
  <2>2. Subject(<<p, k>>) = n
    BY <1>2 DEF Subject
  <2> QED BY <2>1, <2>2
<1>7. CASE k # lastDelivered[p] + 1
  BY <1>2, <1>3, <1>4, <1>5, <1>7 DEF InStream
<1> QED BY <1>6, <1>7

LEMMA ReadKeeps ==
  ASSUME LossInv, NoSilentLoss, [Next]_vars, NEW n \in Notifications, status'[n] # "absent",
         NEW w \in Workers, Read(w) \/ ReadLost(w) \/ ReadNothing(w),
         UNCHANGED <<handler, due, pump>>
  PROVE  Kept(n)
<1> USE DEF storeVars, pgVars, redisVars, groupVars, historyVars
<1>1. TypeOK /\ IndexOK
  BY DEF LossInv
<1>w. worker \in [Workers -> WorkerRecord]
  BY <1>1 DEF TypeOK, DispatcherTypeOK, WorkerRecord
<1>2. UNCHANGED <<status, delayed, stream>>
  BY DEF Read, ReadLost, ReadNothing
<1>3. worker[w].pc = "reading" /\ worker[w].rest = {}
  BY DEF Read, ReadLost, ReadNothing, LossInv, WorkerIdle
<1>4. ~Processing(w, n) /\ ~Waiting(w, n)
  BY <1>3 DEF Processing, Unsettled, Waiting
<1>5. \A v \in Workers : v # w => worker'[v] = worker[v]
  BY <1>1, OtherWorkers DEF WorkerStep
<1>6. ASSUME InStream(n) => UNCHANGED lastDelivered \/ Kept(n)
      PROVE  Kept(n)
  <2>1. CASE Carried(n)
    BY <1>2, <1>4, <1>5, <1>6, <2>1, CarriedFrame
    DEF HeldByHandler, HeldByScheduler, HeldByPump
  <2> QED BY <1>2, <2>1, EndedStays DEF NoSilentLoss
<1>7. CASE Read(w)
  <2>1. PICK m \in Fresh : Take(w, m, Fresh)
    BY <1>7 DEF Read
  <2>2. worker'[w].pc = "limit" /\ worker'[w].msg = m /\ worker'[w].rest = Fresh \ {m}
    BY <1>w, <2>1 DEF Take
  <2>3. ASSUME NEW o \in Fresh, Subject(o) = n
        PROVE  Kept(n)
    <3>1. Subject(o)' = n
      BY <1>2, <2>3 DEF Subject
    <3>2. CASE o = m
      BY <2>2, <3>1, <3>2, ProcessingKeeps DEF Processing, Unsettled, Id, Subject
    <3>3. CASE o # m
      BY <2>2, <3>1, <3>3, ProcessingKeeps DEF Waiting, Subject
    <3> QED BY <3>2, <3>3
  <2>4. InStream(n) => Kept(n)
    BY <1>1, <1>2, <1>7, <2>3, FreshKeeps DEF Read, Kept, Carried
  <2> QED BY <1>6, <2>4
<1>8. CASE ReadLost(w)
  <2>1. End({Subject(m) : m \in Fresh}, "dropped") /\ DeliverFresh
    BY <1>8 DEF ReadLost
  <2>2. (\E m \in Fresh : Subject(m) = n) => Kept(n)
    BY <1>1, <2>1, EndKeeps
  <2>3. InStream(n) => Kept(n)
    BY <1>1, <1>2, <2>1, <2>2, FreshKeeps DEF Kept, Carried
  <2> QED BY <1>6, <2>3
<1>9. CASE ReadNothing(w)
  BY <1>6, <1>9 DEF ReadNothing
<1> QED BY <1>7, <1>8, <1>9

\* A call of processMessage that keeps the subject of the message keeps all.
LEMMA MessageKeeps ==
  ASSUME LossInv, NoSilentLoss, [Next]_vars, NEW n \in Notifications, status'[n] # "absent",
         NEW w \in Workers, ProcessMessage(w), UNCHANGED <<handler, due, pump>>,
         n = Id(w) => Kept(n),
         n # Id(w) => status'[n] = status[n] /\ (n \in delayed => n \in delayed'),
         Waiting(w, n) => worker[w].rest \subseteq worker'[w].rest \/ Kept(n)
  PROVE  Kept(n)
<1>1. TypeOK /\ UNCHANGED lastDelivered
  BY ProcessMessageFrame DEF LossInv
<1>2. \A v \in Workers : v # w => worker'[v] = worker[v]
  BY <1>1, OtherWorkers DEF WorkerStep
<1>3. Processing(w, n) => n = Id(w)
  BY DEF Processing
<1>4. CASE n # Id(w) /\ Carried(n)
  BY <1>1, <1>2, <1>3, <1>4, CarriedFrame DEF HeldByHandler, HeldByScheduler, HeldByPump
<1> QED BY <1>4, EndedStays DEF NoSilentLoss

\* The messages of the same read wait their turn.
LEMMA AdvanceKeeps ==
  ASSUME TypeOK, IndexOK, Grown, NEW n \in Notifications, NEW w \in Workers, Advance(w),
         Waiting(w, n)
  PROVE  Kept(n)
<1>w. worker \in [Workers -> WorkerRecord]
  BY DEF TypeOK, DispatcherTypeOK, WorkerRecord
<1>1. PICK o \in worker[w].rest : Subject(o) = n
  BY DEF Waiting
<1>2. PICK m \in worker[w].rest : Take(w, m, worker[w].rest)
  BY <1>1 DEF Advance
<1>3. worker'[w].pc = "limit" /\ worker'[w].msg = m /\ worker'[w].rest = worker[w].rest \ {m}
  BY <1>w, <1>2 DEF Take
<1>4. Subject(o)' = n
  BY <1>1, SubjectStable DEF IndexOK, Subject
<1>5. CASE o = m
  BY <1>3, <1>4, <1>5, ProcessingKeeps DEF Processing, Unsettled, Id, Subject
<1>6. CASE o # m
  BY <1>1, <1>3, <1>4, <1>6, ProcessingKeeps DEF Waiting, Subject
<1> QED BY <1>5, <1>6

LEMMA ProcessMessageKeeps ==
  ASSUME LossInv, FinalStatusIsTrue, NoSilentLoss, [Next]_vars, NEW n \in Notifications,
         status'[n] # "absent", NEW w \in Workers, ProcessMessage(w),
         UNCHANGED <<handler, due, pump>>
  PROVE  Kept(n)
<1> USE DEF storeVars, pgVars, redisVars, groupVars, historyVars
<1>1. /\ TypeOK /\ IndexOK /\ Grown /\ Active(w) /\ WorkerOutcome(w)
      /\ UNCHANGED lastDelivered
  BY NextGrows, ProcessMessageFrame DEF LossInv
<1>w. worker \in [Workers -> WorkerRecord]
  BY <1>1 DEF TypeOK, DispatcherTypeOK, WorkerRecord
<1>i. Id(w) \in Notifications
  BY <1>1, IdType
\* The worker moves on and still answers for its message, ...
<1>2. ASSUME NEW pc, Goto(w, pc), n = Id(w),
             \/ pc \in {"limit", "fetch", "claim", "noprov", "send"}
             \/ /\ pc \in {"count", "record", "requeue", "delay", "fail", "bury"}
                /\ ~worker[w].ok
      PROVE  Kept(n)
  <2>1. /\ worker'[w].pc = pc /\ worker'[w].msg = worker[w].msg
        /\ worker'[w].ok = worker[w].ok
    BY <1>1, <1>2, GotoPC
  <2>2. Id(w)' = n
    BY <1>1, <1>2, <2>1, IdStable
  <2> QED BY <1>2, <2>1, <2>2, ProcessingKeeps DEF Processing, Unsettled
\* ... or the provider has accepted the notification.
<1>3. ASSUME "accepted" \in ends[Id(w)], n = Id(w)
      PROVE  Kept(n)
  BY <1>3, EndedStays DEF Ended
<1>4. ASSUME NEW pc, Goto(w, pc)
      PROVE  worker[w].rest \subseteq worker'[w].rest
  BY <1>1, <1>4, GotoPC
<1>5. ASSUME UNCHANGED <<status, delayed>>, ~Processing(w, n) \/ Kept(n),
             Waiting(w, n) => worker[w].rest \subseteq worker'[w].rest \/ Kept(n)
      PROVE  Kept(n)
  <2>1. \A v \in Workers : v # w => worker'[v] = worker[v]
    BY <1>1, OtherWorkers DEF WorkerStep
  <2>2. CASE Carried(n)
    BY <1>1, <1>5, <2>1, <2>2, CarriedFrame DEF HeldByHandler, HeldByScheduler, HeldByPump
  <2> QED BY <1>5, <2>2, EndedStays DEF NoSilentLoss
<1>6. CASE Limit(w)
  BY <1>2, <1>4, <1>6, MessageKeeps DEF Limit
<1>7. CASE LimitAborted(w)
  <2>1. n = Id(w) => Kept(n)
    BY <1>1, <1>7, EndKeeps DEF LimitAborted
  <2>2. Waiting(w, n) => Kept(n)
    BY <1>1, <1>7, AdvanceKeeps DEF LimitAborted
  <2> QED BY <1>7, <2>1, <2>2, MessageKeeps DEF LimitAborted
<1>8. CASE Fetch(w)
  <2>1. UNCHANGED <<status, delayed>> /\ worker[w].pc = "fetch"
    BY <1>8 DEF Fetch
  <2>2. CASE status[Id(w)] \in SkippedStatus
    <3>1. Goto(w, "ack")
      BY <1>8, <2>2 DEF Fetch
    <3>2. ASSUME n = Id(w)
          PROVE  Kept(n)
      <4>1. CASE Ended(n)
        BY <4>1, EndedStays
      <4>2. CASE ~Ended(n)
        <5>1. PICK v \in Workers : worker[v].pc = "bury" /\ Id(v) = n
          BY <2>2, <3>2, <4>2 DEF FinalStatusIsTrue, StatusIsTrue, SkippedStatus, Ended
        <5>2. worker'[v] = worker[v] /\ ~worker[v].ok /\ Active(v)
          BY <1>1, <2>1, <5>1, OtherWorkers DEF WorkerStep, LossInv, WorkerOutcome, Active
        <5>3. Id(v)' = n
          BY <1>1, <5>1, <5>2, IdStable
        <5> QED BY <5>1, <5>2, <5>3, ProcessingKeeps DEF Processing, Unsettled
      <4> QED BY <4>1, <4>2
    <3> QED BY <1>4, <2>1, <3>1, <3>2, MessageKeeps
  <2>3. CASE status[Id(w)] \notin SkippedStatus
    <3>1. /\ worker'[w].pc = "claim" /\ worker'[w].msg = worker[w].msg
          /\ worker'[w].rest = worker[w].rest
      BY <1>8, <2>3, <1>w DEF Fetch, WorkerRecord
    <3>2. Id(w)' = Id(w)
      BY <1>1, <3>1, IdStable
    <3>3. n = Id(w) => Kept(n)
      BY <3>1, <3>2, ProcessingKeeps DEF Processing, Unsettled
    <3> QED BY <2>1, <3>1, <3>3, MessageKeeps
  <2> QED BY <2>2, <2>3
<1>9. CASE FetchFailed(w)
  <2>1. n = Id(w) => Kept(n)
    BY <1>1, <1>9, EndKeeps DEF FetchFailed
  <2> QED BY <1>4, <1>9, <2>1, MessageKeeps DEF FetchFailed
<1>10. CASE Claim(w)
  <2>1. PICK pc \in {"send", "noprov"} : Goto(w, pc)
    BY <1>10 DEF Claim
  <2>2. n # Id(w) => status'[n] = status[n]
    BY <1>1, <1>10, UpdateStatusCases DEF Claim
  <2>3. UNCHANGED delayed
    BY <1>10 DEF Claim
  <2> QED BY <1>2, <1>4, <2>1, <2>2, <2>3, MessageKeeps
<1>11. CASE NoProvider(w)
  <2>1. n = Id(w) => Kept(n)
    BY <1>1, <1>11, EndKeeps DEF NoProvider
  <2>2. n # Id(w) => status'[n] = status[n]
    BY <1>1, <1>11, UpdateStatusCases DEF NoProvider
  <2> QED BY <1>4, <1>11, <2>1, <2>2, MessageKeeps DEF NoProvider
<1>12. CASE Send(w)
  <2>1. PICK ok \in BOOLEAN : Send(w)!(ok)
    BY <1>12 DEF Send
  <2>2. /\ worker'[w].pc = "count" /\ worker'[w].ok = ok
        /\ worker'[w].msg = worker[w].msg /\ worker'[w].rest = worker[w].rest
    BY <2>1, <1>w DEF WorkerRecord
  <2>3. Id(w)' = Id(w)
    BY <1>1, <2>2, IdStable
  <2>4. CASE ok
    <3>1. End({Id(w)}, "accepted")
      BY <2>1, <2>4, Zenon
    <3>2. n = Id(w) => Kept(n)
      BY <1>1, <3>1, EndKeeps
    <3> QED BY <2>1, <2>2, <3>2, MessageKeeps
  <2>5. CASE ~ok
    <3>1. n = Id(w) => Kept(n)
      BY <2>2, <2>3, <2>5, ProcessingKeeps DEF Processing, Unsettled
    <3> QED BY <2>1, <2>2, <3>1, MessageKeeps
  <2> QED BY <2>4, <2>5
<1>13. CASE CountAttempt(w)
  <2>1. Goto(w, "record") /\ worker[w].pc = "count" /\ UNCHANGED <<status, delayed>>
    BY <1>13 DEF CountAttempt
  <2>2. n = Id(w) => Kept(n)
    BY <1>1, <1>2, <1>3, <2>1 DEF WorkerOutcome
  <2> QED BY <1>4, <2>1, <2>2, MessageKeeps
<1>14. CASE RecordAttempt(w)
  <2>1. /\ worker[w].pc = "record"
        /\ \/ worker[w].ok /\ Goto(w, "deliver")
           \/ ~worker[w].ok /\ (Goto(w, "requeue") \/ Goto(w, "fail"))
    BY <1>14, Zenon DEF RecordAttempt, Goto
  <2>2. UNCHANGED <<status, delayed>>
    BY <1>14 DEF RecordAttempt
  <2>3. n = Id(w) => Kept(n)
    BY <1>1, <1>2, <1>3, <2>1 DEF WorkerOutcome
  <2> QED BY <1>4, <2>1, <2>2, <2>3, MessageKeeps
<1>15. CASE SetDelivered(w) \/ SetQueued(w) \/ SetFailed(w)
  <2>1. \/ worker[w].pc = "deliver" /\ Goto(w, "ack")
        \/ worker[w].pc = "requeue" /\ Goto(w, "delay")
        \/ worker[w].pc = "fail" /\ Goto(w, "bury")
    BY <1>15 DEF SetDelivered, SetQueued, SetFailed, SetOutcome
  <2>2. n = Id(w) => Kept(n)
    BY <1>1, <1>2, <1>3, <2>1 DEF WorkerOutcome
  <2>3. n # Id(w) => status'[n] = status[n]
    BY <1>1, <1>15, UpdateStatusCases DEF SetDelivered, SetQueued, SetFailed, SetOutcome
  <2>4. UNCHANGED delayed
    BY <1>15 DEF SetDelivered, SetQueued, SetFailed, SetOutcome
  <2> QED BY <1>4, <2>1, <2>2, <2>3, <2>4, MessageKeeps
<1>16. CASE ScheduleRetry(w)
  <2>1. /\ Goto(w, "ack") /\ UNCHANGED status
        /\ \/ delayed' = delayed \cup {Id(w)}
           \/ delayed' = delayed /\ End({Id(w)}, "dropped")
    BY <1>16, Zenon DEF ScheduleRetry, EnqueueDelayed
  <2>2. n = Id(w) => Kept(n)
    BY <1>1, <2>1, EndKeeps DEF Kept, Carried
  <2> QED BY <1>4, <2>1, <2>2, MessageKeeps
<1>17. CASE Bury(w)
  <2>1. /\ Goto(w, "ack") /\ UNCHANGED <<status, delayed>>
        /\ \/ dlq' = [dlq EXCEPT ![Id(w)] = @ + 1]
           \/ End({Id(w)}, "unburied")
    BY <1>17, Zenon DEF Bury, Push
  <2>2. dlq \in [Notifications -> Nat]
    BY <1>1 DEF TypeOK, StoresTypeOK
  <2>3. n = Id(w) => Kept(n)
    BY <1>1, <2>1, <2>2, EndKeeps DEF Kept, Ended
  <2> QED BY <1>4, <2>1, <2>3, MessageKeeps
<1>18. CASE Acknowledge(w)
  <2>1. Waiting(w, n) => Kept(n)
    BY <1>1, <1>18, AdvanceKeeps DEF Acknowledge
  <2>2. ~Processing(w, n)
    BY <1>18 DEF Acknowledge, Processing, Unsettled
  <2> QED BY <1>5, <1>18, <2>1, <2>2 DEF Acknowledge
<1> QED
  BY <1>6, <1>7, <1>8, <1>9, <1>10, <1>11, <1>12, <1>13, <1>14, <1>15, <1>16, <1>17, <1>18
  DEF ProcessMessage

LEMMA LifeKeeps ==
  ASSUME LossInv, NoSilentLoss, [Next]_vars, NEW n \in Notifications, status'[n] # "absent",
         NEW i \in Instances, Stop(i) \/ Crash(i) \/ Exit(i) \/ Start(i)
  PROVE  Kept(n)
<1> USE DEF storeVars, pgVars, redisVars, groupVars, historyVars
<1>1. TypeOK /\ UNCHANGED <<status, lastDelivered, delayed>>
  BY DEF LossInv, Stop, Crash, Exit, Halt, Start
<1>2. CASE Ended(n)
  BY <1>2, EndedStays
<1>3. CASE Stop(i) /\ Carried(n)
  BY <1>1, <1>3, CarriedFrame DEF Stop, HeldByHandler, HeldByScheduler, HeldByPump
<1>4. CASE Halt(i) /\ Carried(n)
  <2>1. CASE Held(i, n)
    <3>1. "dropped" \in Loss(i, n)
      BY <2>1 DEF Loss
    <3> QED BY <1>4, <3>1 DEF Halt, Kept, Ended
  <2>2. CASE ~Held(i, n)
    <3>1. \A h \in Handlers : HeldByHandler(h, n) => HeldByHandler(h, n)'
      BY <1>4, <2>2 DEF Halt, Held, HeldByHandler
    <3>2. \A j \in Instances : HeldByScheduler(j, n) => HeldByScheduler(j, n)'
      BY <1>1, <1>4, <2>2 DEF Halt, Held, HeldByScheduler, TypeOK, SchedulerTypeOK
    <3>3. \A j \in Instances : HeldByPump(j, n) => HeldByPump(j, n)'
      BY <1>1, <1>4, <2>2 DEF Halt, Held, HeldByPump, TypeOK, DelayedRetryTypeOK
    <3>4. \A w \in Workers : Processing(w, n) \/ Waiting(w, n) => worker'[w] = worker[w]
      BY <1>4, <2>2 DEF Halt, Held
    <3> QED BY <1>1, <1>4, <3>1, <3>2, <3>3, <3>4, CarriedFrame
  <2> QED BY <2>1, <2>2
<1>5. CASE Start(i) /\ Carried(n)
  <2>1. ASSUME NEW w \in Workers, Processing(w, n) \/ Waiting(w, n)
        PROVE  worker'[w] = worker[w]
    <3>1. worker[w].pc # "stopped"
      BY <2>1 DEF LossInv, WorkerIdle, Processing, Unsettled, Waiting
    <3>2. WorkerHost[w] # i
      BY <1>5, <3>1 DEF Start, LossInv, WorkerIdle, Context
    <3> QED BY <1>5, <3>2 DEF Start
  <2> QED
    BY <1>1, <1>5, <2>1, CarriedFrame DEF Start, HeldByHandler, HeldByScheduler, HeldByPump
<1> QED BY <1>1, <1>2, <1>3, <1>4, <1>5 DEF NoSilentLoss, Crash, Exit

LEMMA LossStep ==
  ASSUME LossInv, FinalStatusIsTrue, NoSilentLoss, [Next]_vars
  PROVE  NoSilentLoss'
<1>1. ASSUME NEW n \in Notifications, status'[n] # "absent"
      PROVE  Kept(n)
  <2>1. CASE UNCHANGED vars
    <3>1. UNCHANGED <<status, lastDelivered, delayed, handler, due, pump, worker>>
      BY <2>1 DEF vars, storeVars, pgVars, redisVars, groupVars
    <3>2. CASE Carried(n)
      BY <3>1, <3>2, CarriedFrame DEF HeldByHandler, HeldByScheduler, HeldByPump
    <3> QED BY <1>1, <3>1, <3>2, EndedStays DEF NoSilentLoss
  <2> QED
    BY <1>1, <2>1, HandlerKeeps, CancelKeeps, SchedulerKeeps, DelayedRetryKeeps, ReadKeeps,
       ProcessMessageKeeps, LifeKeeps DEF Next, WorkerStep
<1> QED BY <1>1 DEF NoSilentLoss, Kept

\* No notification disappears between its INSERT and one of its ends: with any
\* number of processes, workers and requests, under every fault, something
\* still carries it unless one of the recorded losses has happened to it.
THEOREM NothingIsLostSilently == Spec => []NoSilentLoss
<1>1. LossInv /\ FinalStatusIsTrue /\ NoSilentLoss /\ [Next]_vars
        => LossInv' /\ FinalStatusIsTrue' /\ NoSilentLoss'
  BY LossInvNext, TrueStep, LossStep DEF FinalStatusIsTrue
<1> QED BY <1>1, LossInit, PTL DEF Spec

=============================================================================
