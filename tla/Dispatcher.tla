----------------------------- MODULE Dispatcher -----------------------------
(***************************************************************************)
(* The worker goroutines: Work reads messages and processMessage takes one *)
(* through the rate limiter, the status check, the provider and the        *)
(* bookkeeping.  Every store call is a step of its own, so other           *)
(* goroutines, requests and failures come between any two of them.         *)
(*                                                                         *)
(* pc           next call of processMessage                                *)
(*   "reading"    XREADGROUP (or the top of the loop)                      *)
(*   "limit"      limiter.Allow                                            *)
(*   "fetch"      repo.GetByID and the status check                        *)
(*   "claim"      UpdateStatus processing, provider lookup                 *)
(*   "noprov"     UpdateStatus failed, no provider for the channel         *)
(*   "send"       provider.Send                                            *)
(*   "count"      IncrementAttempt                                         *)
(*   "record"     CreateDeliveryAttempt                                    *)
(*   "deliver"    UpdateStatus delivered                                   *)
(*   "requeue"    UpdateStatus queued,  then "delay": EnqueueDelayed       *)
(*   "fail"       UpdateStatus failed,  then "bury":  dlq.Push             *)
(*   "ack"        consumer.Ack                                             *)
(*   "stopped"    Work has returned                                        *)
(*                                                                         *)
(* WebSocket broadcasts and metrics change nothing here and are left out.  *)
(***************************************************************************)
EXTENDS Stores

CONSTANTS
  Workers,     \* worker goroutines
  WorkerHost   \* the process each runs in

ASSUME DispatcherAssumption == WorkerHost \in [Workers -> Instances]

VARIABLE
  worker  \* msg: the message in processMessage; rest: the others of the
          \* same read; seen: n.AttemptCount as fetched; ok: result.Error = nil

PC == {"reading", "limit", "fetch", "claim", "noprov", "send", "count", "record",
       "deliver", "requeue", "delay", "fail", "bury", "ack", "stopped"}

NewWorker == [pc |-> "reading", msg |-> NoMessage, rest |-> {}, seen |-> 0, ok |-> FALSE]

DispatcherTypeOK ==
  worker \in [Workers -> [pc : PC, msg : Messages \cup {NoMessage},
                          rest : SUBSET Messages, seen : Nat, ok : BOOLEAN]]

DispatcherInit == worker = [w \in Workers |-> NewWorker]

Id(w) == Subject(worker[w].msg)
Context(w) == ctx[WorkerHost[w]]
Calls(store, w) == Outcomes(store, WorkerHost[w])
Goto(w, pc) == worker' = [worker EXCEPT ![w].pc = pc]

\* Start on message m of the read that returned S.
Take(w, m, S) ==
  worker' = [worker EXCEPT ![w] = [pc |-> "limit", msg |-> m, rest |-> S \ {m},
                                   seen |-> 0, ok |-> FALSE]]

\* processMessage returns: the next message of this read, or the loop's top,
\* which looks at the context.
Advance(w) ==
  \/ \E m \in worker[w].rest : FirstOf(m, worker[w].rest) /\ Take(w, m, worker[w].rest)
  \/ /\ worker[w].rest = {}
     /\ worker' = [worker EXCEPT ![w] = [NewWorker EXCEPT
           !.pc = IF Context(w) = "running" THEN "reading" ELSE "stopped"]]

-----------------------------------------------------------------------------
\* Work

\* A read already under way when the context is cancelled still completes.
Read(w) ==
  /\ worker[w].pc = "reading" /\ Fresh # {}
  /\ DeliverFresh
  /\ \E m \in Fresh : FirstOf(m, Fresh) /\ Take(w, m, Fresh)
  /\ UNCHANGED <<pgVars, stream, delayed, dlq, ctx, historyVars>>

\* The group has handed the entries over and the reply does not arrive.
ReadLost(w) ==
  /\ worker[w].pc = "reading" /\ Fresh # {} /\ "redis" \in Faults
  /\ DeliverFresh
  /\ End({Subject(m) : m \in Fresh}, "dropped")
  /\ UNCHANGED <<pgVars, stream, delayed, dlq, ctx, sends, worker>>

\* The block timeout passes with no new entry, or the context is cancelled
\* before the read is sent.
ReadNothing(w) ==
  /\ worker[w].pc = "reading"
  /\ IF Context(w) = "running" THEN Fresh = {} /\ UNCHANGED worker
                               ELSE Goto(w, "stopped")
  /\ UNCHANGED storeVars

-----------------------------------------------------------------------------
\* processMessage

\* Allowed, or the limiter failed: both leave the loop.  While it refuses,
\* nothing changes.
Limit(w) ==
  /\ worker[w].pc = "limit"
  /\ Goto(w, "fetch")
  /\ UNCHANGED storeVars

\* Refused, and the context is cancelled during the pause: no ack.
LimitAborted(w) ==
  /\ worker[w].pc = "limit" /\ Context(w) # "running"
  /\ Advance(w)
  /\ End({Id(w)}, "dropped")
  /\ UNCHANGED <<pgVars, redisVars, ctx, sends>>

\* A slip for FinalStatusSticks: the check forgets cancelled notifications.
FetchCancelledToo(w) ==
  /\ worker[w].pc = "fetch"
  /\ TRUE \in Calls("pg", w)
  /\ IF status[Id(w)] \in SkippedStatus \ {"cancelled"}
     THEN Goto(w, "ack")
     ELSE worker' = [worker EXCEPT ![w].pc = "claim", ![w].seen = attemptCount[Id(w)]]
  /\ UNCHANGED storeVars

\* A slip for QueuesDrain: a skipped message is not acknowledged.
FetchSkipsAck(w) ==
  /\ worker[w].pc = "fetch"
  /\ TRUE \in Calls("pg", w)
  /\ IF status[Id(w)] \in SkippedStatus
     THEN Advance(w)
     ELSE worker' = [worker EXCEPT ![w].pc = "claim", ![w].seen = attemptCount[Id(w)]]
  /\ UNCHANGED storeVars

Fetch(w) ==
  /\ worker[w].pc = "fetch"
  /\ TRUE \in Calls("pg", w)
  /\ IF status[Id(w)] \in SkippedStatus
     THEN Goto(w, "ack")
     ELSE worker' = [worker EXCEPT ![w].pc = "claim", ![w].seen = attemptCount[Id(w)]]
  /\ UNCHANGED storeVars

\* Any error of GetByID acknowledges the message.
FetchFailed(w) ==
  /\ worker[w].pc = "fetch"
  /\ FALSE \in Calls("pg", w)
  /\ Goto(w, "ack")
  /\ End({Id(w)}, "dropped")
  /\ UNCHANGED <<pgVars, redisVars, ctx, sends>>

Claim(w) ==
  \E done \in Calls("pg", w) :
    /\ worker[w].pc = "claim"
    /\ UpdateStatus(Id(w), "processing", done)
    /\ Goto(w, IF Id(w) \in Routable THEN "send" ELSE "noprov")
    /\ UNCHANGED <<attemptCount, attempts, redisVars, ctx, historyVars>>

NoProvider(w) ==
  \E done \in Calls("pg", w) :
    /\ worker[w].pc = "noprov"
    /\ UpdateStatus(Id(w), "failed", done)
    /\ Goto(w, "ack")
    /\ End({Id(w)}, "unroutable")
    /\ UNCHANGED <<attemptCount, attempts, redisVars, ctx, sends>>

\* A request made under a cancelled context fails.
Send(w) ==
  \E ok \in BOOLEAN :
    /\ worker[w].pc = "send"
    /\ ok => Context(w) = "running"
    /\ worker' = [worker EXCEPT ![w].pc = "count", ![w].ok = ok]
    /\ sends' = [sends EXCEPT ![Id(w)] = @ + 1]
    /\ End(IF ok THEN {Id(w)} ELSE {}, "accepted")
    /\ UNCHANGED <<pgVars, redisVars, ctx>>

CountAttempt(w) ==
  \E done \in Calls("pg", w) :
    /\ worker[w].pc = "count"
    /\ IncrementAttempt(Id(w), done)
    /\ Goto(w, "record")
    /\ UNCHANGED <<status, attempts, redisVars, ctx, historyVars>>

\* A slip for AttemptsAreNumbered: the number is the stored count, not the next.
RecordStoredCount(w) ==
  \E done \in Calls("pg", w) :
    /\ worker[w].pc = "record"
    /\ CreateDeliveryAttempt(Id(w), worker[w].seen, done)
    /\ Goto(w, IF worker[w].ok THEN "deliver"
               ELSE IF ShouldRetry(worker[w].seen + 1, MaxRetriesOf[Id(w)])
                    THEN "requeue" ELSE "fail")
    /\ UNCHANGED <<status, attemptCount, redisVars, ctx, historyVars>>

\* A slip for FinalStatusIsTrue: the result of the attempt is not looked at.
RecordAsDelivered(w) ==
  \E done \in Calls("pg", w) :
    /\ worker[w].pc = "record"
    /\ CreateDeliveryAttempt(Id(w), worker[w].seen + 1, done)
    /\ Goto(w, "deliver")
    /\ UNCHANGED <<status, attemptCount, redisVars, ctx, historyVars>>

RecordAttempt(w) ==
  \E done \in Calls("pg", w) :
    /\ worker[w].pc = "record"
    /\ CreateDeliveryAttempt(Id(w), worker[w].seen + 1, done)
    /\ Goto(w, IF worker[w].ok THEN "deliver"
               ELSE IF ShouldRetry(worker[w].seen + 1, MaxRetriesOf[Id(w)])
                    THEN "requeue" ELSE "fail")
    /\ UNCHANGED <<status, attemptCount, redisVars, ctx, historyVars>>

\* The status written after an attempt: success, retry, or retries exhausted.
SetOutcome(w, pc, s, next) ==
  \E done \in Calls("pg", w) :
    /\ worker[w].pc = pc
    /\ UpdateStatus(Id(w), s, done)
    /\ Goto(w, next)
    /\ UNCHANGED <<attemptCount, attempts, redisVars, ctx, historyVars>>

SetDelivered(w) == SetOutcome(w, "deliver", "delivered", "ack")

\* Slips: a status that is not in the enumeration, and a retry not scheduled.
SetRetrying(w) == SetOutcome(w, "requeue", "retrying", "delay")
SetQueuedOnly(w) == SetOutcome(w, "requeue", "queued", "ack")

SetQueued(w) == SetOutcome(w, "requeue", "queued", "delay")
SetFailed(w) == SetOutcome(w, "fail", "failed", "bury")

ScheduleRetry(w) ==
  \E done \in Calls("redis", w) :
    /\ worker[w].pc = "delay"
    /\ EnqueueDelayed(Id(w), done)
    /\ Goto(w, "ack")
    /\ End(IF done THEN {} ELSE {Id(w)}, "dropped")
    /\ UNCHANGED <<pgVars, stream, groupVars, dlq, ctx, sends>>

Bury(w) ==
  \E done \in Calls("redis", w) :
    /\ worker[w].pc = "bury"
    /\ Push(Id(w), done)
    /\ Goto(w, "ack")
    /\ End(IF done THEN {} ELSE {Id(w)}, "unburied")
    /\ UNCHANGED <<pgVars, stream, groupVars, delayed, ctx, sends>>

Acknowledge(w) ==
  \E done \in Calls("redis", w) :
    /\ worker[w].pc = "ack"
    /\ Ack(worker[w].msg, done)
    /\ Advance(w)
    /\ UNCHANGED <<pgVars, stream, lastDelivered, delayed, dlq, ctx, historyVars>>

ProcessMessage(w) ==
  \/ Limit(w) \/ LimitAborted(w) \/ Fetch(w) \/ FetchFailed(w)
  \/ Claim(w) \/ NoProvider(w) \/ Send(w) \/ CountAttempt(w) \/ RecordAttempt(w)
  \/ SetDelivered(w) \/ SetQueued(w) \/ SetFailed(w)
  \/ ScheduleRetry(w) \/ Bury(w) \/ Acknowledge(w)

WorkerStep(w) == Read(w) \/ ReadLost(w) \/ ReadNothing(w) \/ ProcessMessage(w)

=============================================================================
