------------------------------ MODULE Notifier ------------------------------
(***************************************************************************)
(* The whole service: request handlers, scheduler, delayed-retry pump and  *)
(* worker pool of every process, over one Postgres and one Redis, with the *)
(* life of the processes themselves (package main) and the properties of   *)
(* the composition.                                                        *)
(***************************************************************************)
EXTENDS NotificationService, Scheduler, DelayedRetry, Dispatcher

vars == <<storeVars, handler, due, pump, worker>>

Init ==
  /\ StoresInit /\ ServiceInit /\ SchedulerInit /\ DelayedRetryInit /\ DispatcherInit

TypeOK ==
  /\ StoresTypeOK /\ ServiceTypeOK /\ SchedulerTypeOK
  /\ DelayedRetryTypeOK /\ DispatcherTypeOK

-----------------------------------------------------------------------------
(***************************************************************************)
(* Who holds what.  A worker answers for the message it is processing until *)
(* it has settled or handed on the notification, and for the rest of its   *)
(* read; a pump for what it has removed from the sorted set.               *)
(***************************************************************************)
Unsettled(w) ==
  \/ worker[w].pc \in {"limit", "fetch", "claim", "noprov", "send"}
  \/ /\ worker[w].pc \in {"count", "record", "requeue", "delay", "fail", "bury"}
     /\ ~worker[w].ok

HeldByHandler(h, n) == n \in handler[h].job
HeldByScheduler(i, n) == n \in due[i]
HeldByPump(i, n) == pump[i].popped /\ n \in pump[i].hand
Processing(w, n) == Unsettled(w) /\ Id(w) = n
Waiting(w, n) == \E m \in worker[w].rest : Subject(m) = n

Held(i, n) ==
  \/ \E h \in Handlers : HandlerHost[h] = i /\ HeldByHandler(h, n)
  \/ HeldByScheduler(i, n) \/ HeldByPump(i, n)
  \/ \E w \in Workers : WorkerHost[w] = i /\ (Processing(w, n) \/ Waiting(w, n))

InStream(n) ==
  \E p \in Priority : \E k \in DOMAIN stream[p] :
    lastDelivered[p] < k /\ stream[p][k] = n

Carried(n) ==
  \/ status[n] = "scheduled" \/ InStream(n) \/ n \in delayed
  \/ \E i \in Instances : Held(i, n)

-----------------------------------------------------------------------------
\* The life of a process

\* SIGTERM: NotifyContext cancels the context of workers, scheduler and pump.
Stop(i) ==
  /\ "shutdown" \in Faults /\ ctx[i] = "running"
  /\ ctx' = [ctx EXCEPT ![i] = "stopping"]
  /\ UNCHANGED <<pgVars, redisVars, historyVars, handler, due, pump, worker>>

\* What the end of process i is for n.
Loss(i, n) ==
  {how \in {"dropped"} : Held(i, n)}
  \cup {how \in {"unburied"} : \E w \in Workers :
          WorkerHost[w] = i /\ worker[w].pc = "bury" /\ Id(w) = n}

\* Everything a process holds in memory is forgotten.
Halt(i) ==
  /\ ctx' = [ctx EXCEPT ![i] = "down"]
  /\ ends' = [n \in Notifications |-> ends[n] \cup Loss(i, n)]
  /\ handler' = [h \in Handlers |-> IF HandlerHost[h] = i THEN IdleHandler ELSE handler[h]]
  /\ due' = [due EXCEPT ![i] = {}]
  /\ pump' = [pump EXCEPT ![i] = IdlePump]
  /\ worker' = [w \in Workers |-> IF WorkerHost[w] = i
                                  THEN [NewWorker EXCEPT !.pc = "stopped"]
                                  ELSE worker[w]]
  /\ UNCHANGED <<pgVars, redisVars, sends>>

Crash(i) == "crash" \in Faults /\ ctx[i] # "down" /\ Halt(i)

\* run returns once the pool has drained: it waits 15 seconds at most for the
\* requests under way and not at all for the scheduler and the pump.
Exit(i) ==
  /\ ctx[i] = "stopping"
  /\ \A w \in Workers : WorkerHost[w] = i => worker[w].pc = "stopped"
  /\ Halt(i)

\* EnsureGroups finds the consumer groups and leaves them as they are.
Start(i) ==
  /\ ctx[i] = "down"
  /\ ctx' = [ctx EXCEPT ![i] = "running"]
  /\ worker' = [w \in Workers |-> IF WorkerHost[w] = i THEN NewWorker ELSE worker[w]]
  /\ UNCHANGED <<pgVars, redisVars, historyVars, handler, due, pump>>

Next ==
  \/ \E h \in Handlers : HandlerStep(h) /\ UNCHANGED <<due, pump, worker>>
  \/ \E n \in Notifications : Cancel(n) /\ UNCHANGED <<due, pump, worker>>
  \/ \E i \in Instances : SchedulerStep(i) /\ UNCHANGED <<handler, pump, worker>>
  \/ \E i \in Instances : DelayedRetryStep(i) /\ UNCHANGED <<handler, due, worker>>
  \/ \E w \in Workers : WorkerStep(w) /\ UNCHANGED <<handler, due, pump>>
  \/ \E i \in Instances : Stop(i) \/ Crash(i) \/ Exit(i) \/ Start(i)

Spec == Init /\ [][Next]_vars

(***************************************************************************)
(* Goroutines keep running and tickers keep ticking.  Nobody promises that *)
(* a request arrives, that a process stops or crashes, or that a fault     *)
(* happens.  WF of Limit says that the sliding window does not refuse a    *)
(* worker for ever.                                                        *)
(***************************************************************************)
Fairness ==
  /\ \A h \in Handlers :
       WF_vars((EnqueueNext(h) \/ MarkQueued(h)) /\ UNCHANGED <<due, pump, worker>>)
  /\ \A i \in Instances :
       /\ WF_vars(SchedulerStep(i) /\ UNCHANGED <<handler, pump, worker>>)
       /\ WF_vars(DelayedRetryStep(i) /\ UNCHANGED <<handler, due, worker>>)
       /\ WF_vars(Exit(i)) /\ WF_vars(Start(i))
  /\ \A w \in Workers :
       WF_vars((Read(w) \/ ReadNothing(w) \/ ProcessMessage(w))
                 /\ UNCHANGED <<handler, due, pump>>)

FairSpec == Spec /\ Fairness

-----------------------------------------------------------------------------
\* Safety

Ended(n) == ends[n] # {} \/ dlq[n] > 0

\* No notification disappears.  From its INSERT on, it is waiting somewhere
\* (a scheduled row, an unread stream entry, the sorted set, the memory of a
\* live goroutine), or it has reached an end: the provider took it, it is in
\* the dead letter queue, it was cancelled, no provider serves its channel, or
\* one of the faults the code does not recover from made its holder forget it.
NoSilentLoss == \A n \in Notifications : status[n] # "absent" => Ended(n) \/ Carried(n)

StatusIsTrue(n) ==
  /\ status[n] = "delivered" => "accepted" \in ends[n]
  /\ status[n] = "cancelled" => "withdrawn" \in ends[n]
  /\ status[n] = "failed" =>
       \/ dlq[n] > 0 \/ ends[n] \cap {"unroutable", "unburied"} # {}
       \/ \E w \in Workers : worker[w].pc = "bury" /\ Id(w) = n

\* A status the dispatcher treats as final is true of the notification: what
\* reads 'delivered' was accepted by the provider, what reads 'cancelled' was
\* cancelled, and what reads 'failed' is in the dead letter queue, on its way
\* there, had no provider, or has no dead letter because that push failed or its
\* process died before it.  No other loss leaves a row 'failed'.
FinalStatusIsTrue == \A n \in Notifications : StatusIsTrue(n)

\* Some goroutine has read the row before its status became final, or will
\* write it without reading it.
Committed(n) ==
  \/ \E h \in Handlers : n \in handler[h].job \cup handler[h].mark
  \/ \E w \in Workers :
       /\ worker[w].pc \in PC \ {"reading", "limit", "fetch", "ack", "stopped"}
       /\ Id(w) = n

Finished(n) == status[n] \in SkippedStatus /\ ~Committed(n)

\* A final status that no goroutine has overtaken is final for ever: a
\* cancelled, delivered or failed notification keeps its status and is not
\* sent again, whatever messages for it are still in the streams, the sorted
\* set or the hands of workers and pumps, and whatever faults follow.
FinalStatusSticks ==
  [][\A n \in Notifications :
       Finished(n) => /\ Finished(n)'
                      /\ status'[n] = status[n] /\ sends'[n] = sends[n]]_vars

-----------------------------------------------------------------------------
(***************************************************************************)
(* With one process, and with faults that lose a call but repeat none       *)
(* ("client", "crash", "shutdown"), there is never a second copy.  What the *)
(* pump of a stopping process holds does not count: its ZREM may have       *)
(* failed, but so will its XADD.                                           *)
(***************************************************************************)
Unread == UNION {{<<p, k>> : k \in (lastDelivered[p] + 1) .. Len(stream[p])} :
                   p \in Priority}

Copies(n) ==
  {<<"row", r>> : r \in {n} \cap Claimable}
  \cup {<<"zset", r>> : r \in {n} \cap delayed}
  \cup {<<"handler", h>> : h \in {h \in Handlers : HeldByHandler(h, n)}}
  \cup {<<"scheduler", i>> : i \in {i \in Instances : HeldByScheduler(i, n)}}
  \cup {<<"pump", i>> : i \in {i \in Instances : ctx[i] = "running" /\ HeldByPump(i, n)}}
  \cup {<<"stream", m>> : m \in {m \in Unread : Subject(m) = n}}
  \cup {<<"worker", w>> : w \in {w \in Workers : Processing(w, n)}}
  \cup UNION {{<<"read", w, m>> : m \in {m \in worker[w].rest : Subject(m) = n}} :
                w \in Workers}

\* A notification is in one place at a time: while a worker has it, it is in
\* no stream, not in the sorted set, and with no other worker, so no two
\* attempts overlap, although the handler, the scheduler, the workers and the
\* pump pass it on without any common transaction.
AtMostOneCarrier == \A n \in Notifications : \A a, b \in Copies(n) : a = b

\* The delivery_attempts of a notification are numbered 1, 2, 3, ... in the
\* order in which they were made, although each number is computed from the
\* attempt_count that a worker fetched several calls earlier.
AttemptsAreNumbered ==
  \A n \in Notifications : \A k \in DOMAIN attempts[n] : attempts[n][k] = k

Promise == INSTANCE Delivery WITH
  submitted <- {n \in Notifications : status[n] # "absent"},
  accepted <- {n \in Notifications : "accepted" \in ends[n]},
  buried <- {n \in Notifications : dlq[n] > 0}

\* The pipeline implements Delivery: at most max_retries attempts (one when it
\* is 0), none after the provider accepted, and at most one dead letter, only
\* when the attempts are used up.
KeepsPromise == Promise!Spec

\* Of the notifications that requests submit with the same idempotency key, in
\* one batch or concurrently, at most one ever reaches a provider.
OneSendPerKey ==
  \A m, n \in Notifications :
    m # n /\ KeyOf[m] = KeyOf[n] /\ KeyOf[m] # NoKey => sends[m] = 0 \/ sends[n] = 0

\* A notification is not given up early: it reaches the dead letter queue only
\* after as many attempts as it has a right to, also when a count fails to be
\* stored, when a process dies in the middle of an attempt, and when two
\* workers hold copies of the message and count each other's attempts.
NoEarlyBurial ==
  \A n \in Notifications : dlq[n] > 0 => sends[n] >= Promise!Budget(n)

-----------------------------------------------------------------------------
\* Liveness, without faults

Settled(n) == ends[n] \ LossKinds # {} \/ dlq[n] > 0

\* Every notification that is created is settled in the end: accepted,
\* cancelled, in the dead letter queue, or refused for want of a provider.
EventuallySettled ==
  \A n \in Notifications : status[n] # "absent" ~> Settled(n)

\* Once requests cease the queues run empty: every entry is read and
\* acknowledged, also those of notifications cancelled while they waited, and
\* no retry stays behind.
QueuesDrain == <>[](Undelivered = {} /\ pel = {} /\ delayed = {})

-----------------------------------------------------------------------------
(***************************************************************************)
(* What comments and documents say and the code does not do.               *)
(***************************************************************************)

\* A row that its create request could not enqueue is left 'pending', and the
\* scheduler picks it up (comment in NotificationService.Create).
SchedulerPicksUp ==
  \A n \in Notifications :
    (status[n] = "pending" /\ "unqueued" \in ends[n])
      ~> (status[n] # "pending" \/ Carried(n))

InHand(m) == \E w \in Workers : m \in worker[w].rest \cup {worker[w].msg}

\* An entry whose worker died is claimed by another one (README, XAUTOCLAIM).
OrphansAreClaimed ==
  <>[](\A i \in Instances : ctx[i] = "running") =>
  \A p \in Priority, k \in 1 .. MaxStreamLen :
    (<<p, k>> \in pel /\ ~InHand(<<p, k>>)) ~> (<<p, k>> \notin pel \/ InHand(<<p, k>>))

\* PopDelayedDue gives a member to one caller (its comment: "atomically").
PopIsAtomic ==
  \A i, j \in Instances :
    i # j => {n \in pump[i].hand : pump[i].popped} \cap {n \in pump[j].hand : pump[j].popped} = {}

\* A notification whose cancellation was confirmed is not sent afterwards
\* (comment and check in processMessage; the API's answer 200).
NoSendAfterCancel ==
  [][\A n \in Notifications : "withdrawn" \in ends[n] => sends'[n] = sends[n]]_vars

\* A read returns messages of one stream, the highest that has any (comment of
\* ReadMessages).
OneStreamPerRead ==
  \A w \in Workers : \A m \in worker[w].rest : m[1] = worker[w].msg[1]

=============================================================================
