------------------------------- MODULE Stores -------------------------------
(***************************************************************************)
(* What the processes of the service share: the two Postgres tables, the   *)
(* Redis keys, the context of every running process, and two history       *)
(* variables.  The operators below are the methods of NotificationRepository, *)
(* Producer, Consumer and DLQ.  Each is ONE statement or command sent to a  *)
(* store and is atomic there; a method that sends two (PopDelayedDue) is    *)
(* two steps of its caller.                                                *)
(*                                                                         *)
(* Nearly every caller logs a store error and carries on, so all that      *)
(* matters about a call is whether it took effect: the parameter `done'.   *)
(* A call that takes effect and still reports an error (its reply is lost) *)
(* differs from a success only where the caller looks at the error, and    *)
(* there the caller's action has the third outcome of its own.             *)
(***************************************************************************)
EXTENDS Naturals, Sequences, FiniteSets, Domain

CONSTANTS
  Notifications,  \* ids that requests may create
  PriorityOf,     \* the priority of each (immutable column)
  MaxRetriesOf,   \* max_retries of each (immutable column)
  KeyOf, NoKey,   \* idempotency_key of each, NoKey standing for NULL
  Routable,       \* those whose channel has a registered provider
  Instances,      \* processes of the single binary, sharing the stores
  Faults,         \* what may go wrong, a subset of FaultKinds
  MaxStreamLen    \* bound on the entries of one stream

FaultKinds == {"pg", "redis", "client", "crash", "shutdown"}

ASSUME StoresAssumption ==
  /\ PriorityOf \in [Notifications -> Priority]
  /\ MaxRetriesOf \in [Notifications -> Nat]
  /\ Routable \subseteq Notifications
  /\ Faults \subseteq FaultKinds
  /\ MaxStreamLen \in Nat

VARIABLES
  status,        \* notifications.status, "absent" before the INSERT
  attemptCount,  \* notifications.attempt_count
  attempts,      \* attempt_number of the delivery_attempts rows, in order
  stream,        \* the three priority streams; entries are never trimmed
  lastDelivered, \* the consumer group's last-delivered id in each stream
  pel,           \* the group's pending entries list
  delayed,       \* members of the sorted set notifications:delayed
  dlq,           \* number of entries of each id in notifications:dlq
  ctx,           \* the process context that main derives from the signals
  sends,         \* history: provider.Send calls made for each id
  ends           \* history: the ways in which each id has left the pipeline

pgVars == <<status, attemptCount, attempts>>
groupVars == <<lastDelivered, pel>>
redisVars == <<stream, groupVars, delayed, dlq>>
historyVars == <<sends, ends>>
storeVars == <<pgVars, redisVars, ctx, historyVars>>

(***************************************************************************)
(* A stream entry is named by its stream and its position in it.           *)
(***************************************************************************)
Messages == Priority \X (Nat \ {0})
NoMessage == <<>>
Subject(m) == stream[m[1]][m[2]]

\* "withdrawn": a Cancel statement took effect; "unroutable": the dispatcher
\* found no provider.  Losses: "unqueued": the XADD of its create request failed;
\* "unburied": it was marked failed and the push to the dead letter queue that
\* follows did not happen; "dropped": some other fault made a holder forget it.
LossKinds == {"unqueued", "unburied", "dropped"}
EndKinds == {"accepted", "withdrawn", "unroutable"} \cup LossKinds
End(S, how) == ends' = [n \in Notifications |->
                          IF n \in S THEN ends[n] \cup {how} ELSE ends[n]]

StoresTypeOK ==
  /\ status \in [Notifications -> Status \cup {"absent"}]
  /\ attemptCount \in [Notifications -> Nat]
  /\ attempts \in [Notifications -> Seq(Nat)]
  /\ stream \in [Priority -> Seq(Notifications)]
  /\ lastDelivered \in [Priority -> Nat]
  /\ pel \subseteq Messages
  /\ delayed \subseteq Notifications
  /\ dlq \in [Notifications -> Nat]
  /\ ctx \in [Instances -> {"running", "stopping", "down"}]
  /\ sends \in [Notifications -> Nat]
  /\ ends \in [Notifications -> SUBSET EndKinds]

StoresInit ==
  /\ status = [n \in Notifications |-> "absent"]
  /\ attemptCount = [n \in Notifications |-> 0]
  /\ attempts = [n \in Notifications |-> <<>>]
  /\ stream = [p \in Priority |-> <<>>]
  /\ lastDelivered = [p \in Priority |-> 0]
  /\ pel = {}
  /\ delayed = {}
  /\ dlq = [n \in Notifications |-> 0]
  /\ ctx = [i \in Instances |-> "running"]
  /\ sends = [n \in Notifications |-> 0]
  /\ ends = [n \in Notifications |-> {}]

(***************************************************************************)
(* Whether a call made under the process context of i may (not) take       *)
(* effect.  Both client libraries refuse a call whose context is cancelled. *)
(***************************************************************************)
Outcomes(store, i) ==
  {done \in BOOLEAN : IF done THEN ctx[i] = "running"
                              ELSE ctx[i] # "running" \/ store \in Faults}

-----------------------------------------------------------------------------
\* NotificationRepository

\* A slip for OneSendPerKey: keys are compared with the table only.
InsertableByTable(S) ==
  \A n \in S :
    /\ status[n] = "absent"
    /\ KeyOf[n] # NoKey =>
         \A m \in Notifications \ {n} : KeyOf[m] = KeyOf[n] => status[m] = "absent"

\* Both INSERT paths: the partial unique index rejects a key already stored,
\* or stored twice by one transaction, and then no row of it is kept.
Insertable(S) ==
  \A n \in S :
    /\ status[n] = "absent"
    /\ KeyOf[n] # NoKey =>
         \A m \in Notifications \ {n} :
           KeyOf[m] = KeyOf[n] => m \notin S /\ status[m] = "absent"

Insert(S, deferred) ==
  status' = [n \in Notifications |->
               IF n \notin S THEN status[n]
               ELSE IF n \in deferred THEN "scheduled" ELSE "pending"]

UpdateStatus(n, s, done) ==
  status' = IF done THEN [status EXCEPT ![n] = s] ELSE status

IncrementAttempt(n, done) ==
  attemptCount' = IF done THEN [attemptCount EXCEPT ![n] = @ + 1]
                          ELSE attemptCount

CreateDeliveryAttempt(n, number, done) ==
  attempts' = IF done THEN [attempts EXCEPT ![n] = Append(@, number)]
                      ELSE attempts

-----------------------------------------------------------------------------
\* Producer and DLQ

Enqueue(n, done) ==
  /\ done => Len(stream[PriorityOf[n]]) < MaxStreamLen
  /\ stream' = IF done THEN [stream EXCEPT ![PriorityOf[n]] = Append(@, n)]
                       ELSE stream

EnqueueDelayed(n, done) ==
  delayed' = IF done THEN delayed \cup {n} ELSE delayed

Push(n, done) ==
  dlq' = IF done THEN [dlq EXCEPT ![n] = @ + 1] ELSE dlq

-----------------------------------------------------------------------------
\* Consumer

\* XREADGROUP ... COUNT 1 STREAMS high normal low > > >: COUNT is per stream.
Undelivered == {p \in Priority : lastDelivered[p] < Len(stream[p])}
Fresh == {<<p, lastDelivered[p] + 1>> : p \in Undelivered}

DeliverFresh ==
  /\ pel' = pel \cup Fresh
  /\ lastDelivered' = [p \in Priority |-> IF p \in Undelivered
                                          THEN lastDelivered[p] + 1
                                          ELSE lastDelivered[p]]

\* The order in which the reply lists the streams.
FirstOf(m, S) == m \in S /\ \A o \in S : Rank(m[1]) <= Rank(o[1])

Ack(m, done) == pel' = IF done THEN pel \ {m} ELSE pel

=============================================================================
