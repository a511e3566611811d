------------------------- MODULE NotificationService -------------------------
(***************************************************************************)
(* The request handlers of the HTTP API that change notifications: Create, *)
(* CreateBatch and Cancel of NotificationService.                          *)
(*                                                                         *)
(* A create request inserts its rows and then, row by row, enqueues those  *)
(* that are not scheduled and writes status 'queued' over whatever the row *)
(* then holds.  Its calls run under the context of the HTTP request, so    *)
(* they fail when the client goes away ("client"), and not when the process *)
(* is told to stop: the server lets the requests under way finish.  The    *)
(* content of a request (recipient, templates, validation) only decides    *)
(* whether a create gets this far.                                         *)
(***************************************************************************)
EXTENDS Stores

CONSTANTS
  Handlers,     \* request goroutines
  HandlerHost,  \* the process each runs in
  BatchInputs   \* the sets of notifications that batch requests carry

ASSUME ServiceAssumption ==
  /\ HandlerHost \in [Handlers -> Instances]
  /\ BatchInputs \subseteq SUBSET Notifications

VARIABLE
  handler  \* job: inserted rows still to be enqueued;
           \* mark: the row just enqueued, still to be marked 'queued'

IdleHandler == [job |-> {}, mark |-> {}]

ServiceTypeOK ==
  handler \in [Handlers -> [job : SUBSET Notifications,
                            mark : SUBSET Notifications]]

ServiceInit == handler = [h \in Handlers |-> IdleHandler]

RequestMayFail(store) == {store, "client"} \cap Faults # {}

\* repo.Create and repo.CreateBatch up to their return.  replied = FALSE: the
\* rows are committed and the request still sees an error, and stops.
Submit(h, S, deferred, replied) ==
  /\ handler[h] = IdleHandler
  /\ ctx[HandlerHost[h]] # "down"
  /\ replied \/ RequestMayFail("pg")
  /\ Insertable(S)
  /\ Insert(S, deferred)
  /\ handler' = [handler EXCEPT ![h].job = IF replied THEN S \ deferred ELSE {}]
  /\ End(IF replied THEN {} ELSE S \ deferred, "dropped")
  /\ UNCHANGED <<attemptCount, attempts, redisVars, ctx, sends>>

Create(h) ==
  \E n \in Notifications : \E deferred \in SUBSET {n}, replied \in BOOLEAN :
    Submit(h, {n}, deferred, replied)

CreateBatch(h) ==
  \E S \in BatchInputs : \E deferred \in SUBSET S, replied \in BOOLEAN :
    Submit(h, S, deferred, replied)

\* A slip for NoSilentLoss: the loop gives up the rest of the batch at the
\* first row it has enqueued.
EnqueueFirstOnly(h) ==
  \E n \in handler[h].job, done, replied \in BOOLEAN :
    /\ handler[h].mark = {}
    /\ replied => done
    /\ replied \/ RequestMayFail("redis")
    /\ Enqueue(n, done)
    /\ handler' = [handler EXCEPT ![h].job = {},
                                  ![h].mark = IF replied THEN {n} ELSE {}]
    /\ End(IF done THEN {} ELSE {n}, "unqueued")
    /\ UNCHANGED <<pgVars, groupVars, delayed, dlq, ctx, sends>>

\* producer.Enqueue for the next pending row.  After an error the row is left
\* as it is, and the loop goes on with the others.
EnqueueNext(h) ==
  \E n \in handler[h].job, done, replied \in BOOLEAN :
    /\ handler[h].mark = {}
    /\ replied => done
    /\ replied \/ RequestMayFail("redis")
    /\ Enqueue(n, done)
    /\ handler' = [handler EXCEPT ![h].job = @ \ {n},
                                  ![h].mark = IF replied THEN {n} ELSE {}]
    /\ End(IF done THEN {} ELSE {n}, "unqueued")
    /\ UNCHANGED <<pgVars, groupVars, delayed, dlq, ctx, sends>>

MarkQueued(h) ==
  \E n \in handler[h].mark, done \in BOOLEAN :
    /\ done \/ RequestMayFail("pg")
    /\ UpdateStatus(n, "queued", done)
    /\ handler' = [handler EXCEPT ![h].mark = {}]
    /\ UNCHANGED <<attemptCount, attempts, redisVars, ctx, historyVars>>

\* The UPDATE tests and writes the status in one statement.  When it matches
\* no row the request is refused and nothing changes.
Cancel(n) ==
  /\ \E i \in Instances : ctx[i] # "down"
  /\ status[n] \in CancellableStatus
  /\ UpdateStatus(n, "cancelled", TRUE)
  /\ End({n}, "withdrawn")
  /\ UNCHANGED <<attemptCount, attempts, redisVars, ctx, sends, handler>>

HandlerStep(h) == Create(h) \/ CreateBatch(h) \/ EnqueueNext(h) \/ MarkQueued(h)

=============================================================================
