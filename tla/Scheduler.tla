------------------------------ MODULE Scheduler ------------------------------
(***************************************************************************)
(* The scheduler goroutine of each process.  A poll claims due rows with   *)
(* one UPDATE ... FOR UPDATE SKIP LOCKED ... RETURNING, which moves them    *)
(* from 'scheduled' to 'pending', and then enqueues them one by one.       *)
(* Time is abstract: a scheduled row may be found due at any poll.         *)
(***************************************************************************)
EXTENDS Stores

CONSTANT BatchSize  \* rows one poll may claim

ASSUME SchedulerAssumption == BatchSize \in Nat \ {0}

VARIABLE due  \* rows the running poll of each process has yet to enqueue

SchedulerTypeOK == due \in [Instances -> SUBSET Notifications]

SchedulerInit == due = [i \in Instances |-> {}]

Claimable == {n \in Notifications : status[n] = "scheduled"}

\* got: the rows the poll receives.  The statement commits by itself, and a
\* result set that breaks off, or a row that does not scan, loses the rest.
FetchScheduledDue(i) ==
  \E S \in SUBSET Claimable : \E got \in SUBSET S :
    /\ due[i] = {} /\ ctx[i] = "running"
    /\ S # {} /\ Cardinality(S) <= BatchSize
    /\ got = S \/ "pg" \in Faults
    /\ status' = [n \in Notifications |-> IF n \in S THEN "pending" ELSE status[n]]
    /\ due' = [due EXCEPT ![i] = got]
    /\ End(S \ got, "dropped")
    /\ UNCHANGED <<attemptCount, attempts, redisVars, ctx, sends>>

EnqueueDue(i) ==
  \E n \in due[i], done \in Outcomes("redis", i) :
    /\ Enqueue(n, done)
    /\ due' = [due EXCEPT ![i] = @ \ {n}]
    /\ End(IF done THEN {} ELSE {n}, "dropped")
    /\ UNCHANGED <<pgVars, groupVars, delayed, dlq, ctx, sends>>

SchedulerStep(i) == FetchScheduledDue(i) \/ EnqueueDue(i)

=============================================================================
