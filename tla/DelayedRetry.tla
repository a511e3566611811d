---------------------------- MODULE DelayedRetry ----------------------------
(***************************************************************************)
(* The ProcessDelayed goroutine of each process, which moves retries whose *)
(* time has come from the sorted set back to their stream.  PopDelayedDue  *)
(* reads the due members with one command and removes them with a second   *)
(* whose error nobody looks at.  The backoff is abstract: a member may be  *)
(* due at any tick.  A member is "id:channel:priority"; channel and         *)
(* priority never change, so the id stands for it.                         *)
(***************************************************************************)
EXTENDS Stores

CONSTANT PopLimit  \* members one tick may take

ASSUME DelayedRetryAssumption == PopLimit \in Nat \ {0}

VARIABLE
  pump  \* hand: members read and not yet enqueued; popped: ZREM has been sent

IdlePump == [hand |-> {}, popped |-> FALSE]

DelayedRetryTypeOK ==
  pump \in [Instances -> [hand : SUBSET Notifications, popped : BOOLEAN]]

DelayedRetryInit == pump = [i \in Instances |-> IdlePump]

RangeDelayed(i) ==
  \E S \in SUBSET delayed :
    /\ pump[i] = IdlePump /\ ctx[i] = "running"
    /\ S # {} /\ Cardinality(S) <= PopLimit
    /\ pump' = [pump EXCEPT ![i].hand = S]
    /\ UNCHANGED storeVars

\* A slip for AtMostOneCarrier: nothing is removed.
KeepPopped(i) ==
  \E done \in Outcomes("redis", i) :
    /\ pump[i].hand # {} /\ ~pump[i].popped
    /\ delayed' = delayed
    /\ pump' = [pump EXCEPT ![i].popped = TRUE]
    /\ UNCHANGED <<pgVars, stream, groupVars, dlq, ctx, historyVars>>

RemovePopped(i) ==
  \E done \in Outcomes("redis", i) :
    /\ pump[i].hand # {} /\ ~pump[i].popped
    /\ delayed' = IF done THEN delayed \ pump[i].hand ELSE delayed
    /\ pump' = [pump EXCEPT ![i].popped = TRUE]
    /\ UNCHANGED <<pgVars, stream, groupVars, dlq, ctx, historyVars>>

Reenqueue(i) ==
  \E n \in pump[i].hand, done \in Outcomes("redis", i) :
    /\ pump[i].popped
    /\ Enqueue(n, done)
    /\ pump' = [pump EXCEPT ![i].hand = @ \ {n},
                            ![i].popped = pump[i].hand # {n}]
    /\ End(IF done THEN {} ELSE {n}, "dropped")
    /\ UNCHANGED <<pgVars, groupVars, delayed, dlq, ctx, sends>>

DelayedRetryStep(i) == RangeDelayed(i) \/ RemovePopped(i) \/ Reenqueue(i)

=============================================================================
