----------------------------- MODULE MCNotifier -----------------------------
(***************************************************************************)
(* Small instances of Notifier.                                            *)
(***************************************************************************)
EXTENDS Notifier, TLC

CONSTANTS n1, n2, i1, i2, w1, w2, h1, h2, key

\* One stream for both, and the case of two streams.
SamePriority == [n \in Notifications |-> "normal"]
HighAndLow == [n \in Notifications |-> IF n = n1 THEN "high" ELSE "low"]

\* n1 is retried once; n2 has max_retries = 0, which still means one attempt.
RetryOnce == [n \in Notifications |-> IF n = n1 THEN 2 ELSE 0]

\* One key for all, or none at all.
SameKey == [n \in Notifications |-> key]
Unkeyed == [n \in Notifications |-> NoKey]

OneHost == [w \in Workers |-> i1]
TwoHosts == (w1 :> i1) @@ (w2 :> i2)
HandlerOnOne == [h \in Handlers |-> i1]

BothInOneBatch == {{n1, n2}}

\* On one host, workers are alike and so are handlers.
Interchangeable == Permutations(Workers) \cup Permutations(Handlers)

\* Every variable but attempts and pel, which no guard reads: two states that
\* differ in nothing else have the same future.
WithoutRecords ==
  <<status, attemptCount, stream, lastDelivered, delayed, dlq, ctx, historyVars,
    handler, due, pump, worker>>

=============================================================================
