------------------------------ MODULE Delivery ------------------------------
(***************************************************************************)
(* What the pipeline promises a client about one accepted notification,    *)
(* without streams, workers or retries: it is offered to the provider at   *)
(* most Budget times, never again once an attempt was seen to succeed, and *)
(* goes to the dead letter queue, once, only when the budget is used up.   *)
(***************************************************************************)
EXTENDS Naturals

CONSTANTS Notifications, MaxRetriesOf

VARIABLES
  submitted,  \* notifications that exist
  sends,      \* attempts made for each
  accepted,   \* those whose attempt the provider confirmed
  buried      \* those in the dead letter queue

\* The first attempt is always made; max_retries bounds the attempts in all.
Budget(n) == IF MaxRetriesOf[n] = 0 THEN 1 ELSE MaxRetriesOf[n]

Init ==
  /\ submitted = {} /\ accepted = {} /\ buried = {}
  /\ sends = [n \in Notifications |-> 0]

Submit(S) ==
  /\ S \cap submitted = {}
  /\ submitted' = submitted \cup S
  /\ UNCHANGED <<sends, accepted, buried>>

Open(n) == n \in submitted \ (accepted \cup buried)

Attempt(n) ==
  /\ Open(n) /\ sends[n] < Budget(n)
  /\ sends' = [sends EXCEPT ![n] = @ + 1]
  /\ accepted' \in {accepted, accepted \cup {n}}
  /\ UNCHANGED <<submitted, buried>>

Bury(n) ==
  /\ Open(n) /\ sends[n] = Budget(n)
  /\ buried' = buried \cup {n}
  /\ UNCHANGED <<submitted, sends, accepted>>

Next ==
  \/ \E S \in SUBSET Notifications : Submit(S)
  \/ \E n \in Notifications : Attempt(n) \/ Bury(n)

Spec == Init /\ [][Next]_<<submitted, sends, accepted, buried>>

=============================================================================
