----------------------------- MODULE Submission -----------------------------
(***************************************************************************)
(* Templates and the create requests that use them.  A request looks up    *)
(* and renders the template of each of its notifications, then stamps the  *)
(* rows with one creation time and inserts them: Create with one           *)
(* statement, CreateBatch in a transaction whose rows nobody sees before   *)
(* the commit.  Templates are updated and deleted meanwhile, and any call  *)
(* may fail.                                                               *)
(***************************************************************************)
EXTENDS Records

CONSTANTS
  Requests,     \* create requests under way at a time
  BatchInputs,  \* the sets of notifications that batch requests carry
  MaxVersion    \* bound on the updates of a template

ASSUME SubmissionAssumption ==
  /\ BatchInputs \subseteq SUBSET Ids /\ \A S \in BatchInputs : IsFiniteSet(S)
  /\ MaxVersion \in Nat

VARIABLES
  stored,   \* rows of the templates table
  version,  \* content of each template; 0: the id has not been drawn yet
  request   \* progress of the create requests

NoRequest == [pc |-> "idle", batch |-> FALSE, items |-> {}, todo |-> {}, at |-> {},
              content |-> [n \in Ids |-> 0], since |-> [t \in Templates |-> 0]]

SubmissionTypeOK ==
  /\ rows \subseteq Row
  /\ stored \subseteq Templates
  /\ version \in [Templates -> Nat]
  /\ request \in [Requests -> [pc : {"idle", "render", "insert"}, batch : BOOLEAN,
                               items : SUBSET Ids, todo : SUBSET Ids, at : SUBSET Times,
                               content : [Ids -> Nat], since : [Templates -> Nat]]]
  /\ \A a, b \in rows : a.id = b.id => a = b

SubmissionInit ==
  /\ RecordsInit
  /\ stored = {} /\ version = [t \in Templates |-> 0]
  /\ request = [q \in Requests |-> NoRequest]

-----------------------------------------------------------------------------
\* TemplateService.  A name already taken, or a body that does not parse,
\* refuses the request and changes nothing.

CreateTemplate(t) ==
  /\ version[t] = 0
  /\ version' = [version EXCEPT ![t] = 1]
  /\ stored' = stored \cup {t}
  /\ UNCHANGED <<rows, request>>

UpdateTemplate(t) ==
  /\ t \in stored /\ version[t] < MaxVersion
  /\ version' = [version EXCEPT ![t] = @ + 1]
  /\ UNCHANGED <<rows, stored, request>>

\* A slip for TemplateReferencesHold: there is no foreign key.
ReferencedNever(t) == FALSE

\* The foreign key: the DELETE fails when a row refers to the template, and
\* waits for a transaction that has inserted one.
Referenced(t) ==
  \/ \E n \in Stored : TemplateOf[n] = t
  \/ \E q \in Requests : \E n \in request[q].items \ request[q].todo :
       request[q].pc = "insert" /\ TemplateOf[n] = t

DeleteTemplate(t) ==
  /\ t \in stored /\ ~Referenced(t)
  /\ stored' = stored \ {t}
  /\ UNCHANGED <<rows, version, request>>

TemplateRequest(t) == CreateTemplate(t) \/ UpdateTemplate(t) \/ DeleteTemplate(t)

-----------------------------------------------------------------------------
\* Create and CreateBatch, up to the point where the rows are stored

Taken == Stored \cup UNION {request[q].items : q \in Requests}

Submit(q, S, batch) ==
  /\ request[q].pc = "idle" /\ S \cap Taken = {}
  /\ request' = [request EXCEPT ![q] = [NoRequest EXCEPT
       !.pc = "render", !.batch = batch, !.items = S, !.todo = S, !.since = version]]
  /\ UNCHANGED <<rows, stored, version>>

Create(q) == \E n \in Ids : Submit(q, {n}, FALSE)
CreateBatch(q) == \E S \in BatchInputs : Submit(q, S, TRUE)

Available(n) == TemplateOf[n] \in stored \cup {NoTemplate}

\* A slip for ContentIsFresh: the first version looked up is kept in a cache.
CurrentCached(n) == IF TemplateOf[n] = NoTemplate THEN 0 ELSE 1

Current(n) == IF TemplateOf[n] = NoTemplate THEN 0 ELSE version[TemplateOf[n]]

\* GetByID and Render for one notification of the request.
Render(q, n) ==
  /\ request[q].pc = "render" /\ n \in request[q].todo
  /\ Available(n)
  /\ request' = [request EXCEPT ![q].todo = @ \ {n}, ![q].content[n] = Current(n)]
  /\ UNCHANGED <<rows, stored, version>>

\* One now for all rows of the request, from the clock of its process.
Stamp(q) ==
  /\ request[q].pc = "render" /\ request[q].todo = {}
  /\ \E now \in Times :
       request' = [request EXCEPT ![q].pc = "insert", ![q].todo = request[q].items,
                                  ![q].at = {now}]
  /\ UNCHANGED <<rows, stored, version>>

\* A scheduled row differs in its status only, which may change at once anyway.
RowsOf(q, S) ==
  {[id |-> n, at |-> now, status |-> "pending", content |-> request[q].content[n],
    batch |-> IF request[q].batch THEN request[q].items ELSE {},
    since |-> IF TemplateOf[n] = NoTemplate THEN 0 ELSE request[q].since[TemplateOf[n]]] :
     n \in S, now \in request[q].at}

\* A slip for BatchIsWhole: every INSERT of a batch commits by itself.
InsertAlone(q, n) ==
  /\ request[q].pc = "insert" /\ n \in request[q].todo
  /\ Available(n)
  /\ rows' = rows \cup RowsOf(q, {n})
  /\ request' = [request EXCEPT ![q] = IF @.todo = {n} THEN NoRequest
                                       ELSE [@ EXCEPT !.todo = @ \ {n}]]
  /\ UNCHANGED <<stored, version>>

\* The INSERT of one row, which the foreign key may refuse.
Insert(q, n) ==
  /\ request[q].pc = "insert" /\ n \in request[q].todo
  /\ Available(n)
  /\ IF request[q].batch
     THEN /\ request' = [request EXCEPT ![q].todo = @ \ {n}]
          /\ UNCHANGED rows
     ELSE /\ request' = [request EXCEPT ![q] = NoRequest]
          /\ rows' = rows \cup RowsOf(q, {n})
  /\ UNCHANGED <<stored, version>>

Commit(q) ==
  /\ request[q].pc = "insert" /\ request[q].batch /\ request[q].todo = {}
  /\ rows' = rows \cup RowsOf(q, request[q].items)
  /\ request' = [request EXCEPT ![q] = NoRequest]
  /\ UNCHANGED <<stored, version>>

\* Any error ends the request: a template that is gone or cannot be rendered,
\* content that is not valid, a failed statement, a client that goes away.
\* The deferred Rollback drops what the transaction has inserted.
Abandon(q) ==
  /\ request[q].pc # "idle"
  /\ request' = [request EXCEPT ![q] = NoRequest]
  /\ UNCHANGED <<rows, stored, version>>

SubmissionStep ==
  \/ \E t \in Templates : TemplateRequest(t)
  \/ \E q \in Requests :
       \/ Create(q) \/ CreateBatch(q) \/ Stamp(q) \/ Commit(q) \/ Abandon(q)
       \/ \E n \in Ids : Render(q, n) \/ Insert(q, n)

=============================================================================
