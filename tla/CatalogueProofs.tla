--------------------------- MODULE CatalogueProofs ---------------------------
(***************************************************************************)
(* Theorems about templates, create requests and the rows they store, for  *)
(* any number of requests, templates, notifications and batches.           *)
(*                                                                         *)
(* The three properties of the rows are inductive together with what is    *)
(* known of the requests under way (RequestOK): that no two of them carry  *)
(* the same notification, that what they have rendered is fresh, and that  *)
(* the templates of the rows a transaction has inserted are stored.        *)
(***************************************************************************)
EXTENDS Catalogue, TLAPS, FiniteSetTheorems

RequestType == [pc : {"idle", "render", "insert"}, batch : BOOLEAN,
                items : SUBSET Ids, todo : SUBSET Ids, at : SUBSET Times,
                content : [Ids -> Nat], since : [Templates -> Nat]]

\* c is a version of n's template that has been current since v was.
Fresh(n, c, v) ==
  TemplateOf[n] # NoTemplate =>
    v[TemplateOf[n]] <= c[n] /\ c[n] \in 1 .. version[TemplateOf[n]]

RowsOK ==
  /\ rows \subseteq Row
  /\ IsFiniteSet(rows)
  /\ \A a, b \in rows : a.id = b.id => a = b

TemplatesOK ==
  /\ stored \subseteq Templates
  /\ version \in [Templates -> Nat]
  /\ \A t \in stored : version[t] >= 1

\* What a request has done so far.
RequestOK(r) ==
  /\ r \in RequestType
  /\ IsFiniteSet(r.items) /\ r.todo \subseteq r.items
  /\ r.pc = "idle" => r.items = {}
  /\ \A t \in Templates : r.since[t] <= version[t]
  /\ \A n \in r.items : r.pc = "insert" \/ n \notin r.todo => Fresh(n, r.content, r.since)
  /\ r.pc = "insert" => /\ \E now \in Times : r.at = {now}
                        /\ \A n \in r.items \ r.todo : Available(n)

RequestsOK ==
  /\ DOMAIN request = Requests /\ request = [q \in Requests |-> request[q]]
  /\ \A q \in Requests : RequestOK(request[q]) /\ request[q].items \cap Stored = {}
  /\ \A p, q \in Requests : p # q => request[p].items \cap request[q].items = {}

StoreInv ==
  /\ RowsOK /\ TemplatesOK /\ RequestsOK
  /\ TemplateReferencesHold /\ ContentIsFresh /\ BatchIsWhole

-----------------------------------------------------------------------------
\* Steps that change one request and nothing else.

LEMMA RequestStep ==
  ASSUME StoreInv, NEW q \in Requests, NEW r, RequestOK(r),
         request' = [request EXCEPT ![q] = r], UNCHANGED <<rows, stored, version>>,
         r.items \cap Stored = {},
         \A p \in Requests : p # q => r.items \cap request[p].items = {}
  PROVE  StoreInv'
<1>1. RowsOK' /\ TemplatesOK'
  BY DEF StoreInv, RowsOK, TemplatesOK
<1>2. TemplateReferencesHold' /\ ContentIsFresh' /\ BatchIsWhole'
  BY DEF StoreInv, TemplateReferencesHold, ContentIsFresh, BatchIsWhole
<1>3. \A p \in Requests : request'[p] = IF p = q THEN r ELSE request[p]
  BY DEF StoreInv, RequestsOK
<1>4. RequestsOK'
  <2>1. DOMAIN request' = Requests /\ request' = [p \in Requests |-> request'[p]]
    BY DEF StoreInv, RequestsOK
  <2>2. \A p \in Requests : RequestOK(request[p])' /\ request'[p].items \cap Stored' = {}
    <3> SUFFICES ASSUME NEW p \in Requests
                 PROVE  RequestOK(request[p])' /\ request'[p].items \cap Stored' = {}
      OBVIOUS
    <3>1. RequestOK(IF p = q THEN r ELSE request[p])
      BY DEF StoreInv, RequestsOK
    <3> QED
      BY <1>3, <3>1 DEF StoreInv, RequestsOK, Stored, RequestOK, Fresh, Available
  <2>3. \A p, u \in Requests : p # u => request'[p].items \cap request'[u].items = {}
    BY <1>3 DEF StoreInv, RequestsOK
  <2> QED
    BY <2>1, <2>2, <2>3 DEF RequestsOK
<1> QED
  BY <1>1, <1>2, <1>4 DEF StoreInv

LEMMA NoRequestOK ==
  ASSUME TemplatesOK
  PROVE  RequestOK(NoRequest) /\ NoRequest.items = {}
BY FS_EmptySet, RecordsAssumption DEF RequestOK, RequestType, NoRequest, TemplatesOK, Fresh, Available

LEMMA SubmitInv ==
  ASSUME StoreInv, NEW q \in Requests, NEW S \in SUBSET Ids, IsFiniteSet(S), NEW b \in BOOLEAN,
         Submit(q, S, b)
  PROVE  StoreInv'
<1> DEFINE r == [NoRequest EXCEPT !.pc = "render", !.batch = b, !.items = S, !.todo = S,
                                  !.since = version]
<1>1. /\ r \in RequestType
      /\ r.pc = "render" /\ r.items = S /\ r.todo = S /\ r.since = version
  BY DEF RequestType, NoRequest, StoreInv, TemplatesOK
<1>2. r.items \cap Stored = {} /\ \A p \in Requests : r.items \cap request[p].items = {}
  BY <1>1 DEF Submit, Taken
<1>3. request' = [request EXCEPT ![q] = r] /\ UNCHANGED <<rows, stored, version>>
  BY DEF Submit
<1> HIDE DEF r
<1>4. RequestOK(r)
  BY <1>1 DEF RequestOK, StoreInv, TemplatesOK
<1> QED
  BY <1>2, <1>3, <1>4, RequestStep

LEMMA RenderInv ==
  ASSUME StoreInv, NEW q \in Requests, NEW n \in Ids, Render(q, n)
  PROVE  StoreInv'
<1> DEFINE old == request[q]
           r == [old EXCEPT !.todo = @ \ {n}, !.content[n] = Current(n)]
<1>1. RequestOK(old) /\ old \in RequestType /\ n \in old.todo /\ old.pc = "render"
  BY DEF StoreInv, RequestsOK, RequestOK, Render
<1>2. request' = [request EXCEPT ![q] = r] /\ UNCHANGED <<rows, stored, version>>
  BY DEF Render
<1>3. /\ r \in RequestType
      /\ r.pc = "render" /\ r.items = old.items /\ r.todo = old.todo \ {n}
      /\ r.since = old.since /\ r.content = [old.content EXCEPT ![n] = Current(n)]
  BY <1>1, RecordsAssumption DEF RequestType, Current, StoreInv, TemplatesOK
<1>4. Fresh(n, r.content, r.since)
  BY <1>1, <1>3, RecordsAssumption
     DEF Render, Available, Current, Fresh, RequestOK, RequestType, StoreInv, TemplatesOK
<1>5. \A m \in old.items : m # n /\ m \notin old.todo => Fresh(m, r.content, r.since)
  BY <1>1, <1>3 DEF RequestOK, RequestType, Fresh
<1> HIDE DEF r
<1>6. RequestOK(r)
  BY <1>1, <1>3, <1>4, <1>5 DEF RequestOK
<1> QED
  BY <1>2, <1>3, <1>6, RequestStep DEF StoreInv, RequestsOK

LEMMA StampInv ==
  ASSUME StoreInv, NEW q \in Requests, Stamp(q)
  PROVE  StoreInv'
<1> DEFINE old == request[q]
<1>1. PICK now \in Times :
        request' = [request EXCEPT ![q].pc = "insert", ![q].todo = request[q].items, ![q].at = {now}]
  BY DEF Stamp
<1> DEFINE r == [old EXCEPT !.pc = "insert", !.todo = old.items, !.at = {now}]
<1>2. RequestOK(old) /\ old \in RequestType /\ old.todo = {} /\ old.pc = "render"
  BY DEF StoreInv, RequestsOK, RequestOK, Stamp
<1>3. request' = [request EXCEPT ![q] = r] /\ UNCHANGED <<rows, stored, version>>
  BY <1>1 DEF Stamp
<1>4. /\ r \in RequestType
      /\ r.pc = "insert" /\ r.items = old.items /\ r.todo = old.items /\ r.at = {now}
      /\ r.since = old.since /\ r.content = old.content
  BY <1>2 DEF RequestType
<1> HIDE DEF r
<1>5. RequestOK(r)
  BY <1>2, <1>4 DEF RequestOK
<1> QED
  BY <1>3, <1>4, <1>5, RequestStep DEF StoreInv, RequestsOK

LEMMA AbandonInv ==
  ASSUME StoreInv, NEW q \in Requests, Abandon(q)
  PROVE  StoreInv'
BY NoRequestOK, RequestStep DEF Abandon, StoreInv

-----------------------------------------------------------------------------
\* Steps that store rows.

LEMMA StoreRows ==
  ASSUME StoreInv, NEW q \in Requests, NEW S \in SUBSET request[q].items,
         request[q].pc = "insert", \A n \in S : Available(n),
         request[q].batch => S = request[q].items,
         rows' = rows \cup RowsOf(q, S), request' = [request EXCEPT ![q] = NoRequest],
         UNCHANGED <<stored, version>>
  PROVE  StoreInv'
<1> DEFINE old == request[q]
           new == RowsOf(q, S)
<1>1. RequestOK(old) /\ old \in RequestType /\ old.items \cap Stored = {}
  BY DEF StoreInv, RequestsOK, RequestOK
<1>2. PICK now \in Times : old.at = {now}
  BY <1>1 DEF RequestOK
<1>3. /\ \A x \in new : /\ x \in Row /\ x.id \in S /\ x.at = now
                        /\ x.content = old.content[x.id]
                        /\ x.batch = IF old.batch THEN old.items ELSE {}
                        /\ TemplateOf[x.id] # NoTemplate => x.since = old.since[TemplateOf[x.id]]
      /\ \A n \in S : \E x \in new : x.id = n
      /\ \A x, y \in new : x.id = y.id => x = y
  <2> DEFINE row(n) ==
        [id |-> n, at |-> now, status |-> "pending", content |-> old.content[n],
         batch |-> IF old.batch THEN old.items ELSE {},
         since |-> IF TemplateOf[n] = NoTemplate THEN 0 ELSE old.since[TemplateOf[n]]]
  <2>1. new = {row(n) : n \in S}
    BY <1>2 DEF RowsOf
  <2>2. \A n \in S : /\ n \in Ids /\ old.content[n] \in Nat
                     /\ (IF TemplateOf[n] = NoTemplate THEN 0 ELSE old.since[TemplateOf[n]]) \in Nat
                     /\ (IF old.batch THEN old.items ELSE {}) \in SUBSET Ids
    BY <1>1, RecordsAssumption DEF RequestType
  <2>3. \A n \in S : row(n) \in Row
    BY <2>2, RecordsAssumption DEF Row
  <2>4. \A n \in S : /\ row(n).id = n /\ row(n).at = now /\ row(n).content = old.content[n]
                     /\ row(n).batch = IF old.batch THEN old.items ELSE {}
                     /\ TemplateOf[n] # NoTemplate => row(n).since = old.since[TemplateOf[n]]
    OBVIOUS
  <2> HIDE DEF row, new
  <2>5. \A x \in new : \E n \in S : x = row(n)
    BY <2>1
  <2>6. \A n \in S : row(n) \in new
    BY <2>1
  <2> QED
    BY <2>3, <2>4, <2>5, <2>6
<1> HIDE DEF new
<1>4. RowsOK'
  <2>1. IsFiniteSet(S)
    BY <1>1, FS_Subset DEF RequestOK
  <2> DEFINE f == [x \in new |-> x.id]
  <2>2. f \in [new -> S] /\ \A x, y \in new : f[x] = f[y] => x = y
    BY <1>3
  <2> HIDE DEF f
  <2>6. f \in Injection(new, S)
    BY <2>2 DEF Injection, IsInjective
  <2>3. IsFiniteSet(new)
    BY <2>1, <2>6, FS_Injection, Zenon
  <2>4. IsFiniteSet(rows')
    BY <2>3, FS_Union DEF StoreInv, RowsOK, new
  <2>5. \A a \in rows, x \in new : a.id # x.id
    BY <1>1, <1>3 DEF Stored
  <2> QED
    BY <1>3, <2>4, <2>5 DEF StoreInv, RowsOK, new
<1>5. TemplatesOK'
  BY DEF StoreInv, TemplatesOK
<1>6. Stored' = Stored \cup S
  BY <1>3 DEF Stored, new
<1>7. RequestsOK'
  <2>1. RequestOK(NoRequest) /\ NoRequest.items = {}
    BY NoRequestOK DEF StoreInv
  <2>2. DOMAIN request' = Requests /\ request' = [p \in Requests |-> request'[p]]
    BY DEF StoreInv, RequestsOK
  <2>3. \A p \in Requests : request'[p] = IF p = q THEN NoRequest ELSE request[p]
    BY DEF StoreInv, RequestsOK
  <2>4. \A p \in Requests : RequestOK(request[p])'
    <3> SUFFICES ASSUME NEW p \in Requests
                 PROVE  RequestOK(request[p])'
      OBVIOUS
    <3>1. RequestOK(IF p = q THEN NoRequest ELSE request[p])
      BY <2>1 DEF StoreInv, RequestsOK
    <3> QED
      BY <2>3, <3>1 DEF RequestOK, Fresh, Available
  <2>5. \A p \in Requests : request'[p].items \cap Stored' = {}
    BY <1>6, <2>1, <2>3 DEF StoreInv, RequestsOK
  <2>6. \A p, u \in Requests : p # u => request'[p].items \cap request'[u].items = {}
    BY <2>1, <2>3 DEF StoreInv, RequestsOK
  <2> QED
    BY <2>2, <2>4, <2>5, <2>6 DEF RequestsOK
<1>8. TemplateReferencesHold'
  BY <1>3 DEF StoreInv, TemplateReferencesHold, Available, new
<1>9. ContentIsFresh'
  BY <1>1, <1>3 DEF StoreInv, ContentIsFresh, RequestOK, Fresh, new
<1>10. BatchIsWhole'
  BY <1>3 DEF StoreInv, BatchIsWhole, new
<1> QED
  BY <1>4, <1>5, <1>7, <1>8, <1>9, <1>10 DEF StoreInv

LEMMA InsertInv ==
  ASSUME StoreInv, NEW q \in Requests, NEW n \in Ids, Insert(q, n)
  PROVE  StoreInv'
<1> DEFINE old == request[q]
           r == [old EXCEPT !.todo = @ \ {n}]
<1>1. RequestOK(old) /\ old \in RequestType /\ n \in old.todo /\ old.pc = "insert" /\ Available(n)
  BY DEF StoreInv, RequestsOK, RequestOK, Insert
<1>2. CASE old.batch
  <2>1. request' = [request EXCEPT ![q] = r] /\ UNCHANGED <<rows, stored, version>>
    BY <1>2 DEF Insert
  <2>2. /\ r \in RequestType
        /\ r.pc = "insert" /\ r.items = old.items /\ r.todo = old.todo \ {n}
        /\ r.since = old.since /\ r.content = old.content /\ r.at = old.at
    BY <1>1 DEF RequestType
  <2> HIDE DEF r
  <2>3. RequestOK(r)
    BY <1>1, <2>2 DEF RequestOK
  <2> QED
    BY <2>1, <2>2, <2>3, RequestStep DEF StoreInv, RequestsOK
<1>3. CASE ~old.batch
  <2>1. {n} \in SUBSET old.items
    BY <1>1 DEF RequestOK
  <2> QED
    BY <1>1, <1>3, <2>1, StoreRows DEF Insert
<1> QED
  BY <1>2, <1>3

LEMMA CommitInv ==
  ASSUME StoreInv, NEW q \in Requests, Commit(q)
  PROVE  StoreInv'
<1>1. \A n \in request[q].items : Available(n)
  BY DEF StoreInv, RequestsOK, RequestOK, Commit
<1> QED
  BY <1>1, StoreRows DEF Commit

-----------------------------------------------------------------------------
\* Steps that change templates or the status of rows.

LEMMA TemplateInv ==
  ASSUME StoreInv, NEW t \in Templates, TemplateRequest(t)
  PROVE  StoreInv'
<1>1. UNCHANGED <<rows, request>>
  BY DEF TemplateRequest, CreateTemplate, UpdateTemplate, DeleteTemplate
<1>2. TemplatesOK'
  BY DEF TemplateRequest, CreateTemplate, UpdateTemplate, DeleteTemplate, StoreInv, TemplatesOK
<1>3. \A u \in Templates : version[u] \in Nat /\ version'[u] \in Nat /\ version[u] <= version'[u]
  BY DEF TemplateRequest, CreateTemplate, UpdateTemplate, DeleteTemplate, StoreInv, TemplatesOK
<1>4. \A n \in Ids : n \in Stored \/ (\E q \in Requests : /\ request[q].pc = "insert"
                                                          /\ n \in request[q].items \ request[q].todo)
        => (Available(n) => Available(n)')
  BY DEF TemplateRequest, CreateTemplate, UpdateTemplate, DeleteTemplate, Referenced, Available
<1>5. RowsOK' /\ BatchIsWhole'
  BY <1>1 DEF StoreInv, RowsOK, BatchIsWhole
<1>6. TemplateReferencesHold'
  BY <1>1, <1>4 DEF StoreInv, RowsOK, Row, Stored, TemplateReferencesHold, Available
<1>7. ContentIsFresh'
  <2> SUFFICES ASSUME NEW r \in rows, TemplateOf[r.id] # NoTemplate
               PROVE  r.since <= r.content /\ r.content \in 1 .. version'[TemplateOf[r.id]]
    BY <1>1 DEF ContentIsFresh
  <2>1. TemplateOf[r.id] \in Templates /\ r.content \in Nat /\ r.since \in Nat
    BY RecordsAssumption DEF StoreInv, RowsOK, Row
  <2> QED
    BY <1>3, <2>1 DEF StoreInv, ContentIsFresh
<1>8. RequestsOK'
  <2> SUFFICES ASSUME NEW q \in Requests
               PROVE  RequestOK(request[q])'
    BY <1>1 DEF StoreInv, RequestsOK, Stored
  <2> DEFINE r == request[q]
  <2>1. RequestOK(r) /\ r \in RequestType
    BY DEF StoreInv, RequestsOK, RequestOK
  <2>2. \A u \in Templates : r.since[u] <= version'[u]
    BY <1>3, <2>1 DEF RequestOK, RequestType
  <2>3. ASSUME NEW n \in r.items, Fresh(n, r.content, r.since)
        PROVE  Fresh(n, r.content, r.since)'
    <3>1. TemplateOf[n] # NoTemplate => TemplateOf[n] \in Templates
      BY <2>1, RecordsAssumption DEF RequestType
    <3>2. r.content[n] \in Nat
      BY <2>1 DEF RequestType
    <3> QED
      BY <1>1, <1>3, <2>3, <3>1, <3>2 DEF Fresh
  <2>4. r.pc = "insert" => \A n \in r.items \ r.todo : Available(n)'
    BY <1>4, <2>1 DEF RequestOK, RequestType
  <2> QED
    BY <1>1, <2>1, <2>2, <2>3, <2>4 DEF RequestOK
<1> QED
  BY <1>2, <1>5, <1>6, <1>7, <1>8 DEF StoreInv

LEMMA MoveInv ==
  ASSUME StoreInv, Move
  PROVE  StoreInv'
<1>1. PICK n \in Stored, s \in Statuses : UpdateStatus(n, s)
  BY DEF Move
<1> DEFINE f == [r \in rows |-> IF r.id = n THEN [r EXCEPT !.status = s] ELSE r]
<1>2. rows' = {f[r] : r \in rows}
  BY <1>1 DEF UpdateStatus
<1>3. \A r \in rows : /\ f[r] \in Row /\ f[r].id = r.id /\ f[r].at = r.at /\ f[r].batch = r.batch
                      /\ f[r].content = r.content /\ f[r].since = r.since
  BY DEF StoreInv, RowsOK, Row
<1>4. f \in Surjection(rows, rows')
  BY <1>2 DEF Surjection
<1> HIDE DEF f
<1>5. RowsOK'
  BY <1>2, <1>3, <1>4, FS_Surjection DEF StoreInv, RowsOK
<1>6. Stored' = Stored
  BY <1>2, <1>3 DEF Stored
<1>7. TemplatesOK' /\ RequestsOK'
  BY <1>6 DEF StoreInv, TemplatesOK, RequestsOK, RequestOK, Fresh, Available, Move
<1>8. TemplateReferencesHold' /\ ContentIsFresh'
  BY <1>2, <1>3 DEF StoreInv, TemplateReferencesHold, ContentIsFresh, Move
<1>9. BatchIsWhole'
  BY <1>2, <1>3 DEF StoreInv, BatchIsWhole
<1> QED
  BY <1>5, <1>7, <1>8, <1>9 DEF StoreInv

-----------------------------------------------------------------------------

LEMMA StoreInit == Init => StoreInv
<1> SUFFICES ASSUME Init
             PROVE  StoreInv
  OBVIOUS
<1> USE DEF Init, SubmissionInit, RecordsInit
<1>1. RowsOK /\ TemplatesOK
  BY FS_EmptySet DEF RowsOK, TemplatesOK
<1>2. RequestsOK
  BY <1>1, NoRequestOK DEF RequestsOK, Stored
<1>3. TemplateReferencesHold /\ ContentIsFresh /\ BatchIsWhole
  BY DEF TemplateReferencesHold, ContentIsFresh, BatchIsWhole
<1> QED
  BY <1>1, <1>2, <1>3 DEF StoreInv

LEMMA StoreUnchanged ==
  ASSUME StoreInv, UNCHANGED <<rows, stored, version, request>>
  PROVE  StoreInv'
BY DEF StoreInv, RowsOK, TemplatesOK, RequestsOK, RequestOK, Fresh, Available, Stored,
       TemplateReferencesHold, ContentIsFresh, BatchIsWhole

LEMMA SubmissionInv ==
  ASSUME StoreInv, SubmissionStep
  PROVE  StoreInv'
<1>1. ASSUME NEW q \in Requests, Create(q)
      PROVE  StoreInv'
  BY <1>1, SubmitInv, FS_Singleton DEF Create
<1>2. ASSUME NEW q \in Requests, CreateBatch(q)
      PROVE  StoreInv'
  BY <1>2, SubmitInv, SubmissionAssumption DEF CreateBatch
<1> QED
  BY <1>1, <1>2, TemplateInv, StampInv, CommitInv, AbandonInv, RenderInv, InsertInv
     DEF SubmissionStep

LEMMA StoreNext ==
  ASSUME StoreInv, [Next]_vars
  PROVE  StoreInv'
<1>1. ASSUME ListingStep, UNCHANGED <<stored, version, request>>
      PROVE  UNCHANGED <<rows, stored, version, request>>
  BY <1>1 DEF ListingStep, List, ListByBatch, ListOn
<1> QED
  BY <1>1, SubmissionInv, MoveInv, StoreUnchanged DEF Next, vars

LEMMA StoreSafe == Spec => []StoreInv
<1>1. StoreInv /\ [Next]_vars => StoreInv'
  BY StoreNext
<1> QED
  BY StoreInit, <1>1, PTL DEF Spec

\* No stored notification ever refers to a template that has been deleted,
\* although the look-up, the rendering and the INSERT are separate calls.
THEOREM ReferencesHold == Spec => []TemplateReferencesHold
<1>1. StoreInv => TemplateReferencesHold
  BY DEF StoreInv
<1> QED
  BY <1>1, StoreSafe, PTL

\* What is stored was rendered from a version of the template that was current
\* at some time during the create request.
THEOREM ContentStaysFresh == Spec => []ContentIsFresh
<1>1. StoreInv => ContentIsFresh
  BY DEF StoreInv
<1> QED
  BY <1>1, StoreSafe, PTL

\* Batches are stored as a whole or not at all, with one creation time.
THEOREM BatchesAreWhole == Spec => []BatchIsWhole
<1>1. StoreInv => BatchIsWhole
  BY DEF StoreInv
<1> QED
  BY <1>1, StoreSafe, PTL

=============================================================================
