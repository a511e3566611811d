------------------------------ MODULE Catalogue ------------------------------
(***************************************************************************)
(* What clients of the API see of templates, batches and lists, while      *)
(* create requests, template changes and the pipeline's status changes     *)
(* interleave with the pages of a walk.                                    *)
(***************************************************************************)
EXTENDS Submission, Listing

vars == <<rows, stored, version, request, walk>>

Init == SubmissionInit /\ ListingInit

CatalogueTypeOK == SubmissionTypeOK /\ walk \in Walk

\* A worker, the scheduler, a handler or a cancellation moves a row on.
Move ==
  /\ \E n \in Stored, s \in Statuses : UpdateStatus(n, s)
  /\ UNCHANGED <<stored, version, request>>

Next ==
  \/ (SubmissionStep \/ Move) /\ Observe
  \/ ListingStep /\ UNCHANGED <<stored, version, request>>

Spec == Init /\ [][Next]_vars

-----------------------------------------------------------------------------

\* Every stored notification that names a template names one that is stored,
\* although requests look a template up, render it, and insert their rows in
\* separate calls while it is being deleted.
TemplateReferencesHold ==
  \A r \in rows : TemplateOf[r.id] \in stored \cup {NoTemplate}

\* The content of a notification comes from a version of its template that was
\* current at some time during the request: an update that was over when the
\* request began is never missed, and no content is of a version to come.
ContentIsFresh ==
  \A r \in rows :
    TemplateOf[r.id] # NoTemplate =>
      r.since <= r.content /\ r.content \in 1 .. version[TemplateOf[r.id]]

\* A batch is stored as a whole or not at all, whichever of its look-ups,
\* renderings and INSERTs fails, and all its rows carry the same time.
BatchIsWhole ==
  \A r \in rows : \A n \in r.batch :
    \E o \in rows : o.id = n /\ o.batch = r.batch /\ o.at = r.at

\* A client that follows the cursors to the end has been given every row that
\* matched its filter during the whole walk, whatever rows were inserted or
\* changed status between its requests, and although rows of one batch share
\* created_at; provided the rows of each page arrived.
WalkIsComplete == walk.pc = "done" /\ ~walk.cut => walk.steady \subseteq walk.seen

\* No row is returned twice in one walk.
NoRowTwice == walk.count = Cardinality(walk.seen)

=============================================================================
