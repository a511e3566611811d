------------------------------- MODULE Records -------------------------------
(***************************************************************************)
(* The notifications table as the API shows it: identity, creation time,   *)
(* batch, content and status of the stored rows.  How the pipeline moves a *)
(* row from status to status is the matter of Notifier; here a row may go  *)
(* from any status to any other between two calls.                         *)
(***************************************************************************)
EXTENDS Naturals, FiniteSets, Domain

CONSTANTS
  Ids,                    \* ids in their order; the code draws them in any order
  Times,                  \* values of created_at
  Statuses,               \* the statuses rows take in an instance
  Templates, NoTemplate,  \* template ids, NoTemplate standing for NULL
  TemplateOf              \* template_id of each notification (immutable)

ASSUME RecordsAssumption ==
  /\ Ids \subseteq Nat /\ Times \subseteq Nat
  /\ Statuses \subseteq Status /\ "pending" \in Statuses
  /\ NoTemplate \notin Templates
  /\ TemplateOf \in [Ids -> Templates \cup {NoTemplate}]

VARIABLE rows  \* the committed rows

\* batch names the batch by the rows created together, {} standing for NULL.
\* content is the template version the body was rendered from, 0 without
\* template; since, history: the version when the request began.
Row == [id : Ids, at : Times, batch : SUBSET Ids, status : Statuses,
        content : Nat, since : Nat]

Stored == {r.id : r \in rows}

RecordsInit == rows = {}

\* A slip for CatalogueTypeOK: a status that is not in the enumeration.
UpdateStatusRaw(n, s) ==
  rows' = {IF r.id = n THEN [r EXCEPT !.status = "retrying"] ELSE r : r \in rows}

UpdateStatus(n, s) ==
  rows' = {IF r.id = n THEN [r EXCEPT !.status = s] ELSE r : r \in rows}

=============================================================================
