------------------------------- MODULE Listing -------------------------------
(***************************************************************************)
(* GET /notifications: a client walks through the rows that match a filter, *)
(* newest first, passing the cursor of each page to the next request.      *)
(* Each page is one SELECT; rows appear and change status in between.      *)
(***************************************************************************)
EXTENDS Records

CONSTANTS
  Limits,        \* values of the parameter limit, 0 when it is missing
  MaxLimit,      \* 100
  DefaultLimit,  \* 50
  Batches, Unset   \* batches to filter by; Unset: the parameter is missing

ASSUME ListingAssumption ==
  /\ Limits \subseteq Nat
  /\ MaxLimit \in Nat \ {0} /\ DefaultLimit \in Nat \ {0}

VARIABLE
  walk  \* history: seen, the ids returned so far; count, how many rows that
        \* were; steady, the rows that have matched ever since the walk began;
        \* cut, some page's rows did not all arrive

Filter == [status : Statuses \cup {Unset}, batch : Batches \cup {Unset}]
Cursor == [at : Times, id : Ids]

Walk == [pc : {"idle", "more", "done"}, filter : Filter, limit : Nat,
         cursor : SUBSET Cursor, seen : SUBSET Ids, count : Nat,
         steady : SUBSET Ids, cut : BOOLEAN]

ListingInit ==
  walk = [pc |-> "idle", filter |-> [status |-> Unset, batch |-> Unset], limit |-> 0,
          cursor |-> {}, seen |-> {}, count |-> 0, steady |-> {}, cut |-> FALSE]

PageSize(limit) == IF limit = 0 \/ limit > MaxLimit THEN DefaultLimit ELSE limit

\* ORDER BY created_at DESC, id DESC.
Before(a, b) == a.at > b.at \/ (a.at = b.at /\ a.id > b.id)

FirstRows(S, k) == {r \in S : Cardinality({o \in S : Before(o, r)}) < k}

Matches(f, r) == f.status \in {Unset, r.status} /\ f.batch \in {Unset, r.batch}

\* Slips: a cursor of the time alone, and a comparison that is not strict.
PastCursorTime(c, r) == c.at > r.at
PastCursorOrAt(c, r) == Before(c, r) \/ (c.at = r.at /\ c.id = r.id)

\* (created_at, id) < (cursor_time, cursor_id)
PastCursor(c, r) == Before(c, r)

Selected(f, cursor) ==
  {r \in rows : Matches(f, r) /\ \A c \in cursor : PastCursor(c, r)}

\* One page.  The rows of the answer are read until Next returns false, which
\* it also does on an error that nobody asks for: then got is a part of them.
FetchPage(f, limit, cursor, W) ==
  \E lost \in 0 .. PageSize(limit) + 1 :
    LET answer == FirstRows(Selected(f, cursor), PageSize(limit) + 1)
        got == FirstRows(answer, PageSize(limit) + 1 - lost)
        page == FirstRows(got, PageSize(limit))
    IN walk' = [W EXCEPT
         !.pc = IF got # page THEN "more" ELSE "done",
         !.cursor = IF got = page THEN {}
                    ELSE {[at |-> r.at, id |-> r.id] :
                            r \in page \ FirstRows(page, PageSize(limit) - 1)},
         !.seen = @ \cup {r.id : r \in page},
         !.count = @ + Cardinality(page),
         !.cut = @ \/ got # answer]

\* The first request of a walk.  Clients do not affect each other: one walk.
List(f, limit) ==
  /\ walk.pc = "idle"
  /\ FetchPage(f, limit, {}, [walk EXCEPT !.filter = f, !.limit = limit,
                                          !.steady = {r.id : r \in Selected(f, {})}])
  /\ UNCHANGED rows

\* GET /batches/{id}/notifications: always the first page; its cursor is for List.
ListByBatch(b) == List([status |-> Unset, batch |-> b], MaxLimit)

\* The next one, with the cursor of the last page.
ListOn ==
  /\ walk.pc = "more"
  /\ FetchPage(walk.filter, walk.limit, walk.cursor, walk)
  /\ UNCHANGED rows

\* What a step of others does to the history of the walk.
Observe ==
  walk' = [walk EXCEPT !.steady =
             @ \cap {r.id : r \in {o \in rows' : Matches(walk.filter, o)}}]

ListingStep ==
  \/ \E f \in Filter, l \in Limits : List(f, l)
  \/ \E b \in Batches : ListByBatch(b)
  \/ ListOn

=============================================================================
