----------------------------- MODULE WalkProofs -----------------------------
(***************************************************************************)
(* Theorems about the pages of a list, for any number of rows, any page    *)
(* size and any walk: what the cursor divides is what has been returned    *)
(* and what is still to come, whatever happens to the rows in between.     *)
(*                                                                         *)
(* The first part is about FirstRows, the first k rows of a result in its  *)
(* order: the k-th of them is the one row with k - 1 rows before it.       *)
(***************************************************************************)
EXTENDS CatalogueProofs

Ordered(S) ==
  /\ IsFiniteSet(S)
  /\ \A r \in S : r.at \in Nat /\ r.id \in Nat
  /\ \A a, b \in S : a.id = b.id => a = b

Prior(S, r) == {o \in S : Before(o, r)}
Place(S, r) == Cardinality(Prior(S, r))

LEMMA OrderedSubset ==
  ASSUME NEW S, Ordered(S), NEW T \in SUBSET S
  PROVE  Ordered(T)
BY FS_Subset DEF Ordered

LEMMA PlaceType ==
  ASSUME NEW S, Ordered(S), NEW r
  PROVE  IsFiniteSet(Prior(S, r)) /\ Place(S, r) \in Nat
<1>1. Prior(S, r) \in SUBSET S
  BY DEF Prior
<1> QED
  BY <1>1, FS_Subset, FS_CardinalityType DEF Ordered, Place

LEMMA BeforeIsTotal ==
  ASSUME NEW S, Ordered(S), NEW a \in S, NEW b \in S
  PROVE  /\ ~Before(a, a)
         /\ Before(a, b) => ~Before(b, a)
         /\ a # b => Before(a, b) \/ Before(b, a)
         /\ \A c \in S : Before(a, b) /\ Before(b, c) => Before(a, c)
BY DEF Ordered, Before

LEMMA PlaceGrows ==
  ASSUME NEW S, Ordered(S), NEW a \in S, NEW b \in S, Before(a, b)
  PROVE  Place(S, a) < Place(S, b)
<1>1. Prior(S, a) \in SUBSET Prior(S, b)
  BY BeforeIsTotal DEF Prior
<1>2. a \in Prior(S, b) /\ a \notin Prior(S, a)
  BY BeforeIsTotal DEF Prior
<1>3. /\ Cardinality(Prior(S, a)) <= Cardinality(Prior(S, b))
      /\ Cardinality(Prior(S, b)) = Cardinality(Prior(S, a)) => Prior(S, b) = Prior(S, a)
  BY <1>1, PlaceType, FS_Subset
<1>4. Place(S, a) \in Nat /\ Place(S, b) \in Nat
  BY PlaceType
<1> QED
  BY <1>2, <1>3, <1>4 DEF Place

\* Different rows have different places, and the lower place is the earlier row.
LEMMA PlaceOrders ==
  ASSUME NEW S, Ordered(S), NEW a \in S, NEW b \in S
  PROVE  /\ Place(S, a) = Place(S, b) => a = b
         /\ Place(S, a) < Place(S, b) => Before(a, b)
<1>1. Place(S, a) \in Nat /\ Place(S, b) \in Nat
  BY PlaceType
<1> QED
  BY <1>1, PlaceGrows, BeforeIsTotal

LEMMA FirstRowsPlace ==
  ASSUME NEW S, Ordered(S), NEW k \in Nat
  PROVE  /\ FirstRows(S, k) \in SUBSET S
         /\ FirstRows(S, k) = {r \in S : Place(S, r) < k}
         /\ \A r \in FirstRows(S, k) : Place(FirstRows(S, k), r) = Place(S, r)
<1> DEFINE F == FirstRows(S, k)
<1>1. F = {r \in S : Place(S, r) < k}
  BY DEF FirstRows, Place, Prior
<1> HIDE DEF F
<1>2. ASSUME NEW r \in F
      PROVE  Prior(F, r) = Prior(S, r)
  <2>1. ASSUME NEW o \in S, Before(o, r)
        PROVE  o \in F
    <3>1. Place(S, o) < Place(S, r)
      BY <1>1, <2>1, PlaceGrows
    <3>2. Place(S, o) \in Nat /\ Place(S, r) \in Nat
      BY PlaceType
    <3> QED
      BY <1>1, <3>1, <3>2
  <2> QED
    BY <1>1, <2>1 DEF Prior
<1> QED
  BY <1>1, <1>2 DEF Place, F

\* Every number below the place of a row is the place of a row before it.
LEMMA PlacesAreDense ==
  ASSUME NEW S, Ordered(S), NEW g \in S, NEW j \in Nat, j < Place(S, g)
  PROVE  \E p \in S : Place(S, p) = j
<1> DEFINE P == Prior(S, g)
           N == 0 .. (Place(S, g) - 1)
           f == [p \in P |-> Place(S, p)]
<1>1. IsFiniteSet(P) /\ Place(S, g) \in Nat /\ Cardinality(P) = Place(S, g)
  BY PlaceType DEF Place
<1>2. IsFiniteSet(N) /\ Cardinality(N) = Place(S, g)
  <2>1. Place(S, g) - 1 \in Int /\ 0 \in Int /\ ~(0 > Place(S, g) - 1)
    BY <1>1
  <2>2. IsFiniteSet(N) /\ Cardinality(N) = Place(S, g) - 1 - 0 + 1
    BY <2>1, FS_Interval
  <2> QED
    BY <1>1, <2>2
<1>3. P \subseteq S /\ \A p \in P : Place(S, p) \in Nat /\ Place(S, p) < Place(S, g)
  BY PlaceType, PlaceGrows DEF Prior
<1>4. f \in [P -> N] /\ \A a, b \in P : f[a] = f[b] => a = b
  BY <1>1, <1>3, PlaceOrders
<1>5. j \in N
  BY <1>1
<1> HIDE DEF f, N, P
<1>6. f \in Injection(P, N)
  BY <1>4 DEF Injection, IsInjective
<1>7. f \in Surjection(P, N)
  BY <1>1, <1>2, <1>6, FS_Injection
<1>8. PICK p \in P : f[p] = j
  BY <1>5, <1>7 DEF Surjection
<1> QED
  BY <1>3, <1>8 DEF f

\* The cursor: when a result has more than k rows, the k-th of them is the one
\* that is not among the first k - 1 of the first k, and the first k are that
\* row and the ones before it.
LEMMA LastRow ==
  ASSUME NEW S, Ordered(S), NEW k \in Nat \ {0}, FirstRows(S, k) # S
  PROVE  \E c \in FirstRows(S, k) :
           /\ FirstRows(S, k) \ FirstRows(FirstRows(S, k), k - 1) = {c}
           /\ \A r \in S : r \in FirstRows(S, k) <=> r = c \/ Before(r, c)
           /\ \A r \in S : r \notin FirstRows(S, k) <=> Before(c, r)
<1> DEFINE F == FirstRows(S, k)
<1>1. /\ F \in SUBSET S /\ F = {r \in S : Place(S, r) < k}
      /\ \A r \in F : Place(F, r) = Place(S, r)
  BY FirstRowsPlace
<1>2. Ordered(F)
  BY <1>1, OrderedSubset
<1>3. FirstRows(F, k - 1) = {r \in F : Place(F, r) < k - 1}
  BY <1>2, FirstRowsPlace
<1> HIDE DEF F
<1>4. \A r \in S : Place(S, r) \in Nat
  BY PlaceType
<1>5. PICK g \in S : Place(S, g) >= k
  BY <1>1, <1>4 DEF F
<1>6. PICK c \in S : Place(S, c) = k - 1
  BY <1>4, <1>5, PlacesAreDense
<1>7. c \in F
  BY <1>1, <1>6
<1>8. F \ FirstRows(F, k - 1) = {c}
  BY <1>1, <1>3, <1>4, <1>6, <1>7, PlaceOrders
<1>9. \A r \in S : r \in F <=> r = c \/ Before(r, c)
  BY <1>1, <1>4, <1>6, PlaceOrders, PlaceGrows
<1>10. \A r \in S : r \notin F <=> Before(c, r)
  BY <1>7, <1>9, BeforeIsTotal
<1> QED
  BY <1>7, <1>8, <1>9, <1>10 DEF F

-----------------------------------------------------------------------------
\* The walk, with one cursor while there is more to fetch.  Every row returned
\* so far is at the cursor or before it; every row that has matched all along
\* has been returned or is past the cursor, unless rows of a page got lost.
WalkOK ==
  /\ walk \in Walk
  /\ IsFiniteSet(walk.seen) /\ walk.seen \subseteq Stored
  /\ walk.count = Cardinality(walk.seen)
  /\ walk.pc = "idle" => walk.seen = {} /\ walk.cut = FALSE
  /\ walk.pc # "idle" => walk.steady \subseteq Stored
  /\ \A r \in rows : walk.pc # "idle" /\ r.id \in walk.steady => Matches(walk.filter, r)
  /\ walk.pc = "more" =>
       \E c \in Cursor :
         /\ walk.cursor = {c}
         /\ \A r \in rows : r.id \in walk.seen => ~Before(c, r)
         /\ \A r \in rows : r.id \in walk.steady /\ ~walk.cut =>
              r.id \in walk.seen \/ Before(c, r)
  /\ walk.pc = "done" /\ ~walk.cut => walk.steady \subseteq walk.seen

IdsOf(S) == {r.id : r \in S}

LEMMA IdsOfRows ==
  ASSUME NEW S, Ordered(S)
  PROVE  IsFiniteSet(IdsOf(S)) /\ Cardinality(IdsOf(S)) = Cardinality(S)
<1> DEFINE f == [r \in S |-> r.id]
<1>1. /\ f \in [S -> IdsOf(S)]
      /\ \A a, b \in S : f[a] = f[b] => a = b
      /\ \A n \in IdsOf(S) : \E r \in S : f[r] = n
  BY DEF Ordered, IdsOf
<1> HIDE DEF f
<1>2. f \in Bijection(S, IdsOf(S))
  BY <1>1 DEF Bijection, Injection, Surjection, IsInjective
<1> QED
  BY <1>2, FS_Bijection DEF ExistsBijection, Ordered

LEMMA PageSizeType ==
  ASSUME NEW limit \in Nat
  PROVE  PageSize(limit) \in Nat \ {0}
BY ListingAssumption DEF PageSize

LEMMA RowsOrdered ==
  ASSUME StoreInv
  PROVE  Ordered(rows) /\ \A r \in rows : r.id \in Ids /\ r.at \in Times
BY RecordsAssumption DEF StoreInv, RowsOK, Row, Ordered

LEMMA WalkRecord ==
  ASSUME NEW W \in Walk, NEW p \in {"more", "done"}, NEW C \in SUBSET Cursor,
         NEW s \in SUBSET Ids, NEW n \in Nat, NEW b \in BOOLEAN
  PROVE  [W EXCEPT !.pc = p, !.cursor = C, !.seen = s, !.count = n, !.cut = b] \in Walk
BY DEF Walk

\* What a page of the rows Sel does to the history W: some of the rows are
\* returned; when there is more, the rows up to the one the cursor names; and
\* unless rows of the answer got lost, all that are not past that one.
PageTaken(page, Sel, W) ==
  /\ walk' \in Walk
  /\ walk'.filter = W.filter /\ walk'.limit = W.limit /\ walk'.steady = W.steady
  /\ walk'.seen = W.seen \cup IdsOf(page)
  /\ walk'.count = W.count + Cardinality(page)
  /\ walk'.pc # "idle"
  /\ ~walk'.cut => ~W.cut
  /\ walk'.pc = "done" /\ ~walk'.cut => page = Sel
  /\ walk'.pc = "more" =>
       \E c \in page :
         /\ walk'.cursor = {[at |-> c.at, id |-> c.id]}
         /\ \A r \in page : ~Before(c, r)
         /\ ~walk'.cut => \A r \in Sel \ page : Before(c, r)

LEMMA OnePage ==
  ASSUME StoreInv, NEW f, NEW limit \in Nat, NEW C, NEW W \in Walk, FetchPage(f, limit, C, W)
  PROVE  \E page \in SUBSET Selected(f, C) : PageTaken(page, Selected(f, C), W)
<1> DEFINE k == PageSize(limit)
           Sel == Selected(f, C)
           answer == FirstRows(Sel, k + 1)
<1>1. PICK lost \in 0 .. k + 1 :
        LET got == FirstRows(answer, k + 1 - lost)
            page == FirstRows(got, k)
        IN walk' = [W EXCEPT
             !.pc = IF got # page THEN "more" ELSE "done",
             !.cursor = IF got = page THEN {}
                        ELSE {[at |-> r.at, id |-> r.id] : r \in page \ FirstRows(page, k - 1)},
             !.seen = @ \cup {r.id : r \in page},
             !.count = @ + Cardinality(page),
             !.cut = @ \/ got # answer]
  BY DEF FetchPage
<1> DEFINE got == FirstRows(answer, k + 1 - lost)
           page == FirstRows(got, k)
           cursor == IF got = page THEN {}
                     ELSE {[at |-> r.at, id |-> r.id] : r \in page \ FirstRows(page, k - 1)}
<1>2. k \in Nat \ {0} /\ k + 1 \in Nat \ {0} /\ k + 1 - lost \in Nat
  BY PageSizeType
<1> HIDE DEF k
<1>3. Sel \subseteq rows /\ Ordered(Sel)
  BY RowsOrdered, OrderedSubset DEF Selected
<1> HIDE DEF Sel
<1>4. answer \in SUBSET Sel /\ Ordered(answer)
  BY <1>2, <1>3, FirstRowsPlace, OrderedSubset
<1>5. got \in SUBSET answer /\ Ordered(got)
  BY <1>2, <1>4, FirstRowsPlace, OrderedSubset
<1>6. page \in SUBSET got /\ Ordered(page)
  BY <1>2, <1>5, FirstRowsPlace, OrderedSubset
<1> HIDE DEF answer, got
<1>7. ASSUME got # page
      PROVE  \E c \in page : /\ cursor = {[at |-> c.at, id |-> c.id]}
                             /\ \A r \in page : ~Before(c, r)
                             /\ got = answer => \A r \in Sel \ page : Before(c, r)
  <2>1. PICK c \in page : /\ page \ FirstRows(page, k - 1) = {c}
                          /\ \A r \in got : r \notin page <=> Before(c, r)
    BY <1>2, <1>5, <1>7, LastRow
  <2>2. cursor = {[at |-> c.at, id |-> c.id]}
    BY <1>7, <2>1
  <2>3. \A r \in page : ~Before(c, r)
    BY <1>6, <2>1
  <2>4. ASSUME got = answer, NEW r \in Sel \ page
        PROVE  Before(c, r)
    <3>1. CASE r \in answer
      BY <2>1, <2>4, <3>1
    <3>2. CASE r \notin answer
      <4>1. c \in Sel /\ Place(Sel, c) < k + 1 /\ ~(Place(Sel, r) < k + 1)
        BY <1>2, <1>3, <1>4, <1>5, <1>6, <3>2, FirstRowsPlace DEF answer
      <4>2. Place(Sel, c) \in Nat /\ Place(Sel, r) \in Nat
        BY <1>3, PlaceType
      <4> QED
        BY <1>2, <1>3, <4>1, <4>2, PlaceOrders
    <3> QED
      BY <3>1, <3>2
  <2> QED
    BY <2>2, <2>3, <2>4
<1>8. ASSUME got = page, got = answer
      PROVE  page = Sel
  <2> SUFFICES ASSUME answer # Sel
               PROVE  FALSE
    BY <1>8
  <2>1. \E c \in answer : answer \ FirstRows(answer, k) = {c}
    BY <1>2, <1>3, LastRow DEF answer
  <2> QED
    BY <1>8, <2>1
<1>9. cursor \in SUBSET Cursor
  <2>1. \A r \in page : [at |-> r.at, id |-> r.id] \in Cursor
    BY <1>3, <1>4, <1>5, <1>6, RowsOrdered DEF Cursor
  <2> QED
    BY <2>1
<1>10. IdsOf(page) \in SUBSET Ids /\ Cardinality(page) \in Nat
  BY <1>3, <1>4, <1>5, <1>6, RowsOrdered, FS_CardinalityType DEF IdsOf, Ordered
<1>11. walk' = [W EXCEPT !.pc = IF got # page THEN "more" ELSE "done", !.cursor = cursor,
                         !.seen = @ \cup IdsOf(page), !.count = @ + Cardinality(page),
                         !.cut = @ \/ got # answer]
  BY <1>1 DEF got, IdsOf
<1> HIDE DEF page, cursor
<1>12. walk' \in Walk
  <2>1. (IF got # page THEN "more" ELSE "done") \in {"more", "done"}
    OBVIOUS
  <2>2. W.seen \cup IdsOf(page) \in SUBSET Ids /\ W.count + Cardinality(page) \in Nat
    BY <1>10 DEF Walk
  <2>3. (W.cut \/ got # answer) \in BOOLEAN
    OBVIOUS
  <2> QED
    BY <1>9, <1>11, <2>1, <2>2, <2>3, WalkRecord, Zenon
<1>13. /\ walk'.filter = W.filter /\ walk'.limit = W.limit /\ walk'.steady = W.steady
       /\ walk'.seen = W.seen \cup IdsOf(page) /\ walk'.count = W.count + Cardinality(page)
       /\ walk'.cursor = cursor
       /\ got # page => walk'.pc = "more"
       /\ got = page => walk'.pc = "done"
  BY <1>11 DEF Walk
<1>14. ~walk'.cut => ~W.cut /\ got = answer
  BY <1>11 DEF Walk
<1>15. page \in SUBSET Sel
  BY <1>4, <1>5, <1>6
<1> QED
  BY <1>7, <1>8, <1>12, <1>13, <1>14, <1>15 DEF Sel, PageTaken

-----------------------------------------------------------------------------

\* A page that continues from C, for a history W in which C divides the rows.
LEMMA PageInv ==
  ASSUME StoreInv, UNCHANGED rows, NEW C \in SUBSET Cursor, NEW W \in Walk,
         FetchPage(W.filter, W.limit, C, W),
         IsFiniteSet(W.seen), W.seen \subseteq Stored, W.count = Cardinality(W.seen),
         W.steady \subseteq Stored,
         \A r \in rows : r.id \in W.steady => Matches(W.filter, r),
         \A r \in rows : r.id \in W.seen => \E c \in C : ~Before(c, r),
         \A r \in rows : r.id \in W.steady /\ ~W.cut =>
           r.id \in W.seen \/ \A c \in C : Before(c, r)
  PROVE  WalkOK'
<1> DEFINE Sel == Selected(W.filter, C)
<1>1. PICK page \in SUBSET Sel : PageTaken(page, Sel, W)
  <2>1. W.limit \in Nat
    BY DEF Walk
  <2> QED
    BY <2>1, OnePage, Zenon
<1> USE DEF PageTaken
<1>2. Sel \subseteq rows /\ \A r \in Sel : \A c \in C : Before(c, r)
  BY DEF Selected, PastCursor
<1>3. /\ Ordered(rows) /\ \A r \in rows : r.id \in Ids /\ r.at \in Times
      /\ Ordered(page)
  BY <1>1, <1>2, RowsOrdered, OrderedSubset
<1>4. IdsOf(page) \subseteq Stored /\ IdsOf(page) \cap W.seen = {}
  BY <1>1, <1>2 DEF IdsOf, Stored
<1>5. /\ IsFiniteSet(walk'.seen)
      /\ walk'.seen \subseteq Stored'
      /\ walk'.count = Cardinality(walk'.seen)
  <2>1. IsFiniteSet(IdsOf(page)) /\ Cardinality(IdsOf(page)) = Cardinality(page)
    BY <1>3, IdsOfRows
  <2>2. Cardinality(W.seen) \in Nat /\ Cardinality(IdsOf(page)) \in Nat
    BY <2>1, FS_CardinalityType
  <2>3. /\ IsFiniteSet(W.seen \cup IdsOf(page))
        /\ Cardinality(W.seen \cup IdsOf(page)) =
             Cardinality(W.seen) + Cardinality(IdsOf(page)) - Cardinality(W.seen \cap IdsOf(page))
    BY <2>1, FS_Union
  <2>4. Cardinality(W.seen \cap IdsOf(page)) = 0
    <3>1. W.seen \cap IdsOf(page) = {}
      BY <1>4
    <3> QED
      BY <3>1, FS_EmptySet
  <2> QED
    BY <1>1, <1>4, <2>1, <2>2, <2>3, <2>4 DEF Stored
<1>6. ASSUME NEW r \in rows, r.id \in IdsOf(page)
      PROVE  r \in page
  BY <1>1, <1>2, <1>3, <1>6 DEF IdsOf, Ordered
<1>7. ASSUME NEW r \in rows, r.id \in W.steady, ~walk'.cut, r.id \notin W.seen
      PROVE  r \in Sel
  BY <1>1, <1>7 DEF Selected, PastCursor
<1>8. ASSUME walk'.pc = "more"
      PROVE  \E c \in Cursor :
               /\ walk'.cursor = {c}
               /\ \A r \in rows : r.id \in walk'.seen => ~Before(c, r)
               /\ \A r \in rows : r.id \in walk'.steady /\ ~walk'.cut =>
                    r.id \in walk'.seen \/ Before(c, r)
  <2>1. PICK x \in page : /\ walk'.cursor = {[at |-> x.at, id |-> x.id]}
                          /\ \A r \in page : ~Before(x, r)
                          /\ ~walk'.cut => \A r \in Sel \ page : Before(x, r)
    BY <1>1, <1>8
  <2> DEFINE c == [at |-> x.at, id |-> x.id]
  <2>2. c \in Cursor /\ x \in rows
    BY <1>1, <1>2, <1>3 DEF Cursor
  <2>3. \A r : Before(c, r) <=> Before(x, r)
    BY DEF Before
  <2>4. ASSUME NEW r \in rows, r.id \in walk'.seen
        PROVE  ~Before(x, r)
    <3>1. CASE r.id \in W.seen
      <4>1. PICK d \in C : ~Before(d, r)
        BY <3>1
      <4>2. Before(d, x)
        BY <1>1, <1>2
      <4>3. /\ d.at \in Nat /\ d.id \in Nat /\ x.at \in Nat /\ x.id \in Nat
            /\ r.at \in Nat /\ r.id \in Nat
        BY <1>3, <2>2, RecordsAssumption DEF Cursor, Ordered
      <4> QED
        BY <4>1, <4>2, <4>3 DEF Before
    <3>2. CASE r.id \in IdsOf(page)
      BY <1>6, <2>1, <3>2
    <3> QED
      BY <1>1, <2>4, <3>1, <3>2
  <2>5. ASSUME NEW r \in rows, r.id \in walk'.steady, ~walk'.cut, r.id \notin walk'.seen
        PROVE  Before(x, r)
    <3>1. r \in Sel
      BY <1>1, <1>7, <2>5
    <3>2. r \notin page
      BY <1>1, <2>5 DEF IdsOf
    <3> QED
      BY <2>1, <2>5, <3>1, <3>2
  <2> HIDE DEF c
  <2> QED
    BY <2>1, <2>2, <2>3, <2>4, <2>5 DEF c
<1>9. ASSUME walk'.pc = "done", ~walk'.cut
      PROVE  walk'.steady \subseteq walk'.seen
  <2> SUFFICES ASSUME NEW n \in W.steady, n \notin W.seen
               PROVE  n \in IdsOf(page)
    BY <1>1
  <2>1. PICK r \in rows : r.id = n
    BY DEF Stored
  <2> QED
    BY <1>1, <1>7, <1>9, <2>1 DEF IdsOf
<1>10. \A r \in rows : r.id \in walk'.steady => Matches(walk'.filter, r)
  BY <1>1
<1> QED
  BY <1>1, <1>5, <1>8, <1>9, <1>10 DEF WalkOK, Stored, Matches, Before

LEMMA ListInv ==
  ASSUME StoreInv, WalkOK, NEW f \in Filter, NEW limit \in Nat, List(f, limit)
  PROVE  WalkOK'
<1> DEFINE W == [walk EXCEPT !.filter = f, !.limit = limit,
                             !.steady = {r.id : r \in Selected(f, {})}]
<1>1. {r.id : r \in Selected(f, {})} \subseteq Ids
  BY RowsOrdered DEF Selected
<1>2. /\ W \in Walk /\ W.filter = f /\ W.limit = limit
      /\ W.steady = {r.id : r \in Selected(f, {})}
      /\ W.seen = {} /\ W.count = 0
  <2>1. walk \in Walk /\ walk.seen = {} /\ walk.count = 0
    BY FS_EmptySet DEF List, WalkOK
  <2> QED
    BY <1>1, <2>1 DEF Walk
<1>3. FetchPage(W.filter, W.limit, {}, W) /\ UNCHANGED rows
  BY <1>2 DEF List
<1> HIDE DEF W
<1>4. IsFiniteSet(W.seen) /\ W.count = Cardinality(W.seen)
  BY <1>2, FS_EmptySet
<1>5. W.steady \subseteq Stored /\ \A r \in rows : r.id \in W.steady => Matches(W.filter, r)
  BY <1>2, RowsOrdered DEF Selected, Stored, Ordered
<1> QED
  BY <1>2, <1>3, <1>4, <1>5, PageInv

LEMMA ListOnInv ==
  ASSUME StoreInv, WalkOK, ListOn
  PROVE  WalkOK'
<1>1. PICK c \in Cursor :
        /\ walk.cursor = {c}
        /\ \A r \in rows : r.id \in walk.seen => ~Before(c, r)
        /\ \A r \in rows : r.id \in walk.steady /\ ~walk.cut => r.id \in walk.seen \/ Before(c, r)
  BY DEF ListOn, WalkOK
<1>2. /\ walk.cursor \in SUBSET Cursor
      /\ \A r \in rows : r.id \in walk.seen => \E d \in walk.cursor : ~Before(d, r)
      /\ \A r \in rows : r.id \in walk.steady /\ ~walk.cut =>
           r.id \in walk.seen \/ \A d \in walk.cursor : Before(d, r)
  BY <1>1
<1>3. walk.pc = "more" /\ UNCHANGED rows /\ FetchPage(walk.filter, walk.limit, walk.cursor, walk)
  BY DEF ListOn
<1>4. /\ walk \in Walk /\ IsFiniteSet(walk.seen) /\ walk.seen \subseteq Stored
      /\ walk.count = Cardinality(walk.seen) /\ walk.steady \subseteq Stored
      /\ \A r \in rows : r.id \in walk.steady => Matches(walk.filter, r)
  BY <1>3 DEF WalkOK
<1> QED
  BY <1>2, <1>3, <1>4, PageInv

\* Steps of others: rows are added with new ids, or change their status.
LEMMA OthersInv ==
  ASSUME StoreInv, WalkOK, Observe,
         \A r \in rows' : r.id \in Stored => \E o \in rows : o.id = r.id /\ o.at = r.at,
         Stored \subseteq Stored', StoreInv'
  PROVE  WalkOK'
<1> DEFINE kept == walk.steady \cap {r.id : r \in {o \in rows' : Matches(walk.filter, o)}}
<1>1. /\ walk' \in Walk /\ walk'.pc = walk.pc /\ walk'.filter = walk.filter
      /\ walk'.cursor = walk.cursor /\ walk'.seen = walk.seen /\ walk'.count = walk.count
      /\ walk'.steady = kept /\ walk'.cut = walk.cut
  BY DEF Observe, WalkOK, Walk
<1>2. kept \subseteq walk.steady /\ kept \subseteq Stored'
  BY DEF Stored
<1>3. \A r \in rows' : r.id \in kept => Matches(walk.filter, r)
  BY DEF StoreInv, RowsOK
<1> HIDE DEF kept
<1>4. ASSUME walk.pc = "more"
      PROVE  \E c \in Cursor :
               /\ walk'.cursor = {c}
               /\ \A r \in rows' : r.id \in walk'.seen => ~Before(c, r)
               /\ \A r \in rows' : r.id \in walk'.steady /\ ~walk'.cut =>
                    r.id \in walk'.seen \/ Before(c, r)
  <2>1. PICK c \in Cursor :
          /\ walk.cursor = {c}
          /\ \A r \in rows : r.id \in walk.seen => ~Before(c, r)
          /\ \A r \in rows : r.id \in walk.steady /\ ~walk.cut => r.id \in walk.seen \/ Before(c, r)
    BY <1>4 DEF WalkOK
  <2>2. ASSUME NEW r \in rows', r.id \in walk.seen \cup walk.steady
        PROVE  \E o \in rows : o.id = r.id /\ (Before(c, o) <=> Before(c, r))
    <3>1. r.id \in Stored
      BY <1>4, <2>2 DEF WalkOK
    <3> QED
      BY <3>1 DEF Before
  <2>3. ASSUME NEW r \in rows', r.id \in walk'.seen
        PROVE  ~Before(c, r)
    BY <1>1, <2>1, <2>2, <2>3
  <2>4. ASSUME NEW r \in rows', r.id \in walk'.steady, ~walk'.cut
        PROVE  r.id \in walk'.seen \/ Before(c, r)
    BY <1>1, <1>2, <2>1, <2>2, <2>4
  <2> QED
    BY <1>1, <2>1, <2>3, <2>4
<1> QED
  BY <1>1, <1>2, <1>3, <1>4 DEF WalkOK, Matches, Before

\* No step removes a row or changes its id or its creation time.
RowsKept ==
  /\ \A r \in rows' : r.id \in Stored => \E o \in rows : o.id = r.id /\ o.at = r.at
  /\ Stored \subseteq Stored'

LEMMA NewRowsKept ==
  ASSUME StoreInv, NEW q \in Requests, NEW S \in SUBSET request[q].items,
         rows' = rows \cup RowsOf(q, S)
  PROVE  RowsKept
<1>1. request[q].items \cap Stored = {}
  BY DEF StoreInv, RequestsOK
<1>2. \A r \in RowsOf(q, S) : r.id \in S
  BY DEF RowsOf
<1> QED
  BY <1>1, <1>2 DEF RowsKept, Stored

LEMMA StepKeepsRows ==
  ASSUME StoreInv, SubmissionStep \/ Move
  PROVE  RowsKept
<1>1. CASE UNCHANGED rows
  BY <1>1 DEF RowsKept, Stored
<1>2. ASSUME NEW q \in Requests, NEW n \in Ids, Insert(q, n)
      PROVE  RowsKept
  <2>1. {n} \in SUBSET request[q].items
    BY <1>2 DEF Insert, StoreInv, RequestsOK, RequestOK
  <2> QED
    BY <1>1, <1>2, <2>1, NewRowsKept DEF Insert
<1>3. ASSUME NEW q \in Requests, Commit(q)
      PROVE  RowsKept
  BY <1>3, NewRowsKept DEF Commit
<1>4. CASE Move
  <2>1. PICK n \in Stored, s \in Statuses : UpdateStatus(n, s)
    BY <1>4 DEF Move
  <2> DEFINE f == [r \in rows |-> IF r.id = n THEN [r EXCEPT !.status = s] ELSE r]
  <2>2. rows' = {f[r] : r \in rows}
    BY <2>1 DEF UpdateStatus
  <2>3. \A r \in rows : f[r].id = r.id /\ f[r].at = r.at
    BY DEF StoreInv, RowsOK, Row
  <2> HIDE DEF f
  <2> QED
    BY <2>2, <2>3 DEF RowsKept, Stored
<1>5. CASE SubmissionStep
  BY <1>1, <1>2, <1>3, <1>5 DEF SubmissionStep, TemplateRequest, CreateTemplate, UpdateTemplate,
     DeleteTemplate, Create, CreateBatch, Submit, Stamp, Abandon, Render
<1> QED
  BY <1>4, <1>5

LEMMA WalkInit == Init => WalkOK
<1> SUFFICES ASSUME Init
             PROVE  WalkOK
  OBVIOUS
<1>1. walk \in Walk
  BY DEF Init, ListingInit, Walk, Filter
<1> QED
  BY <1>1, FS_EmptySet DEF Init, ListingInit, WalkOK

LEMMA WalkNext ==
  ASSUME StoreInv, WalkOK, [Next]_vars
  PROVE  WalkOK'
<1>1. ASSUME SubmissionStep \/ Move, Observe
      PROVE  WalkOK'
  <2>1. StoreInv'
    BY <1>1, SubmissionInv, MoveInv
  <2> QED
    BY <1>1, <2>1, StepKeepsRows, OthersInv DEF RowsKept
<1>2. CASE ListingStep
  <2>1. ASSUME NEW f \in Filter, NEW l \in Limits, List(f, l)
        PROVE  WalkOK'
    BY <2>1, ListInv, ListingAssumption
  <2>2. ASSUME NEW b \in Batches, ListByBatch(b)
        PROVE  WalkOK'
    <3>1. [status |-> Unset, batch |-> b] \in Filter
      BY DEF Filter
    <3> QED
      BY <2>2, <3>1, ListInv, ListingAssumption DEF ListByBatch
  <2> QED
    BY <1>2, <2>1, <2>2, ListOnInv DEF ListingStep
<1>3. CASE UNCHANGED vars
  BY <1>3 DEF vars, WalkOK, Stored, Matches, Before
<1> QED
  BY <1>1, <1>2, <1>3 DEF Next

LEMMA WalkSafe == Spec => [](StoreInv /\ WalkOK)
<1>1. StoreInv /\ WalkOK /\ [Next]_vars => StoreInv' /\ WalkOK'
  BY StoreNext, WalkNext
<1> QED
  BY StoreInit, WalkInit, <1>1, PTL DEF Spec

\* Rows, templates, requests and the walk keep their types, and no id is used
\* for two rows.
THEOREM CatalogueTypeCorrect == Spec => []CatalogueTypeOK
<1>1. StoreInv /\ WalkOK => CatalogueTypeOK
  <2> SUFFICES ASSUME StoreInv, WalkOK
               PROVE  CatalogueTypeOK
    OBVIOUS
  <2>1. request \in [Requests -> RequestType]
    BY DEF StoreInv, RequestsOK, RequestOK
  <2> QED
    BY <2>1 DEF StoreInv, WalkOK, RowsOK, TemplatesOK, CatalogueTypeOK, SubmissionTypeOK, RequestType
<1> QED
  BY <1>1, WalkSafe, PTL

\* A client that follows the cursors to the end has been given every row that
\* matched during the whole walk, for every page size and however many rows
\* share a creation time.
THEOREM WalksAreComplete == Spec => []WalkIsComplete
<1>1. WalkOK => WalkIsComplete
  BY DEF WalkOK, WalkIsComplete
<1> QED
  BY <1>1, WalkSafe, PTL

\* No row is returned twice in one walk.
THEOREM NoRowComesTwice == Spec => []NoRowTwice
<1>1. WalkOK => NoRowTwice
  BY DEF WalkOK, NoRowTwice
<1> QED
  BY <1>1, WalkSafe, PTL

=============================================================================
