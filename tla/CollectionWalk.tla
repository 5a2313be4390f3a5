--------------------------- MODULE CollectionWalk ---------------------------
(***************************************************************************)
(* A client pages through a collection while rows come and go, by the      *)
(* links of the responses or with their cursors, and another one through   *)
(* GET /v1/documents.  A request is one query of the database: it takes    *)
(* one step.  The handler that reads the rows of a collection is not part  *)
(* of the repository yet; Pages is what its design asks for.               *)
(***************************************************************************)
EXTENDS CollectionQuery, FiniteSets

CONSTANTS Ids, Row,        \* what may be in the table: Row[id][field]
          Openings,        \* requests a client starts with
          Edits,           \* parameters it may change beside a cursor
          Documents,       \* ids of documents: numbers, in their order
          ListSizes,       \* page sizes of GET /v1/documents
          MaxChanges       \* bound: rows inserted and deleted

\* What a row is sorted by.  An inherited name is no column: where the database
\* does not refuse it (Respond), it tells no rows apart.
ValueOf(r, f) == IF f \in Sorts THEN Row[r][f] ELSE 0

\* The values of a sortable field are ordered like numbers, and a tie breaker
\* has no ties.  A client that opens a collection has no cursor of it yet.
ASSUME RowsAssumption ==
    /\ \A r \in Ids : \A f \in Sorts : Row[r][f] \in Nat
    /\ \A r, s \in Ids : Row[r][TieBreaker] = Row[s][TieBreaker] => r = s
    /\ \A F \in SUBSET SortFields, r \in Ids : [f \in F |-> ValueOf(r, f)] \notin {Absent, Reject}
ASSUME RequestsAssumption ==
    /\ \A p \in Openings :
         /\ SortKey \in DOMAIN p => p[SortKey] \in Seq(Tokens)
         /\ \A key \in {AfterKey, BeforeKey} \cap DOMAIN p : p[key] = Malformed
    /\ \A e \in Edits : e.key = SortKey => e.raw \in Seq(Tokens)
ASSUME ListAssumption ==
    /\ {Documents, ListSizes} \subseteq SUBSET (Nat \ {0})
    /\ MaxChanges \in Nat

VARIABLES
    table,     \* the rows there are
    status,    \* of the last response: 200, 422 or 500
    page,      \* the last page: its query, items and positions
    walking,   \* history: since it opened the collection the client took "next" only
    seen,      \* history: the rows of this walk
    stayed,    \* history: the rows that were there all the time
    changes,
    documents, \* the documents of the workspace
    listSize, listed, listDone, \* a walk over them: its page size, what it
                               \* returned, whether its client has seen the end
    present    \* history: the documents that were there when it began

collectionVars == <<status, page, walking, seen, stayed>>
documentVars == <<documents, listSize, listed, listDone, present>>
vars == <<table, collectionVars, changes, documentVars>>

-----------------------------------------------------------------------------
Position(r, sort) == [f \in FieldsOf(sort) |-> ValueOf(r, f)]

\* Whether a position comes before another in the order of a sort.
Precedes(u, v, sort) ==
    \E i \in DOMAIN sort :
      /\ \A j \in 1..(i - 1) : u[sort[j].field] = v[sort[j].field]
      /\ LET f == sort[i].field
         IN  IF sort[i].direction = "asc" THEN u[f] < v[f] ELSE u[f] > v[f]

Matching(q) ==
    {r \in table :
       /\ q.search # Absent => q.search \in Row[r].words
       /\ \A f \in DOMAIN q.filters :
            IF f \in EnumFilters THEN Row[r][f] = q.filters[f]
            ELSE /\ "gte" \in DOMAIN q.filters[f] => Row[r][f] >= q.filters[f].gte
                 /\ "lte" \in DOMAIN q.filters[f] => Row[r][f] <= q.filters[f].lte}

\* The handler's query: up to size rows past the cursor, nearest first for
\* after and last for before.  Which of two rows that the sort does not tell
\* apart comes first is the database's choice.
Pages(q) ==
    LET at(r) == Position(r, q.sort)
        past == {r \in Matching(q) :
                   /\ q.after # Absent => Precedes(q.after, at(r), q.sort)
                   /\ q.before # Absent => Precedes(at(r), q.before, q.sort)}
    IN  {items \in SeqOf(past, q.size) :
           /\ \A i, j \in DOMAIN items : i < j =>
                 items[i] # items[j] /\ ~Precedes(at(items[j]), at(items[i]), q.sort)
           /\ \A r \in past \ ToSet(items) :
                 /\ Len(items) = q.size
                 /\ IF q.before = Absent THEN ~Precedes(at(r), at(Last(items)), q.sort)
                    ELSE ~Precedes(at(Head(items)), at(r), q.sort)}

\* What the handler gives createCollectionResponse.
PageOf(q, items) ==
    LET at(r) == Position(r, q.sort)
        others == Matching(q) \ ToSet(items)
        full == items # <<>>
    IN  [query |-> q, items |-> items,
         hasNextPage |-> full /\ \E r \in others : ~Precedes(at(r), at(Last(items)), q.sort),
         hasPreviousPage |-> full /\ \E r \in others : ~Precedes(at(Head(items)), at(r), q.sort),
         startPosition |-> IF full THEN at(Head(items)) ELSE Absent,
         endPosition |-> IF full THEN at(Last(items)) ELSE Absent]

\* listDocuments: ids in ascending order from the cursor on, which is skipped.
DocumentPages_NoSkip(after, size) ==
    {items \in SeqOf({d \in documents : d >= after}, size) :
       /\ \A i, j \in DOMAIN items : i < j => items[i] < items[j]
       /\ \A d \in documents \ ToSet(items) :
             d >= after => Len(items) = size /\ Last(items) < d}
DocumentPages(after, size) ==
    {items \in SeqOf({d \in documents : d > after}, size) :
       /\ \A i, j \in DOMAIN items : i < j => items[i] < items[j]
       /\ \A d \in documents \ ToSet(items) :
             d > after => Len(items) = size /\ Last(items) < d}

-----------------------------------------------------------------------------
NoPage == [query |-> Absent, items |-> <<>>, hasNextPage |-> FALSE,
           hasPreviousPage |-> FALSE, startPosition |-> Absent, endPosition |-> Absent]

Init ==
    /\ table \in SUBSET Ids
    /\ status = 200 /\ page = NoPage
    /\ walking = FALSE /\ seen = <<>> /\ stayed = {}
    /\ changes = 0
    /\ documents \in SUBSET Documents
    /\ listSize = 0 /\ listed = <<>> /\ listDone = TRUE /\ present = {}

\* What the macro and the handler answer: 422, a page, or 500 if the handler's
\* query fails.
Respond(p) ==
    LET q == Parse(p)
    IN  \/ q = Reject /\ status' = 422 /\ UNCHANGED page
        \/ q # Reject /\ status' = 200 /\ \E items \in Pages(q) : page' = PageOf(q, items)
        \/ q # Reject /\ status' = 500 /\ UNCHANGED page

Open(p) ==
    /\ Respond(p)
    /\ walking' = (status' = 200)
    /\ seen' = IF status' = 200 THEN page'.items ELSE <<>>
    /\ stayed' = IF status' = 200 THEN Matching(page'.query) ELSE {}
    /\ UNCHANGED <<table, changes, documentVars>>

FollowNext ==
    LET p == NextLink(page.query, page)
    IN  /\ p # Absent
        /\ Respond(p)
        /\ walking' = (walking /\ status' = 200)
        /\ seen' = IF walking' THEN seen \o page'.items ELSE <<>>
        /\ UNCHANGED <<table, stayed, changes, documentVars>>

Leave(p) ==
    /\ Respond(p)
    /\ walking' = FALSE /\ seen' = <<>> /\ stayed' = {}
    /\ UNCHANGED <<table, changes, documentVars>>

FollowPrev ==
    LET p == PrevLink(page.query, page) IN p # Absent /\ Leave(p)

\* The client takes a cursor of the last page's metadata, and the parameters
\* of that page, of which it may change one.
UseCursor(cursorKey, key, raw) ==
    LET position == IF cursorKey = AfterKey THEN page.endPosition ELSE page.startPosition
        self == SelfLink(page.query)
        kept == [k \in (DOMAIN self \cup {key}) \ {AfterKey, BeforeKey} |->
                   IF k = key THEN raw ELSE self[k]]
    IN  /\ position # Absent
        /\ Leave([k \in DOMAIN kept \cup {cursorKey} |->
                    IF k = cursorKey THEN CreateCursor(page.query, position) ELSE kept[k]])

\* Other requests and jobs change the table.
Change(r) ==
    /\ changes < MaxChanges
    /\ changes' = changes + 1
    /\ \/ r \notin table /\ table' = table \cup {r} /\ UNCHANGED stayed
       \/ r \in table /\ table' = table \ {r} /\ stayed' = stayed \ {r}
    /\ UNCHANGED <<status, page, walking, seen, documentVars>>

\* The documents' client starts without a cursor and then gives the id of the
\* last document it got, until a page is not full.  Documents are not deleted.
ListFirst(size) ==
    /\ listSize' = size
    /\ listed' \in DocumentPages(0, size)
    /\ listDone' = (Len(listed') < size)
    /\ present' = documents
    /\ UNCHANGED <<table, collectionVars, changes, documents>>

ListNext ==
    /\ ~listDone
    /\ \E items \in DocumentPages(Last(listed), listSize) :
         listed' = listed \o items /\ listDone' = (Len(items) < listSize)
    /\ UNCHANGED <<table, collectionVars, changes, documents, listSize, present>>

CreateDocument(d) ==
    /\ d \notin documents /\ changes < MaxChanges
    /\ documents' = documents \cup {d}
    /\ changes' = changes + 1
    /\ UNCHANGED <<table, collectionVars, listSize, listed, listDone, present>>

Next ==
    \/ \E p \in Openings : Open(p)
    \/ FollowNext
    \/ FollowPrev
    \/ \E cursorKey \in {AfterKey, BeforeKey}, e \in Edits : UseCursor(cursorKey, e.key, e.raw)
    \/ \E r \in Ids : Change(r)
    \/ \E size \in ListSizes : ListFirst(size)
    \/ ListNext
    \/ \E d \in Documents : CreateDocument(d)

Spec == Init /\ [][Next]_vars

-----------------------------------------------------------------------------
\* The values the variables may take.
TypeOK ==
    /\ table \subseteq Ids /\ stayed \subseteq table
    /\ status \in {200, 422, 500} /\ walking \in BOOLEAN
    /\ ToSet(page.items) \cup ToSet(seen) \subseteq Ids
    /\ page.query = Absent \/ page.query.size \in 1..MaxSize
    /\ changes \in 0..MaxChanges
    /\ present \subseteq documents /\ ToSet(listed) \subseteq documents

\* A walk by "next" returns rows in the order of its sort and none twice, and
\* no row that was there all the time is left out between the rows it
\* returned, whatever is inserted and deleted meanwhile: sorting by a field
\* whose values repeat needs the tie breaker parseSort appends.
WalkMissesNothing ==
    walking =>
      LET sort == page.query.sort
          at(r) == Position(r, sort)
      IN  /\ \A i, j \in DOMAIN seen : i < j => Precedes(at(seen[i]), at(seen[j]), sort)
          /\ \A r \in stayed \ ToSet(seen) :
                page.hasNextPage /\ Precedes(page.endPosition, at(r), sort)

\* A cursor is accepted only beside the sort, the filters and the search of
\* the page it came from, however they are spelled; the size is free.
CursorsKeepTheirQuery ==
    [][\A cursorKey \in {AfterKey, BeforeKey}, e \in Edits :
         UseCursor(cursorKey, e.key, e.raw) /\ status' = 200 =>
           /\ page'.query.sort = page.query.sort
           /\ page'.query.filters = page.query.filters
           /\ page'.query.search = page.query.search]_vars

\* "self" yields the page's query again; "next" and "prev" of a page that
\* was not asked for in the other direction yield it with the cursor of the
\* page's end or start and nothing else changed (createCollectionResponse).
LinksKeepTheQuery ==
    page.query # Absent =>
      LET q == page.query
      IN  /\ Parse(SelfLink(q)) = q
          /\ page.hasNextPage /\ q.before = Absent =>
                Parse(NextLink(q, page)) = [q EXCEPT !.after = page.endPosition]
          /\ page.hasPreviousPage /\ q.after = Absent =>
                Parse(PrevLink(q, page)) = [q EXCEPT !.before = page.startPosition]

\* The design promises links in which "only the cursor changes".  The code
\* does not keep it: a page reached by one cursor has a link with both, which
\* parse refuses.
LinksAreUsable ==
    page.query # Absent =>
      /\ page.hasNextPage => Parse(NextLink(page.query, page)) # Reject
      /\ page.hasPreviousPage => Parse(PrevLink(page.query, page)) # Reject

\* The design answers 422 to unknown sort fields.  The code does not keep it:
\* names like "toString" are "in" the object of the declared sorts.
SortsAreDeclared == page.query # Absent => FieldsOf(page.query.sort) \subseteq Sorts

\* A client that pages through GET /v1/documents gets documents in the order
\* of their ids, none twice, and in the end every one that was there when it
\* began, although others are created meanwhile.
ListingMissesNothing ==
    /\ \A i, j \in DOMAIN listed : i < j => listed[i] < listed[j]
    /\ listDone => present \subseteq ToSet(listed)

-----------------------------------------------------------------------------
(* The inductive invariant. *)

\* What parse makes of filters, and of a query.
FiltersOK(filters) ==
    /\ filters = [f \in DOMAIN filters |-> filters[f]]
    /\ \A f \in DOMAIN filters :
         \/ f \in EnumFilters /\ filters[f] \in EnumValues[f]
         \/ /\ f \in RangeFilters
            /\ DOMAIN filters[f] \in {{"gte"}, {"lte"}, {"gte", "lte"}}
            /\ filters[f] = [bound \in DOMAIN filters[f] |-> filters[f][bound]]
            /\ \A bound \in DOMAIN filters[f] : filters[f][bound] \notin {NoInstant, Reject}

SortOK(sort) ==
    /\ sort \in Seq(Tokens)
    /\ FieldsOf(sort) \subseteq SortFields /\ TieBreaker \in FieldsOf(sort)
    /\ \A i, j \in DOMAIN sort : i < j => sort[i].field # sort[j].field

QueryOK(q) ==
    /\ q = [size |-> q.size, sort |-> q.sort, filters |-> q.filters, search |-> q.search,
            after |-> q.after, before |-> q.before]
    /\ q.size # Reject /\ q.sort # Reject /\ q.filters # Reject
    /\ q.search # Reject /\ q.after # Reject /\ q.before # Reject
    /\ q.size \in 1..MaxSize /\ SortOK(q.sort) /\ FiltersOK(q.filters)
    /\ q.search # Absent => Searchable /\ q.search # ""
    /\ q.after = Absent \/ q.before = Absent

\* A page has a query of parse, and the positions of its own rows.
PageOK(p) ==
    /\ QueryOK(p.query)
    /\ p.items \in Seq(Ids)
    /\ {p.hasNextPage, p.hasPreviousPage} \subseteq {p.items # <<>>, FALSE}
    /\ p.startPosition = IF p.items = <<>> THEN Absent ELSE Position(Head(p.items), p.query.sort)
    /\ p.endPosition = IF p.items = <<>> THEN Absent ELSE Position(Last(p.items), p.query.sort)

PageKnown == page = NoPage \/ PageOK(page)

\* A walk goes forward, and its last row is that of the last page.
WalkKnown ==
    walking =>
      /\ PageOK(page) /\ page.query.before = Absent
      /\ seen \in Seq(Ids)
      /\ page.items # <<>> => seen # <<>> /\ Last(seen) = Last(page.items)
      /\ stayed \subseteq Matching(page.query)

\* The documents a listing still owes its client come after what it returned.
ListKnown ==
    /\ documents \subseteq Documents /\ listed \in Seq(Documents)
    /\ ~listDone => listSize \in ListSizes /\ listed # <<>>
    /\ \A d \in present \ ToSet(listed) : ~listDone /\ Last(listed) < d

\* The inductive invariant of the clients: a page's query is one parse yields
\* and serialize writes (definition.ts), and walks and listings owe what
\* comes after their last row (response.ts).
IInv ==
    /\ TypeOK
    /\ PageKnown
    /\ WalkKnown
    /\ WalkMissesNothing
    /\ ListKnown
    /\ ListingMissesNothing
=============================================================================
