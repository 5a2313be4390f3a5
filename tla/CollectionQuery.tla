-------------------------- MODULE CollectionQuery --------------------------
(***************************************************************************)
(* What defineCollection makes of the parameters of a URL, and the links   *)
(* createCollectionResponse makes of a query.  Parameters are a function   *)
(* from keys to raw values: numbers, sequences of sort tokens, strings,    *)
(* dates as they are spelled, texts with or without spaces around them,    *)
(* and cursors.  Nothing here has state; CollectionWalk has the clients.   *)
(***************************************************************************)
EXTENDS Naturals, Sequences, SequencesExt

CONSTANTS DefaultSize, MaxSize,      \* page
          Sorts, DefaultSort, TieBreaker,
          Inherited,                 \* names every object has: "toString"
          EnumValues,                \* the values of each enum filter
          RangeFilters,              \* the names of the date-range filters
          Searchable,                \* whether q is supported
          Absent, Reject,            \* undefined; a thrown error
          NoInstant                  \* of a text that is no date

SizeKey == <<"page[size]">>
SortKey == <<"sort">>
AfterKey == <<"page[after]">>
BeforeKey == <<"page[before]">>
SearchKey == <<"q">>
EnumFilters == DOMAIN EnumValues
EnumKeys == {<<"filter", f>> : f \in EnumFilters}
RangeKeys == {<<"filter", f, bound>> : f \in RangeFilters, bound \in {"gte", "lte"}}
KnownKeys == {SizeKey, SortKey, AfterKey, BeforeKey} \cup EnumKeys \cup RangeKeys
             \cup (IF Searchable THEN {SearchKey} ELSE {})

Param(p, key, default) == IF key \in DOMAIN p THEN p[key] ELSE default

-----------------------------------------------------------------------------
\* The parts of parse.  Each yields Reject where the code throws.

ParsePageSize_NoMaximum(raw) ==
    IF raw \in Nat \ {0} THEN raw ELSE Reject
ParsePageSize(raw) == IF raw \in 1..MaxSize THEN raw ELSE Reject

Token(field, direction) == [field |-> field, direction |-> direction]
FieldsOf(sort) == {token.field : token \in ToSet(sort)}

\* The names that are "in" the declared sorts, an object: those it inherits too.
SortFields == Sorts \cup Inherited

\* Fields are such names and not repeated.  The tie breaker comes last where
\* the client does not name it.
ParseSort_NoTieBreaker(source) == IF FieldsOf(source) \ SortFields # {} THEN Reject ELSE source
ParseSort(source) ==
    IF \/ FieldsOf(source) \ SortFields # {}
       \/ \E i, j \in DOMAIN source : i < j /\ source[i].field = source[j].field
    THEN Reject
    ELSE IF TieBreaker \in FieldsOf(source) THEN source
    ELSE Append(source, Token(TieBreaker, "asc"))

\* The configurations defineCollection accepts.
AssertCollectionConfig ==
    /\ MaxSize \in Nat /\ DefaultSize \in 1..MaxSize
    /\ TieBreaker \in SortFields
    /\ ParseSort(DefaultSort) # Reject
ASSUME ConfigAssumption == AssertCollectionConfig

\* Sorts and tie breaker as TypeScript types them, and filters of one kind each.
Tokens == [field : STRING, direction : {"asc", "desc"}]
ASSUME TypesAssumption ==
    /\ SortFields \subseteq STRING /\ TieBreaker \in Sorts /\ DefaultSort \in Seq(Tokens)
    /\ EnumFilters \cap RangeFilters = {}

ParseDate(raw) == IF raw.instant = NoInstant THEN Reject ELSE raw.instant

Bounds(p, f) == {bound \in {"gte", "lte"} : <<"filter", f, bound>> \in DOMAIN p}

\* A filter nothing was given for is no member of the result.
ParseFilters(p) ==
    IF \/ \E f \in EnumFilters :
            <<"filter", f>> \in DOMAIN p /\ p[<<"filter", f>>] \notin EnumValues[f]
       \/ \E key \in RangeKeys \cap DOMAIN p : ParseDate(p[key]) = Reject
    THEN Reject
    ELSE [f \in {f \in EnumFilters : <<"filter", f>> \in DOMAIN p}
               \cup {f \in RangeFilters : Bounds(p, f) # {}} |->
            IF f \in EnumFilters THEN p[<<"filter", f>>]
            ELSE [bound \in Bounds(p, f) |-> ParseDate(p[<<"filter", f, bound>>])]]

\* Blank texts are refused, spaces around a text dropped.
ParseSearch(p) ==
    IF SearchKey \notin DOMAIN p THEN Absent
    ELSE IF ~Searchable \/ p[SearchKey].text = "" THEN Reject
    ELSE p[SearchKey].text

\* SHA-256 of the stably serialized query, taken to be injective.
Fingerprint_Searchless(sort, filters, search) == [sort |-> sort, filters |-> filters]
Fingerprint(sort, filters, search) ==
    [sort |-> sort, filters |-> filters, search |-> search]

EncodeCursor(position, fingerprint) ==
    [position |-> position, fingerprint |-> fingerprint]

\* A text that is no cursor has no fingerprint (isCursorPayload).
Malformed == <<>>
DecodeCursor(p, key, fingerprint) ==
    IF key \notin DOMAIN p THEN Absent
    ELSE IF "fingerprint" \notin DOMAIN p[key] \/ p[key].fingerprint # fingerprint THEN Reject
    ELSE p[key].position

Parse(p) ==
    LET size == ParsePageSize(Param(p, SizeKey, DefaultSize))
        sort == ParseSort(Param(p, SortKey, DefaultSort))
        filters == ParseFilters(p)
        search == ParseSearch(p)
        fingerprint == Fingerprint(sort, filters, search)
        after == DecodeCursor(p, AfterKey, fingerprint)
        before == DecodeCursor(p, BeforeKey, fingerprint)
    IN  IF \/ ~(DOMAIN p \subseteq KnownKeys)
           \/ size = Reject \/ sort = Reject \/ filters = Reject \/ search = Reject
           \/ {AfterKey, BeforeKey} \subseteq DOMAIN p
           \/ after = Reject \/ before = Reject
        THEN Reject
        ELSE [size |-> size, sort |-> sort, filters |-> filters, search |-> search,
              after |-> after, before |-> before]

-----------------------------------------------------------------------------
Contract_Unfiltered(q) == Fingerprint(q.sort, Absent, q.search)
Contract(q) == Fingerprint(q.sort, q.filters, q.search)
CreateCursor(q, position) == EncodeCursor(position, Contract(q))

\* The parameters serialize writes: the size and the sort always, the rest
\* where the query has it, dates in one spelling.
Serialize(q) ==
    LET enums == {<<"filter", f>> : f \in EnumFilters \cap DOMAIN q.filters}
        dates == {key \in RangeKeys : /\ key[2] \in DOMAIN q.filters
                                      /\ key[3] \in DOMAIN q.filters[key[2]]}
        rest == {key \in {SearchKey, AfterKey, BeforeKey} :
                   CASE key = SearchKey -> q.search # Absent
                     [] key = AfterKey  -> q.after # Absent
                     [] key = BeforeKey -> q.before # Absent}
    IN  [key \in {SizeKey, SortKey} \cup enums \cup dates \cup rest |->
           CASE key = SizeKey   -> q.size
             [] key = SortKey   -> q.sort
             [] key \in enums   -> q.filters[key[2]]
             [] key \in dates   -> [instant |-> q.filters[key[2]][key[3]], form |-> "iso"]
             [] key = SearchKey -> [text |-> q.search, padded |-> FALSE]
             [] key = AfterKey  -> CreateCursor(q, q.after)
             [] key = BeforeKey -> CreateCursor(q, q.before)]

\* The links of a page: the query's own, and the query's with one more cursor.
SelfLink(q) == Serialize(q)
NextLink(q, page) == IF page.hasNextPage THEN Serialize([q EXCEPT !.after = page.endPosition])
                     ELSE Absent
PrevLink(q, page) == IF page.hasPreviousPage
                     THEN Serialize([q EXCEPT !.before = page.startPosition])
                     ELSE Absent
=============================================================================
