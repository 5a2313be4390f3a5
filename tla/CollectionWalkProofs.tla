------------------------ MODULE CollectionWalkProofs ------------------------
(***************************************************************************)
(* Proofs about the queries, links and cursors of CollectionWalk, and what *)
(* their walks return, for every configuration of a collection, every      *)
(* table and every request.                                                *)
(***************************************************************************)
EXTENDS CollectionWalk, WellFoundedInduction, TLAPS

-----------------------------------------------------------------------------
(* Queries: what parse yields, serialize writes and parse reads again. *)

\* The keys of a URL are told apart.
LEMMA KeysDiffer ==
    /\ SizeKey # SortKey /\ SizeKey # AfterKey /\ SizeKey # BeforeKey /\ SizeKey # SearchKey
    /\ SortKey # AfterKey /\ SortKey # BeforeKey /\ SortKey # SearchKey
    /\ AfterKey # BeforeKey /\ AfterKey # SearchKey /\ BeforeKey # SearchKey
    /\ EnumKeys \cap {SizeKey, SortKey, AfterKey, BeforeKey, SearchKey} = {}
    /\ RangeKeys \cap {SizeKey, SortKey, AfterKey, BeforeKey, SearchKey} = {}
    /\ EnumKeys \cap RangeKeys = {}
    /\ \A f, g : <<"filter", f>> = <<"filter", g>> => f = g
    /\ \A f, g, b, c : <<"filter", f, b>> = <<"filter", g, c>> => f = g /\ b = c
  <1>1. \A f, g, b : <<f, g, b>> # <<f, g>>
    OBVIOUS
  <1> QED
    BY DEF SizeKey, SortKey, AfterKey, BeforeKey, SearchKey, EnumKeys, RangeKeys

\* The tie breaker and every token are told apart by their fields.
LEMMA SortParsed ==
    ASSUME NEW source \in Seq(Tokens), ParseSort(source) # Reject
    PROVE  SortOK(ParseSort(source))
  <1> DEFINE sort == Append(source, Token(TieBreaker, "asc"))
  <1>1. /\ FieldsOf(source) \subseteq SortFields
        /\ \A i, j \in DOMAIN source : i < j => source[i].field # source[j].field
    BY DEF ParseSort
  <1>2. CASE TieBreaker \in FieldsOf(source)
    BY <1>1, <1>2 DEF ParseSort, SortOK
  <1>3. CASE TieBreaker \notin FieldsOf(source)
    <2>1. Token(TieBreaker, "asc") \in Tokens /\ TieBreaker \in SortFields
      BY ConfigAssumption, TypesAssumption DEF AssertCollectionConfig, Token, Tokens
    <2>2. /\ sort \in Seq(Tokens) /\ Len(sort) = Len(source) + 1
          /\ sort[Len(source) + 1] = Token(TieBreaker, "asc")
          /\ \A i \in 1..Len(source) : sort[i] = source[i]
      BY <2>1
    <2>3. DOMAIN sort = 1..(Len(source) + 1) /\ DOMAIN source = 1..Len(source)
      BY <2>2
    <2>4. FieldsOf(sort) = FieldsOf(source) \cup {TieBreaker}
      BY <2>2, <2>3 DEF FieldsOf, ToSet, Token
    <2>5. \A i, j \in DOMAIN sort : i < j => sort[i].field # sort[j].field
      <3> SUFFICES ASSUME NEW i \in DOMAIN sort, NEW j \in DOMAIN sort, i < j
                   PROVE  sort[i].field # sort[j].field
        OBVIOUS
      <3>1. i \in DOMAIN source /\ sort[i] = source[i]
        BY <2>2, <2>3
      <3>2. CASE j = Len(source) + 1
        <4>1. sort[i].field \in FieldsOf(source)
          BY <3>1 DEF FieldsOf, ToSet
        <4>2. sort[j].field = TieBreaker
          BY <2>2, <3>2 DEF Token
        <4> QED
          BY <4>1, <4>2, <1>3
      <3>3. CASE j # Len(source) + 1
        <4>1. j \in DOMAIN source /\ sort[j] = source[j]
          BY <2>2, <2>3, <3>3
        <4> QED
          BY <3>1, <4>1, <1>1
      <3> QED
        BY <3>2, <3>3
    <2>6. ParseSort(source) = sort
      BY <1>1, <1>3 DEF ParseSort
    <2> HIDE DEF sort
    <2> QED
      BY <2>1, <2>2, <2>4, <2>5, <2>6, <1>1 DEF SortOK
  <1> QED
    BY <1>2, <1>3

\* A sort of parse is one parse leaves alone.
LEMMA SortKept ==
    ASSUME NEW sort, SortOK(sort)
    PROVE  ParseSort(sort) = sort
  BY DEF SortOK, ParseSort

\* What parseFilters accepts has the declared filters and their kinds of values.
LEMMA FiltersParsed ==
    ASSUME NEW p, ParseFilters(p) # Reject
    PROVE  FiltersOK(ParseFilters(p))
  <1> DEFINE names == {f \in EnumFilters : <<"filter", f>> \in DOMAIN p}
                      \cup {f \in RangeFilters : Bounds(p, f) # {}}
             filters == [f \in names |->
                           IF f \in EnumFilters THEN p[<<"filter", f>>]
                           ELSE [bound \in Bounds(p, f) |-> ParseDate(p[<<"filter", f, bound>>])]]
  <1>1. /\ \A f \in EnumFilters : <<"filter", f>> \in DOMAIN p => p[<<"filter", f>>] \in EnumValues[f]
        /\ \A key \in RangeKeys \cap DOMAIN p : ParseDate(p[key]) # Reject
        /\ ParseFilters(p) = filters
    BY DEF ParseFilters
  <1>2. ASSUME NEW f \in names, f \in EnumFilters PROVE filters[f] \in EnumValues[f]
    BY <1>1, <1>2, TypesAssumption
  <1>3. ASSUME NEW f \in names, f \notin EnumFilters
        PROVE  /\ f \in RangeFilters
               /\ DOMAIN filters[f] \in {{"gte"}, {"lte"}, {"gte", "lte"}}
               /\ filters[f] = [bound \in DOMAIN filters[f] |-> filters[f][bound]]
               /\ \A bound \in DOMAIN filters[f] : filters[f][bound] \notin {NoInstant, Reject}
    <2>1. f \in RangeFilters /\ Bounds(p, f) # {}
      BY <1>3
    <2>2. filters[f] = [bound \in Bounds(p, f) |-> ParseDate(p[<<"filter", f, bound>>])]
      BY <1>3
    <2>3. Bounds(p, f) \in {{"gte"}, {"lte"}, {"gte", "lte"}}
      BY <2>1 DEF Bounds
    <2>4. ASSUME NEW bound \in Bounds(p, f)
          PROVE  ParseDate(p[<<"filter", f, bound>>]) \notin {NoInstant, Reject}
      <3>1. <<"filter", f, bound>> \in RangeKeys \cap DOMAIN p
        BY <2>1 DEF Bounds, RangeKeys
      <3>2. ParseDate(p[<<"filter", f, bound>>]) # Reject
        BY <3>1, <1>1
      <3> QED
        BY <3>2 DEF ParseDate
    <2> HIDE DEF filters
    <2> QED
      BY <2>1, <2>2, <2>3, <2>4
  <1>4. DOMAIN filters = names /\ filters = [f \in DOMAIN filters |-> filters[f]]
    OBVIOUS
  <1> HIDE DEF filters, names
  <1> QED
    BY <1>1, <1>2, <1>3, <1>4 DEF FiltersOK

\* What parse accepts.
LEMMA QueryParsed ==
    ASSUME NEW p, SortKey \in DOMAIN p => p[SortKey] \in Seq(Tokens), Parse(p) # Reject
    PROVE  /\ QueryOK(Parse(p))
           /\ DOMAIN p \subseteq KnownKeys
           /\ AfterKey \notin DOMAIN p => Parse(p).after = Absent
           /\ BeforeKey \notin DOMAIN p => Parse(p).before = Absent
  <1> DEFINE size == ParsePageSize(Param(p, SizeKey, DefaultSize))
             sort == ParseSort(Param(p, SortKey, DefaultSort))
             filters == ParseFilters(p)
             search == ParseSearch(p)
             fingerprint == Fingerprint(sort, filters, search)
             after == DecodeCursor(p, AfterKey, fingerprint)
             before == DecodeCursor(p, BeforeKey, fingerprint)
  <1>1. /\ DOMAIN p \subseteq KnownKeys
        /\ size # Reject /\ sort # Reject /\ filters # Reject /\ search # Reject
        /\ ~({AfterKey, BeforeKey} \subseteq DOMAIN p)
        /\ after # Reject /\ before # Reject
        /\ Parse(p) = [size |-> size, sort |-> sort, filters |-> filters, search |-> search,
                       after |-> after, before |-> before]
    BY DEF Parse
  <1>2. size \in 1..MaxSize
    BY <1>1 DEF ParsePageSize
  <1>3. SortOK(sort)
    BY <1>1, SortParsed, TypesAssumption DEF Param
  <1>4. FiltersOK(filters)
    BY <1>1, FiltersParsed
  <1>5. search # Absent => Searchable /\ search # ""
    BY <1>1 DEF ParseSearch
  <1>6. /\ AfterKey \notin DOMAIN p => after = Absent
        /\ BeforeKey \notin DOMAIN p => before = Absent
    BY DEF DecodeCursor
  <1>7. after = Absent \/ before = Absent
    BY <1>1, <1>6
  <1> HIDE DEF size, sort, filters, search, after, before
  <1>8. /\ Parse(p).size = size /\ Parse(p).sort = sort /\ Parse(p).filters = filters
        /\ Parse(p).search = search /\ Parse(p).after = after /\ Parse(p).before = before
    BY <1>1
  <1>9. Parse(p) = [size |-> Parse(p).size, sort |-> Parse(p).sort,
                    filters |-> Parse(p).filters, search |-> Parse(p).search,
                    after |-> Parse(p).after, before |-> Parse(p).before]
    BY <1>1, <1>8
  <1>10. QueryOK(Parse(p))
    BY <1>1, <1>2, <1>3, <1>4, <1>5, <1>7, <1>8, <1>9 DEF QueryOK
  <1> QED
    BY <1>1, <1>6, <1>8, <1>10

\* What serialize writes.
LEMMA Serialized ==
    ASSUME NEW q, QueryOK(q)
    PROVE  /\ SizeKey \in DOMAIN Serialize(q) /\ Serialize(q)[SizeKey] = q.size
           /\ SortKey \in DOMAIN Serialize(q) /\ Serialize(q)[SortKey] = q.sort
           /\ \A f \in EnumFilters :
                /\ <<"filter", f>> \in DOMAIN Serialize(q) <=> f \in DOMAIN q.filters
                /\ f \in DOMAIN q.filters => Serialize(q)[<<"filter", f>>] = q.filters[f]
           /\ \A f \in RangeFilters, bound \in {"gte", "lte"} :
                /\ <<"filter", f, bound>> \in DOMAIN Serialize(q)
                     <=> f \in DOMAIN q.filters /\ bound \in DOMAIN q.filters[f]
                /\ f \in DOMAIN q.filters /\ bound \in DOMAIN q.filters[f] =>
                     Serialize(q)[<<"filter", f, bound>>].instant = q.filters[f][bound]
           /\ SearchKey \in DOMAIN Serialize(q) <=> q.search # Absent
           /\ q.search # Absent => Serialize(q)[SearchKey].text = q.search
           /\ AfterKey \in DOMAIN Serialize(q) <=> q.after # Absent
           /\ q.after # Absent => Serialize(q)[AfterKey] = CreateCursor(q, q.after)
           /\ BeforeKey \in DOMAIN Serialize(q) <=> q.before # Absent
           /\ q.before # Absent => Serialize(q)[BeforeKey] = CreateCursor(q, q.before)
           /\ DOMAIN Serialize(q) \subseteq KnownKeys
  <1> DEFINE enums == {<<"filter", f>> : f \in EnumFilters \cap DOMAIN q.filters}
             dates == {key \in RangeKeys : /\ key[2] \in DOMAIN q.filters
                                           /\ key[3] \in DOMAIN q.filters[key[2]]}
             rest == {key \in {SearchKey, AfterKey, BeforeKey} :
                        CASE key = SearchKey -> q.search # Absent
                          [] key = AfterKey  -> q.after # Absent
                          [] key = BeforeKey -> q.before # Absent}
             keys == {SizeKey, SortKey} \cup enums \cup dates \cup rest
             value(key) == CASE key = SizeKey   -> q.size
                             [] key = SortKey   -> q.sort
                             [] key \in enums   -> q.filters[key[2]]
                             [] key \in dates   -> [instant |-> q.filters[key[2]][key[3]], form |-> "iso"]
                             [] key = SearchKey -> [text |-> q.search, padded |-> FALSE]
                             [] key = AfterKey  -> CreateCursor(q, q.after)
                             [] key = BeforeKey -> CreateCursor(q, q.before)
             url == [key \in keys |-> value(key)]
  <1>1. Serialize(q) = url
    BY DEF Serialize
  <1>2. DOMAIN url = keys /\ \A key \in keys : url[key] = value(key)
    OBVIOUS
  <1>3. enums \subseteq EnumKeys /\ dates \subseteq RangeKeys
    BY DEF EnumKeys
  <1>4. /\ SearchKey \in rest <=> q.search # Absent
        /\ AfterKey \in rest <=> q.after # Absent
        /\ BeforeKey \in rest <=> q.before # Absent
        /\ rest \subseteq {SearchKey, AfterKey, BeforeKey}
    BY KeysDiffer
  <1>5. \A f : <<"filter", f>> \in enums <=> f \in EnumFilters \cap DOMAIN q.filters
    BY KeysDiffer
  <1>6. \A f \in RangeFilters, bound \in {"gte", "lte"} :
          /\ <<"filter", f, bound>> \in RangeKeys
          /\ <<"filter", f, bound>> \in dates
               <=> f \in DOMAIN q.filters /\ bound \in DOMAIN q.filters[f]
    BY DEF RangeKeys
  <1>7. \A f \in EnumFilters : <<"filter", f>> \in EnumKeys
    BY DEF EnumKeys
  <1>8. value(SizeKey) = q.size /\ value(SortKey) = q.sort
    BY <1>3, KeysDiffer
  <1>9. \A key \in enums : value(key) = q.filters[key[2]]
    BY <1>3, KeysDiffer
  <1>10. \A key \in dates : value(key).instant = q.filters[key[2]][key[3]]
    BY <1>3, KeysDiffer
  <1>11. /\ value(SearchKey).text = q.search
         /\ value(AfterKey) = CreateCursor(q, q.after)
         /\ value(BeforeKey) = CreateCursor(q, q.before)
    BY <1>3, KeysDiffer
  <1>12. SearchKey \in rest => SearchKey \in KnownKeys
    BY <1>4 DEF QueryOK, KnownKeys
  <1>13. keys \subseteq KnownKeys
    BY <1>3, <1>4, <1>12 DEF KnownKeys
  <1> HIDE DEF enums, dates, rest, value
  <1>14. /\ SizeKey \in keys /\ SortKey \in keys
         /\ \A f \in EnumFilters : <<"filter", f>> \in keys <=> f \in DOMAIN q.filters
         /\ SearchKey \in keys <=> q.search # Absent
         /\ AfterKey \in keys <=> q.after # Absent
         /\ BeforeKey \in keys <=> q.before # Absent
    BY <1>3, <1>4, <1>5, <1>7, KeysDiffer
  <1>15. \A f \in RangeFilters, bound \in {"gte", "lte"} :
           <<"filter", f, bound>> \in keys <=> f \in DOMAIN q.filters /\ bound \in DOMAIN q.filters[f]
    <2>1. \A key \in RangeKeys : key \in keys <=> key \in dates
      BY <1>3, <1>4, KeysDiffer
    <2> QED
      BY <2>1, <1>6
  <1>16. /\ \A f \in EnumFilters \cap DOMAIN q.filters : value(<<"filter", f>>) = q.filters[f]
         /\ \A f \in RangeFilters, bound \in {"gte", "lte"} :
              f \in DOMAIN q.filters /\ bound \in DOMAIN q.filters[f] =>
                value(<<"filter", f, bound>>).instant = q.filters[f][bound]
    BY <1>5, <1>6, <1>9, <1>10
  <1> HIDE DEF keys
  <1>17. /\ url[SizeKey] = q.size /\ url[SortKey] = q.sort
         /\ \A f \in EnumFilters \cap DOMAIN q.filters : url[<<"filter", f>>] = q.filters[f]
         /\ q.search # Absent => url[SearchKey].text = q.search
         /\ q.after # Absent => url[AfterKey] = CreateCursor(q, q.after)
         /\ q.before # Absent => url[BeforeKey] = CreateCursor(q, q.before)
    BY <1>2, <1>8, <1>11, <1>14, <1>16
  <1>18. \A f \in RangeFilters, bound \in {"gte", "lte"} :
           f \in DOMAIN q.filters /\ bound \in DOMAIN q.filters[f] =>
             url[<<"filter", f, bound>>].instant = q.filters[f][bound]
    BY <1>2, <1>15, <1>16
  <1> HIDE DEF url
  <1> QED
    BY <1>1, <1>2, <1>13, <1>14, <1>15, <1>17, <1>18

\* Filters come back as they were written.
LEMMA FiltersKept ==
    ASSUME NEW q, QueryOK(q)
    PROVE  ParseFilters(Serialize(q)) = q.filters
  <1> DEFINE p == Serialize(q)
             names == {f \in EnumFilters : <<"filter", f>> \in DOMAIN p}
                      \cup {f \in RangeFilters : Bounds(p, f) # {}}
             value(f) == IF f \in EnumFilters THEN p[<<"filter", f>>]
                         ELSE [bound \in Bounds(p, f) |-> ParseDate(p[<<"filter", f, bound>>])]
  <1>1. FiltersOK(q.filters)
    BY DEF QueryOK
  <1>2. \A f \in RangeFilters \cap DOMAIN q.filters :
          DOMAIN q.filters[f] \in {{"gte"}, {"lte"}, {"gte", "lte"}}
    BY <1>1, TypesAssumption DEF FiltersOK
  <1>3. ASSUME NEW f \in EnumFilters, <<"filter", f>> \in DOMAIN p
        PROVE  p[<<"filter", f>>] \in EnumValues[f]
    <2>1. f \in DOMAIN q.filters /\ p[<<"filter", f>>] = q.filters[f]
      BY <1>3, Serialized
    <2> QED
      BY <2>1, <1>1, TypesAssumption DEF FiltersOK
  <1>4. ASSUME NEW f \in RangeFilters, NEW bound \in {"gte", "lte"},
               <<"filter", f, bound>> \in DOMAIN p
        PROVE  /\ ParseDate(p[<<"filter", f, bound>>]) = q.filters[f][bound]
               /\ ParseDate(p[<<"filter", f, bound>>]) # Reject
    <2>1. /\ f \in DOMAIN q.filters /\ bound \in DOMAIN q.filters[f]
          /\ p[<<"filter", f, bound>>].instant = q.filters[f][bound]
      BY <1>4, Serialized
    <2>2. q.filters[f][bound] \notin {NoInstant, Reject}
      BY <2>1, <1>1, TypesAssumption DEF FiltersOK
    <2> QED
      BY <2>1, <2>2 DEF ParseDate
  <1>5. ASSUME NEW key \in RangeKeys \cap DOMAIN p PROVE ParseDate(p[key]) # Reject
    <2>1. PICK f \in RangeFilters, bound \in {"gte", "lte"} : key = <<"filter", f, bound>>
      BY DEF RangeKeys
    <2> QED
      BY <2>1, <1>4
  <1>6. ASSUME NEW f \in RangeFilters
        PROVE  Bounds(p, f) = IF f \in DOMAIN q.filters THEN DOMAIN q.filters[f] ELSE {}
    <2>1. \A bound \in {"gte", "lte"} : <<"filter", f, bound>> \in DOMAIN p
                            <=> f \in DOMAIN q.filters /\ bound \in DOMAIN q.filters[f]
      BY Serialized
    <2> QED
      BY <2>1, <1>2 DEF Bounds
  <1>7. names = DOMAIN q.filters
    <2>1. \A f \in EnumFilters : <<"filter", f>> \in DOMAIN p <=> f \in DOMAIN q.filters
      BY Serialized
    <2>2. \A f \in RangeFilters : Bounds(p, f) # {} <=> f \in DOMAIN q.filters
      BY <1>2, <1>6
    <2>3. DOMAIN q.filters \subseteq EnumFilters \cup RangeFilters
      BY <1>1 DEF FiltersOK
    <2> QED
      BY <2>1, <2>2, <2>3
  <1>8. ASSUME NEW f \in DOMAIN q.filters PROVE value(f) = q.filters[f]
    <2>1. CASE f \in EnumFilters
      BY <2>1, Serialized
    <2>2. CASE f \notin EnumFilters
      <3>1. /\ f \in RangeFilters
            /\ q.filters[f] = [bound \in DOMAIN q.filters[f] |-> q.filters[f][bound]]
        BY <1>1, <2>2 DEF FiltersOK
      <3>2. Bounds(p, f) = DOMAIN q.filters[f]
        BY <1>6, <3>1
      <3>3. \A bound \in Bounds(p, f) :
              ParseDate(p[<<"filter", f, bound>>]) = q.filters[f][bound]
        BY <1>4, <3>1 DEF Bounds
      <3>4. value(f) = [bound \in Bounds(p, f) |-> ParseDate(p[<<"filter", f, bound>>])]
        BY <2>2
      <3> QED
        BY <3>1, <3>2, <3>3, <3>4
    <2> QED
      BY <2>1, <2>2
  <1>9. ParseFilters(p) = [f \in names |-> value(f)]
    BY <1>3, <1>5 DEF ParseFilters
  <1>10. q.filters = [f \in DOMAIN q.filters |-> q.filters[f]]
    BY <1>1 DEF FiltersOK
  <1> HIDE DEF names, value, p
  <1>11. [f \in names |-> value(f)] = [f \in DOMAIN q.filters |-> q.filters[f]]
    BY <1>7, <1>8
  <1> QED
    BY <1>9, <1>10, <1>11 DEF p

\* A cursor is accepted beside its query.
LEMMA CursorDecoded ==
    ASSUME NEW q, NEW position, NEW p, NEW key \in DOMAIN p,
           p[key] = CreateCursor(q, position)
    PROVE  DecodeCursor(p, key, Contract(q)) = position
  <1>1. p[key] = [position |-> position, fingerprint |-> Contract(q)]
    BY DEF CreateCursor, EncodeCursor
  <1>2. DOMAIN p[key] = {"position", "fingerprint"}
    BY <1>1
  <1> QED
    BY <1>1, <1>2 DEF DecodeCursor

\* A query comes back from its own parameters.
LEMMA RoundTrip ==
    ASSUME NEW q, QueryOK(q)
    PROVE  Parse(Serialize(q)) = q
  <1> DEFINE p == Serialize(q)
             size == ParsePageSize(Param(p, SizeKey, DefaultSize))
             sort == ParseSort(Param(p, SortKey, DefaultSort))
             filters == ParseFilters(p)
             search == ParseSearch(p)
             fingerprint == Fingerprint(sort, filters, search)
             after == DecodeCursor(p, AfterKey, fingerprint)
             before == DecodeCursor(p, BeforeKey, fingerprint)
  <1>1. size = q.size
    BY Serialized DEF Param, ParsePageSize, QueryOK
  <1>2. sort = q.sort
    <2>1. Param(p, SortKey, DefaultSort) = q.sort
      BY Serialized DEF Param
    <2> QED
      BY <2>1, SortKept DEF QueryOK
  <1>3. filters = q.filters
    BY FiltersKept
  <1>4. search = q.search
    BY Serialized DEF ParseSearch, QueryOK
  <1>5. fingerprint = Contract(q)
    BY <1>2, <1>3, <1>4 DEF Contract
  <1>6. after = q.after
    BY <1>5, Serialized, CursorDecoded DEF DecodeCursor
  <1>7. before = q.before
    BY <1>5, Serialized, CursorDecoded DEF DecodeCursor
  <1>8. DOMAIN p \subseteq KnownKeys /\ ~({AfterKey, BeforeKey} \subseteq DOMAIN p)
    BY Serialized DEF QueryOK
  <1>9. Parse(p) = IF \/ ~(DOMAIN p \subseteq KnownKeys)
                      \/ size = Reject \/ sort = Reject \/ filters = Reject \/ search = Reject
                      \/ {AfterKey, BeforeKey} \subseteq DOMAIN p
                      \/ after = Reject \/ before = Reject
                   THEN Reject
                   ELSE [size |-> size, sort |-> sort, filters |-> filters, search |-> search,
                         after |-> after, before |-> before]
    BY DEF Parse
  <1> HIDE DEF size, sort, filters, search, after, before, p
  <1> QED
    BY <1>1, <1>2, <1>3, <1>4, <1>6, <1>7, <1>8, <1>9 DEF QueryOK, p

-----------------------------------------------------------------------------
(* The order of a sort is a strict total order of the rows. *)

\* One position precedes another in the first field in which they differ.
LEMMA PrecedesAt ==
    ASSUME NEW sort, SortOK(sort), NEW r \in Ids, NEW s \in Ids
    PROVE  Precedes(Position(r, sort), Position(s, sort), sort) <=>
             \E i \in 1..Len(sort) :
               /\ \A j \in 1..(i - 1) : ValueOf(r, sort[j].field) = ValueOf(s, sort[j].field)
               /\ IF sort[i].direction = "asc"
                  THEN ValueOf(r, sort[i].field) < ValueOf(s, sort[i].field)
                  ELSE ValueOf(r, sort[i].field) > ValueOf(s, sort[i].field)
  <1>1. DOMAIN sort = 1..Len(sort) /\ Len(sort) \in Nat
    BY DEF SortOK
  <1>2. \A i \in 1..Len(sort) : sort[i].field \in FieldsOf(sort)
    BY <1>1 DEF FieldsOf, ToSet
  <1>3. \A i \in 1..Len(sort) :
          /\ Position(r, sort)[sort[i].field] = ValueOf(r, sort[i].field)
          /\ Position(s, sort)[sort[i].field] = ValueOf(s, sort[i].field)
    BY <1>2 DEF Position
  <1>4. \A i \in 1..Len(sort) : 1..(i - 1) \subseteq 1..Len(sort)
    BY <1>1
  <1> QED
    BY <1>1, <1>3, <1>4 DEF Precedes

\* The values of a sort's fields are ordered.
LEMMA ValuesAreNats ==
    ASSUME NEW sort, SortOK(sort), NEW r \in Ids, NEW i \in 1..Len(sort)
    PROVE  ValueOf(r, sort[i].field) \in Nat
  BY RowsAssumption DEF ValueOf

\* The order of a sort is transitive.
LEMMA PrecedesTransitive ==
    ASSUME NEW sort, SortOK(sort), NEW r \in Ids, NEW s \in Ids, NEW t \in Ids,
           Precedes(Position(r, sort), Position(s, sort), sort),
           Precedes(Position(s, sort), Position(t, sort), sort)
    PROVE  Precedes(Position(r, sort), Position(t, sort), sort)
  <1> DEFINE n == Len(sort)
             val(x, k) == ValueOf(x, sort[k].field)
             less(x, y, k) == IF sort[k].direction = "asc" THEN val(x, k) < val(y, k)
                              ELSE val(x, k) > val(y, k)
  <1>1. n \in Nat
    BY DEF SortOK
  <1>2. PICK i \in 1..n : (\A k \in 1..(i - 1) : val(r, k) = val(s, k)) /\ less(r, s, i)
    BY PrecedesAt
  <1>3. PICK j \in 1..n : (\A k \in 1..(j - 1) : val(s, k) = val(t, k)) /\ less(s, t, j)
    BY PrecedesAt
  <1>4. \A k \in 1..n : val(r, k) \in Nat /\ val(s, k) \in Nat /\ val(t, k) \in Nat
    BY ValuesAreNats
  <1>5. PICK m \in 1..n : m = (IF i < j THEN i ELSE j)
    BY <1>1
  <1>6. \A k \in 1..(m - 1) : val(r, k) = val(t, k)
    BY <1>1, <1>2, <1>3, <1>5
  <1>7. less(r, t, m)
    <2>1. CASE i < j
      <3>1. m = i /\ val(s, i) = val(t, i)
        BY <1>1, <1>3, <1>5, <2>1
      <3> QED
        BY <1>2, <3>1
    <2>2. CASE j < i
      <3>1. m = j /\ val(r, j) = val(s, j)
        BY <1>1, <1>2, <1>5, <2>2
      <3> QED
        BY <1>3, <3>1
    <2>3. CASE i = j
      <3>1. m = i
        BY <1>5, <2>3
      <3> QED
        BY <1>2, <1>3, <1>4, <2>3, <3>1
    <2> QED
      BY <2>1, <2>2, <2>3, <1>1
  <1> QED
    BY <1>6, <1>7, PrecedesAt

\* The tie breaker leaves no ties.
LEMMA PrecedesTotal ==
    ASSUME NEW sort, SortOK(sort), NEW r \in Ids, NEW s \in Ids, r # s
    PROVE  \/ Precedes(Position(r, sort), Position(s, sort), sort)
           \/ Precedes(Position(s, sort), Position(r, sort), sort)
  <1> DEFINE val(x, k) == ValueOf(x, sort[k].field)
             differ == {k \in 1..Len(sort) : val(r, k) # val(s, k)}
  <1>1. Len(sort) \in Nat /\ DOMAIN sort = 1..Len(sort)
    BY DEF SortOK
  <1>2. PICK k \in 1..Len(sort) : sort[k].field = TieBreaker
    BY <1>1 DEF SortOK, FieldsOf, ToSet
  <1>3. k \in differ
    BY <1>2, RowsAssumption, TypesAssumption DEF ValueOf
  <1>4. differ \subseteq Nat
    BY <1>1
  <1>5. PICK i \in differ : \A j \in differ : ~(<<j, i>> \in OpToRel(<, Nat))
    BY <1>3, <1>4, NatLessThanWellFounded, WFMin
  <1>6. \A j \in differ : ~(j < i)
    BY <1>4, <1>5 DEF OpToRel
  <1>7. \A j \in 1..(i - 1) : val(r, j) = val(s, j)
    BY <1>1, <1>6
  <1>8. val(r, i) \in Nat /\ val(s, i) \in Nat /\ val(r, i) # val(s, i)
    BY ValuesAreNats
  <1>9. i \in 1..Len(sort)
    OBVIOUS
  <1>10. CASE sort[i].direction = "asc" <=> val(r, i) < val(s, i)
    BY <1>7, <1>8, <1>9, <1>10, PrecedesAt
  <1>11. CASE ~(sort[i].direction = "asc" <=> val(r, i) < val(s, i))
    BY <1>7, <1>8, <1>9, <1>11, PrecedesAt
  <1> QED
    BY <1>10, <1>11

-----------------------------------------------------------------------------
(* Pages. *)

\* A page has room for a row.
LEMMA SizeIsPositive ==
    ASSUME NEW q, QueryOK(q)
    PROVE  q.size \in Nat \ {0}
  <1>1. q.size \in 1..MaxSize
    BY DEF QueryOK
  <1>2. MaxSize \in Nat
    BY ConfigAssumption DEF AssertCollectionConfig
  <1> QED
    BY <1>1, <1>2

\* A page has rows past its cursor, at most as many as asked for.
LEMMA PageRows ==
    ASSUME table \subseteq Ids, NEW q, QueryOK(q), NEW items \in Pages(q)
    PROVE  /\ items \in Seq(Ids) /\ Len(items) <= q.size
           /\ ToSet(items) \subseteq Matching(q)
           /\ \A i \in DOMAIN items :
                q.after # Absent => Precedes(q.after, Position(items[i], q.sort), q.sort)
  <1> DEFINE at(r) == Position(r, q.sort)
             past == {r \in Matching(q) :
                        /\ q.after # Absent => Precedes(q.after, at(r), q.sort)
                        /\ q.before # Absent => Precedes(at(r), q.before, q.sort)}
  <1>1. items \in SeqOf(past, q.size)
    BY DEF Pages
  <1>2. PICK n \in 0..q.size : items \in [1..n -> past]
    BY <1>1 DEF SeqOf
  <1>3. n \in Nat /\ q.size \in Nat /\ n <= q.size
    BY SizeIsPositive
  <1>4. past \subseteq Matching(q) /\ Matching(q) \subseteq Ids
    BY DEF Matching
  <1>5. items \in [1..n -> Ids] /\ DOMAIN items = 1..n /\ \A i \in 1..n : items[i] \in past
    BY <1>2, <1>4
  <1>6. items \in Seq(Ids) /\ Len(items) = n
    BY <1>3, <1>5
  <1>7. ToSet(items) \subseteq past
    BY <1>5 DEF ToSet
  <1> QED
    BY <1>3, <1>4, <1>5, <1>6, <1>7

\* A page made for a query of parse is one the invariant describes.
LEMMA PageMade ==
    ASSUME table \subseteq Ids, NEW q, QueryOK(q), NEW items \in Pages(q)
    PROVE  /\ PageOK(PageOf(q, items))
           /\ PageOf(q, items).query = q /\ PageOf(q, items).items = items
  <1>1. items \in Seq(Ids)
    BY PageRows
  <1> QED
    BY <1>1 DEF PageOf, PageOK

\* A page forward has its rows in order, and those it leaves come after it.
LEMMA PageForward ==
    ASSUME table \subseteq Ids, NEW q, QueryOK(q), q.before = Absent, NEW items \in Pages(q)
    PROVE  /\ \A i, j \in DOMAIN items : i < j =>
                Precedes(Position(items[i], q.sort), Position(items[j], q.sort), q.sort)
           /\ \A r \in Matching(q) \ ToSet(items) :
                (q.after # Absent => Precedes(q.after, Position(r, q.sort), q.sort)) =>
                  /\ PageOf(q, items).hasNextPage
                  /\ Precedes(PageOf(q, items).endPosition, Position(r, q.sort), q.sort)
  <1> DEFINE at(r) == Position(r, q.sort)
             past == {r \in Matching(q) :
                        /\ q.after # Absent => Precedes(q.after, at(r), q.sort)
                        /\ q.before # Absent => Precedes(at(r), q.before, q.sort)}
  <1>1. /\ \A i, j \in DOMAIN items : i < j =>
             items[i] # items[j] /\ ~Precedes(at(items[j]), at(items[i]), q.sort)
        /\ \A r \in past \ ToSet(items) :
             Len(items) = q.size /\ ~Precedes(at(r), at(Last(items)), q.sort)
    BY DEF Pages
  <1>2. SortOK(q.sort) /\ q.size \in Nat \ {0}
    BY SizeIsPositive DEF QueryOK
  <1>3. items \in Seq(Ids) /\ ToSet(items) \subseteq Ids /\ Matching(q) \subseteq Ids
    BY PageRows DEF Matching
  <1>4. ASSUME NEW i \in DOMAIN items, NEW j \in DOMAIN items, i < j
        PROVE  Precedes(at(items[i]), at(items[j]), q.sort)
    <2>1. items[i] \in Ids /\ items[j] \in Ids
      BY <1>3
    <2> QED
      BY <2>1, <1>1, <1>2, <1>4, PrecedesTotal
  <1>5. ASSUME NEW r \in Matching(q) \ ToSet(items),
               q.after # Absent => Precedes(q.after, at(r), q.sort)
        PROVE  /\ PageOf(q, items).hasNextPage
               /\ Precedes(PageOf(q, items).endPosition, at(r), q.sort)
    <2>1. Len(items) = q.size /\ ~Precedes(at(r), at(Last(items)), q.sort)
      BY <1>1, <1>5
    <2>2. items # <<>>
      BY <2>1, <1>2, <1>3
    <2>3. Last(items) \in ToSet(items)
      BY <2>2, <1>3 DEF Last, ToSet
    <2>4. r # Last(items) /\ r \in Ids /\ Last(items) \in Ids
      BY <2>3, <1>3
    <2>5. Precedes(at(Last(items)), at(r), q.sort)
      BY <2>1, <2>4, <1>2, PrecedesTotal
    <2> QED
      BY <2>1, <2>2, <2>5, <1>5 DEF PageOf
  <1> QED
    BY <1>4, <1>5

\* What the collection answers.
LEMMA Responded ==
    ASSUME table \subseteq Ids, PageKnown,
           NEW p, SortKey \in DOMAIN p => p[SortKey] \in Seq(Tokens), Respond(p)
    PROVE  \/ Parse(p) = Reject /\ status' = 422 /\ page' = page
           \/ Parse(p) # Reject /\ status' = 500 /\ page' = page
           \/ /\ Parse(p) # Reject /\ status' = 200
              /\ QueryOK(Parse(p))
              /\ \E items \in Pages(Parse(p)) : page' = PageOf(Parse(p), items)
              /\ PageOK(page') /\ page'.query = Parse(p)
  <1>1. CASE status' # 200
    BY <1>1 DEF Respond
  <1>2. CASE status' = 200
    <2>1. Parse(p) # Reject /\ \E items \in Pages(Parse(p)) : page' = PageOf(Parse(p), items)
      BY <1>2 DEF Respond
    <2>2. QueryOK(Parse(p))
      BY <2>1, QueryParsed
    <2> QED
      BY <1>2, <2>1, <2>2, PageMade
  <1> QED
    BY <1>1, <1>2

-----------------------------------------------------------------------------
(* Links. *)

\* serialize always writes the sort.
LEMMA SortWritten ==
    ASSUME NEW q
    PROVE  SortKey \in DOMAIN Serialize(q) /\ Serialize(q)[SortKey] = q.sort
  <1> DEFINE enums == {<<"filter", f>> : f \in EnumFilters \cap DOMAIN q.filters}
             dates == {key \in RangeKeys : /\ key[2] \in DOMAIN q.filters
                                           /\ key[3] \in DOMAIN q.filters[key[2]]}
  <1>1. enums \subseteq EnumKeys /\ dates \subseteq RangeKeys
    BY DEF EnumKeys
  <1> QED
    BY <1>1, KeysDiffer DEF Serialize

\* The positions of rows are no sentinels.
LEMMA PositionsAreValues ==
    ASSUME NEW sort, SortOK(sort), NEW r \in Ids
    PROVE  Position(r, sort) \notin {Absent, Reject}
  BY RowsAssumption DEF SortOK, Position

\* The query of the page that a link leads to.
LEMMA Continued ==
    ASSUME PageOK(page), page.items # <<>>
    PROVE  /\ page.query.before = Absent =>
                /\ QueryOK([page.query EXCEPT !.after = page.endPosition])
                /\ Parse(Serialize([page.query EXCEPT !.after = page.endPosition]))
                     = [page.query EXCEPT !.after = page.endPosition]
           /\ page.query.after = Absent =>
                /\ QueryOK([page.query EXCEPT !.before = page.startPosition])
                /\ Parse(Serialize([page.query EXCEPT !.before = page.startPosition]))
                     = [page.query EXCEPT !.before = page.startPosition]
  <1> DEFINE q == page.query
             forth == [q EXCEPT !.after = page.endPosition]
             back == [q EXCEPT !.before = page.startPosition]
  <1>1. QueryOK(q) /\ SortOK(q.sort)
    BY DEF PageOK, QueryOK
  <1>2. Last(page.items) \in Ids /\ Head(page.items) \in Ids
    BY DEF PageOK, Last
  <1>3. page.endPosition \notin {Absent, Reject} /\ page.startPosition \notin {Absent, Reject}
    BY <1>1, <1>2, PositionsAreValues DEF PageOK
  <1>4. q = [size |-> q.size, sort |-> q.sort, filters |-> q.filters, search |-> q.search,
             after |-> q.after, before |-> q.before]
    BY <1>1 DEF QueryOK
  <1>5. /\ forth = [size |-> q.size, sort |-> q.sort, filters |-> q.filters,
                    search |-> q.search, after |-> page.endPosition, before |-> q.before]
        /\ back = [size |-> q.size, sort |-> q.sort, filters |-> q.filters,
                   search |-> q.search, after |-> q.after, before |-> page.startPosition]
    BY <1>4
  <1>6. ASSUME q.before = Absent PROVE QueryOK(forth)
    <2>1. /\ forth.size = q.size /\ forth.sort = q.sort /\ forth.filters = q.filters
          /\ forth.search = q.search /\ forth.after = page.endPosition /\ forth.before = q.before
      BY <1>5
    <2> HIDE DEF forth
    <2> QED
      BY <1>1, <1>3, <1>5, <1>6, <2>1 DEF QueryOK
  <1>7. ASSUME q.after = Absent PROVE QueryOK(back)
    <2>1. /\ back.size = q.size /\ back.sort = q.sort /\ back.filters = q.filters
          /\ back.search = q.search /\ back.after = q.after /\ back.before = page.startPosition
      BY <1>5
    <2> HIDE DEF back
    <2> QED
      BY <1>1, <1>3, <1>5, <1>7, <2>1 DEF QueryOK
  <1> QED
    BY <1>6, <1>7, RoundTrip

\* The links of a page are links of a page with rows.
LEMMA LinkKnown ==
    ASSUME PageKnown
    PROVE  /\ NextLink(page.query, page) # Absent =>
                /\ PageOK(page) /\ page.hasNextPage /\ page.items # <<>>
                /\ NextLink(page.query, page)
                     = Serialize([page.query EXCEPT !.after = page.endPosition])
           /\ PrevLink(page.query, page) # Absent =>
                /\ PageOK(page) /\ page.hasPreviousPage /\ page.items # <<>>
                /\ PrevLink(page.query, page)
                     = Serialize([page.query EXCEPT !.before = page.startPosition])
  <1>1. /\ NextLink(page.query, page) # Absent => page.hasNextPage
        /\ PrevLink(page.query, page) # Absent => page.hasPreviousPage
    BY DEF NextLink, PrevLink
  <1>2. page.hasNextPage \/ page.hasPreviousPage => page # NoPage
    BY DEF NoPage
  <1>3. page # NoPage => PageOK(page)
    BY DEF PageKnown
  <1>4. PageOK(page) => {page.hasNextPage, page.hasPreviousPage} \subseteq {page.items # <<>>, FALSE}
    BY DEF PageOK
  <1>5. PageOK(page) /\ (page.hasNextPage \/ page.hasPreviousPage) => page.items # <<>>
    BY <1>4
  <1> QED
    BY <1>1, <1>2, <1>3, <1>5 DEF NextLink, PrevLink

\* A link names the sort of its page.
LEMMA LinkTyped ==
    ASSUME PageOK(page), NEW e
    PROVE  /\ Serialize([page.query EXCEPT !.after = e])[SortKey] \in Seq(Tokens)
           /\ Serialize([page.query EXCEPT !.before = e])[SortKey] \in Seq(Tokens)
           /\ Serialize(page.query)[SortKey] \in Seq(Tokens)
  <1> DEFINE q == page.query
  <1>1. q.sort \in Seq(Tokens)
    BY DEF PageOK, QueryOK, SortOK
  <1>2. q = [size |-> q.size, sort |-> q.sort, filters |-> q.filters, search |-> q.search,
             after |-> q.after, before |-> q.before]
    BY DEF PageOK, QueryOK
  <1>3. [q EXCEPT !.after = e].sort = q.sort /\ [q EXCEPT !.before = e].sort = q.sort
    BY <1>2
  <1> QED
    BY <1>1, <1>3, SortWritten

-----------------------------------------------------------------------------
(* Walks. *)

\* Where the elements of two sequences are in their concatenation.
LEMMA Concatenated ==
    ASSUME NEW S, NEW s \in Seq(S), NEW t \in Seq(S)
    PROVE  /\ s \o t \in Seq(S)
           /\ Len(s) \in Nat /\ Len(t) \in Nat /\ DOMAIN s = 1..Len(s) /\ DOMAIN t = 1..Len(t)
           /\ DOMAIN (s \o t) = 1..(Len(s) + Len(t))
           /\ \A i \in 1..Len(s) : (s \o t)[i] = s[i]
           /\ \A i \in 1..(Len(s) + Len(t)) :
                \/ i \in 1..Len(s)
                \/ i - Len(s) \in 1..Len(t) /\ (s \o t)[i] = t[i - Len(s)]
           /\ ToSet(s \o t) = ToSet(s) \cup ToSet(t)
           /\ t # <<>> => s \o t # <<>> /\ Last(s \o t) = Last(t)
  <1> DEFINE rows == s \o t
  <1>1. /\ rows \in Seq(S) /\ Len(rows) = Len(s) + Len(t)
        /\ \A i \in 1..Len(s) : rows[i] = s[i]
        /\ \A i \in 1..Len(t) : rows[i + Len(s)] = t[i]
    OBVIOUS
  <1>2. /\ Len(s) \in Nat /\ Len(t) \in Nat
        /\ DOMAIN s = 1..Len(s) /\ DOMAIN t = 1..Len(t) /\ DOMAIN rows = 1..Len(rows)
    BY <1>1
  <1>3. ASSUME NEW i \in 1..(Len(s) + Len(t)), i \notin 1..Len(s)
        PROVE  i - Len(s) \in 1..Len(t) /\ rows[i] = t[i - Len(s)]
    <2>1. i - Len(s) \in 1..Len(t) /\ (i - Len(s)) + Len(s) = i
      BY <1>2, <1>3
    <2> HIDE DEF rows
    <2> QED
      BY <2>1, <1>1
  <1>4. ToSet(rows) = ToSet(s) \cup ToSet(t)
    <2>1. \A i \in 1..Len(t) : i + Len(s) \in 1..Len(rows)
      BY <1>1, <1>2
    <2>2. \A i \in 1..Len(s) : i \in 1..Len(rows)
      BY <1>1, <1>2
    <2>3. \A i \in 1..Len(rows) : rows[i] \in ToSet(s) \cup ToSet(t)
      <3> HIDE DEF rows
      <3> QED
        BY <1>1, <1>2, <1>3 DEF ToSet
    <2> HIDE DEF rows
    <2>4. ToSet(s) \subseteq ToSet(rows)
      BY <2>2, <1>1, <1>2 DEF ToSet
    <2>5. ToSet(t) \subseteq ToSet(rows)
      BY <2>1, <1>1, <1>2 DEF ToSet
    <2>6. ToSet(rows) \subseteq ToSet(s) \cup ToSet(t)
      BY <2>3, <1>2 DEF ToSet
    <2> QED
      BY <2>4, <2>5, <2>6
  <1>5. t # <<>> => rows # <<>> /\ Last(rows) = Last(t)
    <2>1. t # <<>> => Len(t) \in 1..Len(t)
      BY <1>2
    <2> QED
      BY <2>1, <1>1, <1>2 DEF Last
  <1> HIDE DEF rows
  <1>6. \A i \in 1..(Len(s) + Len(t)) :
          \/ i \in 1..Len(s)
          \/ i - Len(s) \in 1..Len(t) /\ rows[i] = t[i - Len(s)]
    BY <1>3
  <1> QED
    BY <1>1, <1>2, <1>4, <1>5, <1>6 DEF rows

\* A page whose query continues that of the last one continues its walk.
LEMMA WalkContinues ==
    ASSUME TypeOK, WalkKnown, WalkMissesNothing, walking, page.items # <<>>,
           NEW q, q = [page.query EXCEPT !.after = page.endPosition], QueryOK(q),
           NEW items \in Pages(q)
    PROVE  LET sort == q.sort
               at(r) == Position(r, sort)
               rows == seen \o items
           IN  /\ rows \in Seq(Ids)
               /\ items # <<>> => rows # <<>> /\ Last(rows) = Last(items)
               /\ stayed \subseteq Matching(q)
               /\ \A i, j \in DOMAIN rows : i < j => Precedes(at(rows[i]), at(rows[j]), sort)
               /\ \A r \in stayed \ ToSet(rows) :
                    /\ PageOf(q, items).hasNextPage
                    /\ Precedes(PageOf(q, items).endPosition, at(r), sort)
  <1> DEFINE sort == q.sort
             at(r) == Position(r, sort)
             rows == seen \o items
             last == Last(page.items)
  <1>1. /\ PageOK(page) /\ page.query.before = Absent /\ seen \in Seq(Ids)
        /\ seen # <<>> /\ Last(seen) = last /\ stayed \subseteq Matching(page.query)
    BY DEF WalkKnown
  <1>2. /\ q.size = page.query.size /\ sort = page.query.sort /\ q.filters = page.query.filters
        /\ q.search = page.query.search /\ q.after = page.endPosition /\ q.before = Absent
    <2>1. page.query = [size |-> page.query.size, sort |-> page.query.sort,
                        filters |-> page.query.filters, search |-> page.query.search,
                        after |-> page.query.after, before |-> page.query.before]
      BY <1>1 DEF PageOK, QueryOK
    <2> QED
      BY <2>1, <1>1
  <1>3. table \subseteq Ids /\ SortOK(sort)
    BY DEF TypeOK, QueryOK
  <1>4. last \in Ids /\ q.after = at(last) /\ q.after # Absent
    <2>1. last \in Ids
      BY <1>1 DEF PageOK, Last
    <2> QED
      BY <2>1, <1>1, <1>2, <1>3, PositionsAreValues DEF PageOK
  <1>5. Matching(q) = Matching(page.query)
    BY <1>2 DEF Matching
  <1>6. /\ items \in Seq(Ids)
        /\ \A i \in DOMAIN items : Precedes(at(last), at(items[i]), sort)
    BY <1>3, <1>4, PageRows
  <1>7. /\ rows \in Seq(Ids)
        /\ \A i \in 1..Len(seen) : rows[i] = seen[i]
        /\ \A i \in DOMAIN rows :
             \/ i \in 1..Len(seen)
             \/ i - Len(seen) \in 1..Len(items) /\ rows[i] = items[i - Len(seen)]
        /\ ToSet(rows) = ToSet(seen) \cup ToSet(items)
        /\ items # <<>> => rows # <<>> /\ Last(rows) = Last(items)
    BY <1>1, <1>6, Concatenated
  <1>8. /\ DOMAIN seen = 1..Len(seen) /\ DOMAIN items = 1..Len(items)
        /\ DOMAIN rows = 1..(Len(seen) + Len(items))
    BY <1>1, <1>6, Concatenated
  <1>9. Len(seen) \in Nat /\ Len(items) \in Nat
    BY <1>1, <1>6
  <1> HIDE DEF rows
  <1>10. \A i, j \in DOMAIN seen : i < j => Precedes(at(seen[i]), at(seen[j]), sort)
    BY <1>2 DEF WalkMissesNothing
  <1>11. \A i \in DOMAIN seen : seen[i] = last \/ Precedes(at(seen[i]), at(last), sort)
    <2>1. Len(seen) \in DOMAIN seen /\ seen[Len(seen)] = last
      BY <1>1, <1>8, <1>9 DEF Last
    <2> QED
      BY <2>1, <1>8, <1>9, <1>10
  <1>12. ASSUME NEW i \in DOMAIN seen, NEW j \in DOMAIN items
         PROVE  Precedes(at(seen[i]), at(items[j]), sort)
    <2>1. seen[i] \in Ids /\ items[j] \in Ids
      BY <1>1, <1>6
    <2>2. Precedes(at(last), at(items[j]), sort)
      BY <1>6
    <2> QED
      BY <2>1, <2>2, <1>3, <1>4, <1>11, PrecedesTransitive
  <1>13. \A i, j \in DOMAIN items : i < j => Precedes(at(items[i]), at(items[j]), sort)
    BY <1>2, <1>3, PageForward
  <1>14. \A i, j \in DOMAIN rows : i < j => Precedes(at(rows[i]), at(rows[j]), sort)
    <2> SUFFICES ASSUME NEW i \in DOMAIN rows, NEW j \in DOMAIN rows, i < j
                 PROVE  Precedes(at(rows[i]), at(rows[j]), sort)
      OBVIOUS
    <2>1. CASE j \in 1..Len(seen)
      <3>1. i \in 1..Len(seen)
        BY <2>1, <1>8, <1>9
      <3> QED
        BY <2>1, <3>1, <1>7, <1>8, <1>10
    <2>2. CASE i \in 1..Len(seen) /\ j - Len(seen) \in 1..Len(items)
      <3>1. rows[i] = seen[i] /\ rows[j] = items[j - Len(seen)]
        BY <2>2, <1>7, <1>8, <1>9
      <3> QED
        BY <3>1, <2>2, <1>8, <1>12
    <2>3. CASE i - Len(seen) \in 1..Len(items) /\ j - Len(seen) \in 1..Len(items)
      <3>1. rows[i] = items[i - Len(seen)] /\ rows[j] = items[j - Len(seen)]
        BY <2>3, <1>7, <1>8, <1>9
      <3>2. i - Len(seen) < j - Len(seen)
        BY <1>8, <1>9
      <3> QED
        BY <3>1, <3>2, <2>3, <1>8, <1>13
    <2> QED
      BY <2>1, <2>2, <2>3, <1>7, <1>8, <1>9
  <1>15. ASSUME NEW r \in stayed \ ToSet(rows)
         PROVE  /\ PageOf(q, items).hasNextPage
                /\ Precedes(PageOf(q, items).endPosition, at(r), sort)
    <2>1. r \notin ToSet(seen) /\ r \notin ToSet(items) /\ r \in Matching(q)
      BY <1>1, <1>5, <1>7, <1>15
    <2>2. Precedes(q.after, at(r), sort)
      BY <2>1, <1>2, <1>15 DEF WalkMissesNothing
    <2> QED
      BY <2>1, <2>2, <1>2, <1>3, PageForward
  <1> QED
    BY <1>1, <1>5, <1>7, <1>14, <1>15 DEF rows

-----------------------------------------------------------------------------
(* The inductive invariant, per operation. *)

CollectionInv == TypeOK /\ PageKnown /\ WalkKnown /\ WalkMissesNothing
ListInv == ListKnown /\ ListingMissesNothing

\* No client has asked yet.
LEMMA InitIInv == Init => IInv
  <1> SUFFICES ASSUME Init PROVE IInv
    OBVIOUS
  <1>1. ToSet(<<>>) = {}
    BY DEF ToSet
  <1>2. page.query = Absent /\ page.items = <<>> /\ seen = <<>> /\ listed = <<>>
    BY DEF Init, NoPage
  <1>3. changes \in 0..MaxChanges
    BY ListAssumption DEF Init
  <1>4. TypeOK
    BY <1>1, <1>2, <1>3 DEF Init, TypeOK
  <1>5. PageKnown /\ WalkKnown /\ WalkMissesNothing
    BY DEF Init, PageKnown, WalkKnown, WalkMissesNothing
  <1>6. ListKnown /\ ListingMissesNothing
    BY ListAssumption DEF Init, ListKnown, ListingMissesNothing
  <1> QED
    BY <1>4, <1>5, <1>6 DEF IInv

\* What is left after any answer of the collection.
LEMMA AskStep ==
    ASSUME TypeOK, PageKnown, table' = table,
           NEW p, SortKey \in DOMAIN p => p[SortKey] \in Seq(Tokens), Respond(p)
    PROVE  /\ PageKnown' /\ status' \in {200, 422, 500}
           /\ ToSet(page'.items) \subseteq Ids
           /\ page'.query = Absent \/ page'.query.size \in 1..MaxSize
  <1>1. table \subseteq Ids
    BY DEF TypeOK
  <1>2. CASE page' = page /\ status' \in {422, 500}
    BY <1>2 DEF TypeOK, PageKnown
  <1>3. CASE PageOK(page') /\ status' = 200
    <2>1. page'.items \in Seq(Ids) /\ page'.query.size \in 1..MaxSize
      BY <1>3 DEF PageOK, QueryOK
    <2> QED
      BY <2>1, <1>3 DEF PageKnown, ToSet
  <1> QED
    BY <1>1, <1>2, <1>3, Responded

\* A client that opens a collection gets its first page.
LEMMA OpenStep ==
    ASSUME CollectionInv, NEW p \in Openings, Open(p)
    PROVE  CollectionInv'
  <1>1. SortKey \in DOMAIN p => p[SortKey] \in Seq(Tokens)
    BY RequestsAssumption
  <1>2. Respond(p) /\ table' = table /\ table \subseteq Ids
    BY DEF Open, CollectionInv, TypeOK
  <1>3. /\ PageKnown' /\ status' \in {200, 422, 500} /\ ToSet(page'.items) \subseteq Ids
        /\ page'.query = Absent \/ page'.query.size \in 1..MaxSize
    BY <1>1, <1>2, AskStep DEF CollectionInv
  <1>4. CASE status' = 200
    <2> DEFINE q == Parse(p)
    <2>1. PICK items \in Pages(q) : page' = PageOf(q, items)
      BY <1>1, <1>2, <1>4, Responded DEF CollectionInv
    <2>2. Parse(p) # Reject /\ QueryOK(q) /\ PageOK(page') /\ page'.query = q
      BY <1>1, <1>2, <1>4, Responded DEF CollectionInv
    <2>3. \A key \in {AfterKey, BeforeKey} : key \notin DOMAIN p
      <3>1. ASSUME NEW key \in {AfterKey, BeforeKey}, key \in DOMAIN p, NEW fingerprint
            PROVE  DecodeCursor(p, key, fingerprint) = Reject
        BY <3>1, RequestsAssumption DEF DecodeCursor, Malformed
      <3> QED
        BY <3>1, <2>2 DEF Parse
    <2>4. q.after = Absent /\ q.before = Absent
      BY <1>1, <2>2, <2>3, QueryParsed
    <2>5. items \in Seq(Ids) /\ page'.items = items
      BY <1>2, <2>1, <2>2, PageRows, PageMade
    <2>6. walking' = TRUE /\ seen' = items /\ stayed' = Matching(q)
      BY <1>4, <2>2, <2>5 DEF Open
    <2>7. stayed' \subseteq Matching(page.query)' /\ stayed' \subseteq table'
      BY <1>2, <2>2, <2>6 DEF Matching
    <2>8. WalkKnown'
      BY <2>2, <2>4, <2>5, <2>6, <2>7 DEF WalkKnown
    <2>9. /\ \A i, j \in DOMAIN items : i < j =>
               Precedes(Position(items[i], q.sort), Position(items[j], q.sort), q.sort)
          /\ \A r \in Matching(q) \ ToSet(items) :
               /\ page'.hasNextPage
               /\ Precedes(page'.endPosition, Position(r, q.sort), q.sort)
      BY <1>2, <2>1, <2>2, <2>4, PageForward
    <2>10. WalkMissesNothing'
      BY <2>2, <2>6, <2>9 DEF WalkMissesNothing
    <2>11. TypeOK'
      BY <1>2, <1>3, <2>5, <2>6, <2>7 DEF Open, TypeOK, CollectionInv, documentVars
    <2> QED
      BY <1>3, <2>8, <2>10, <2>11 DEF CollectionInv
  <1>5. CASE status' # 200
    <2>1. walking' = FALSE /\ seen' = <<>> /\ stayed' = {}
      BY <1>5 DEF Open
    <2>2. ToSet(<<>>) = {}
      BY DEF ToSet
    <2>3. TypeOK'
      BY <1>2, <1>3, <2>1, <2>2 DEF Open, TypeOK, CollectionInv, documentVars
    <2> QED
      BY <1>3, <2>1, <2>3 DEF CollectionInv, WalkKnown, WalkMissesNothing
  <1> QED
    BY <1>4, <1>5

\* A client that leaves its walk.
LEMMA LeaveStep ==
    ASSUME CollectionInv, NEW p, SortKey \in DOMAIN p => p[SortKey] \in Seq(Tokens), Leave(p)
    PROVE  CollectionInv'
  <1>1. Respond(p) /\ table' = table
    BY DEF Leave
  <1>2. /\ PageKnown' /\ status' \in {200, 422, 500} /\ ToSet(page'.items) \subseteq Ids
        /\ page'.query = Absent \/ page'.query.size \in 1..MaxSize
    BY <1>1, AskStep DEF CollectionInv
  <1>3. ToSet(<<>>) = {}
    BY DEF ToSet
  <1>4. TypeOK'
    BY <1>2, <1>3 DEF Leave, TypeOK, CollectionInv, documentVars
  <1> QED
    BY <1>2, <1>4 DEF CollectionInv, WalkKnown, WalkMissesNothing, Leave

\* A walk goes on, or ends with an answer of 422 or 500.
LEMMA FollowNextStep ==
    ASSUME CollectionInv, FollowNext
    PROVE  CollectionInv'
  <1> DEFINE p == NextLink(page.query, page)
             q == [page.query EXCEPT !.after = page.endPosition]
  <1>1. Respond(p) /\ p # Absent /\ table' = table /\ stayed' = stayed /\ table \subseteq Ids
    BY DEF FollowNext, CollectionInv, TypeOK
  <1>2. PageOK(page) /\ page.hasNextPage /\ page.items # <<>> /\ p = Serialize(q)
    BY <1>1, LinkKnown DEF CollectionInv
  <1>3. p[SortKey] \in Seq(Tokens)
    BY <1>2, LinkTyped
  <1>4. /\ PageKnown' /\ status' \in {200, 422, 500} /\ ToSet(page'.items) \subseteq Ids
        /\ page'.query = Absent \/ page'.query.size \in 1..MaxSize
    BY <1>1, <1>3, AskStep DEF CollectionInv
  <1>5. CASE walking /\ status' = 200
    <2>1. page.query.before = Absent
      BY <1>5 DEF CollectionInv, WalkKnown
    <2>2. QueryOK(q) /\ Parse(p) = q
      BY <1>2, <2>1, Continued
    <2>3. PICK items \in Pages(q) : page' = PageOf(q, items)
      BY <1>1, <1>3, <1>5, <2>2, Responded DEF CollectionInv
    <2>4. PageOK(page') /\ page'.query = q /\ page'.items = items
      BY <1>1, <2>2, <2>3, PageMade
    <2>5. walking' /\ seen' = seen \o items
      BY <1>5, <2>4 DEF FollowNext
    <2>6. q.before = Absent
      BY <1>2, <2>1 DEF PageOK, QueryOK
    <2> HIDE DEF q
    <2>7. /\ seen' \in Seq(Ids)
          /\ items # <<>> => seen' # <<>> /\ Last(seen') = Last(items)
          /\ stayed \subseteq Matching(q)
          /\ \A i, j \in DOMAIN seen' : i < j =>
               Precedes(Position(seen'[i], q.sort), Position(seen'[j], q.sort), q.sort)
          /\ \A r \in stayed \ ToSet(seen') :
               /\ PageOf(q, items).hasNextPage
               /\ Precedes(PageOf(q, items).endPosition, Position(r, q.sort), q.sort)
      BY <1>2, <1>5, <2>2, <2>5, WalkContinues DEF CollectionInv, q
    <2>8. stayed' \subseteq Matching(page.query)'
      BY <1>1, <2>4, <2>7 DEF Matching
    <2>9. WalkKnown'
      BY <2>4, <2>5, <2>6, <2>7, <2>8 DEF WalkKnown
    <2>10. WalkMissesNothing'
      BY <1>1, <2>3, <2>4, <2>7 DEF WalkMissesNothing
    <2>11. ToSet(seen') \subseteq Ids
      BY <2>7 DEF ToSet
    <2>12. TypeOK'
      BY <1>1, <1>4, <2>5, <2>11 DEF FollowNext, TypeOK, CollectionInv, documentVars
    <2> QED
      BY <1>4, <2>9, <2>10, <2>12 DEF CollectionInv
  <1>6. CASE ~(walking /\ status' = 200)
    <2>1. walking' = FALSE /\ seen' = <<>>
      BY <1>6 DEF FollowNext
    <2>2. ToSet(<<>>) = {}
      BY DEF ToSet
    <2>3. TypeOK'
      BY <1>1, <1>4, <2>1, <2>2 DEF FollowNext, TypeOK, CollectionInv, documentVars
    <2> QED
      BY <1>4, <2>1, <2>3 DEF CollectionInv, WalkKnown, WalkMissesNothing
  <1> QED
    BY <1>5, <1>6

\* The link to the previous page ends a walk.
LEMMA FollowPrevStep ==
    ASSUME CollectionInv, FollowPrev
    PROVE  CollectionInv'
  <1> DEFINE p == PrevLink(page.query, page)
  <1>1. p # Absent /\ Leave(p)
    BY DEF FollowPrev
  <1>2. p[SortKey] \in Seq(Tokens)
    BY <1>1, LinkKnown, LinkTyped DEF CollectionInv
  <1> QED
    BY <1>1, <1>2, LeaveStep

\* A cursor that is used by hand ends a walk.
LEMMA UseCursorStep ==
    ASSUME CollectionInv, NEW cursorKey \in {AfterKey, BeforeKey}, NEW e \in Edits,
           UseCursor(cursorKey, e.key, e.raw)
    PROVE  CollectionInv'
  <1> DEFINE position == IF cursorKey = AfterKey THEN page.endPosition ELSE page.startPosition
             self == SelfLink(page.query)
             kept == [k \in (DOMAIN self \cup {e.key}) \ {AfterKey, BeforeKey} |->
                        IF k = e.key THEN e.raw ELSE self[k]]
             p == [k \in DOMAIN kept \cup {cursorKey} |->
                     IF k = cursorKey THEN CreateCursor(page.query, position) ELSE kept[k]]
  <1>1. position # Absent /\ Leave(p)
    BY DEF UseCursor
  <1>2. PageOK(page)
    BY <1>1 DEF CollectionInv, PageKnown, NoPage
  <1>3. SortKey \in DOMAIN self /\ self[SortKey] \in Seq(Tokens)
    BY <1>2, LinkTyped, SortWritten DEF SelfLink
  <1>4. SortKey \notin {AfterKey, BeforeKey}
    BY KeysDiffer
  <1>5. kept[SortKey] \in Seq(Tokens) /\ SortKey \in DOMAIN kept
    BY <1>3, <1>4, RequestsAssumption
  <1>6. p[SortKey] \in Seq(Tokens)
    BY <1>4, <1>5
  <1> HIDE DEF p
  <1> QED
    BY <1>1, <1>6, LeaveStep

\* Rows come and go.
LEMMA ChangeStep ==
    ASSUME CollectionInv, NEW r \in Ids, Change(r)
    PROVE  CollectionInv'
  <1>1. /\ table' \subseteq Ids /\ stayed' \subseteq table' /\ stayed' \subseteq stayed
        /\ changes' \in 0..MaxChanges
        /\ UNCHANGED <<status, page, walking, seen, documentVars>>
    BY ListAssumption DEF Change, CollectionInv, TypeOK
  <1>2. TypeOK'
    BY <1>1 DEF CollectionInv, TypeOK, documentVars
  <1>3. stayed \subseteq Matching(page.query) => stayed' \subseteq Matching(page.query)'
    BY <1>1 DEF Matching
  <1>4. PageKnown' /\ WalkKnown' /\ WalkMissesNothing'
    BY <1>1, <1>3 DEF CollectionInv, PageKnown, WalkKnown, WalkMissesNothing
  <1> QED
    BY <1>2, <1>4 DEF CollectionInv

\* The documents do not touch the collection.
LEMMA CollectionQuiet ==
    ASSUME CollectionInv, UNCHANGED <<table, collectionVars>>, changes' \in 0..MaxChanges,
           present' \subseteq documents', ToSet(listed') \subseteq documents'
    PROVE  CollectionInv'
  <1>1. TypeOK'
    BY DEF CollectionInv, TypeOK, collectionVars
  <1>2. PageKnown' /\ WalkKnown' /\ WalkMissesNothing'
    BY DEF CollectionInv, PageKnown, WalkKnown, WalkMissesNothing, collectionVars, Matching
  <1> QED
    BY <1>1, <1>2 DEF CollectionInv

-----------------------------------------------------------------------------
(* The walk over the documents. *)

\* A page of documents is in order, after its cursor, and full unless nothing
\* comes after it.
LEMMA DocumentRows ==
    ASSUME documents \subseteq Documents, NEW after \in Nat, NEW size \in Nat,
           NEW items \in DocumentPages(after, size)
    PROVE  /\ items \in Seq(Documents) /\ Len(items) <= size
           /\ ToSet(items) \subseteq documents
           /\ \A i \in DOMAIN items : items[i] \in Nat /\ after < items[i]
           /\ \A i, j \in DOMAIN items : i < j => items[i] < items[j]
           /\ \A d \in documents \ ToSet(items) :
                d > after => Len(items) = size /\ Last(items) < d
  <1> DEFINE past == {d \in documents : d > after}
  <1>1. PICK n \in 0..size : items \in [1..n -> past]
    BY DEF DocumentPages, SeqOf
  <1>2. n \in Nat /\ n <= size
    OBVIOUS
  <1>3. /\ items \in [1..n -> Documents] /\ DOMAIN items = 1..n
        /\ \A i \in 1..n : items[i] \in documents /\ items[i] > after /\ items[i] \in Nat
    BY <1>1, ListAssumption
  <1>4. items \in Seq(Documents) /\ Len(items) = n
    BY <1>2, <1>3
  <1>5. ToSet(items) \subseteq documents
    BY <1>3 DEF ToSet
  <1> QED
    BY <1>2, <1>3, <1>4, <1>5 DEF DocumentPages

\* A listing begins: what its first page leaves comes after it.
LEMMA ListFirstStep ==
    ASSUME IInv, NEW size \in ListSizes, ListFirst(size)
    PROVE  IInv'
  <1>1. /\ documents \subseteq Documents /\ size \in Nat /\ size > 0
        /\ listed' \in DocumentPages(0, size)
    BY ListAssumption DEF IInv, ListKnown, ListFirst
  <1>2. /\ listed' \in Seq(Documents) /\ Len(listed') <= size /\ ToSet(listed') \subseteq documents
        /\ \A i, j \in DOMAIN listed' : i < j => listed'[i] < listed'[j]
        /\ \A d \in documents \ ToSet(listed') :
             d > 0 => Len(listed') = size /\ Last(listed') < d
    BY <1>1, DocumentRows
  <1>3. \A d \in documents \ ToSet(listed') : Len(listed') = size /\ Last(listed') < d
    BY <1>1, <1>2, ListAssumption
  <1>4. listDone' = (Len(listed') < size) /\ documents' = documents /\ present' = documents
    BY DEF ListFirst
  <1>5. listDone' <=> Len(listed') < size
    BY <1>4
  <1>6. ~listDone' => listed' # <<>>
    BY <1>1, <1>5
  <1>7. \A d \in present' \ ToSet(listed') : ~listDone' /\ Last(listed') < d
    BY <1>1, <1>3, <1>4, <1>5
  <1>8. ListKnown'
    BY <1>1, <1>2, <1>4, <1>6, <1>7 DEF ListKnown, ListFirst
  <1>9. ListingMissesNothing'
    BY <1>2, <1>7 DEF ListingMissesNothing
  <1>10. CollectionInv'
    BY <1>2, <1>4, CollectionQuiet DEF IInv, CollectionInv, ListFirst, TypeOK
  <1> QED
    BY <1>8, <1>9, <1>10 DEF IInv, CollectionInv

\* A listing goes on after its last document.
LEMMA ListNextStep ==
    ASSUME IInv, ListNext
    PROVE  IInv'
  <1>1. /\ documents \subseteq Documents /\ listed \in Seq(Documents) /\ listed # <<>>
        /\ listSize \in ListSizes /\ \A d \in present \ ToSet(listed) : Last(listed) < d
        /\ present \subseteq documents /\ ToSet(listed) \subseteq documents
        /\ \A i, j \in DOMAIN listed : i < j => listed[i] < listed[j]
        /\ changes \in 0..MaxChanges
    BY DEF IInv, TypeOK, ListKnown, ListNext, ListingMissesNothing
  <1>2. listSize \in Nat /\ listSize > 0 /\ \A d \in Documents : d \in Nat
    BY <1>1, ListAssumption
  <1>3. Last(listed) \in Nat
    BY <1>1, <1>2 DEF Last
  <1>4. PICK items \in DocumentPages(Last(listed), listSize) :
          listed' = listed \o items /\ listDone' = (Len(items) < listSize)
    BY DEF ListNext
  <1>5. /\ items \in Seq(Documents) /\ Len(items) <= listSize /\ ToSet(items) \subseteq documents
        /\ \A i \in DOMAIN items : items[i] \in Nat /\ Last(listed) < items[i]
        /\ \A i, j \in DOMAIN items : i < j => items[i] < items[j]
        /\ \A d \in documents \ ToSet(items) :
             d > Last(listed) => Len(items) = listSize /\ Last(items) < d
    BY <1>1, <1>2, <1>3, <1>4, DocumentRows
  <1>6. /\ listed' \in Seq(Documents) /\ ToSet(listed') = ToSet(listed) \cup ToSet(items)
        /\ items # <<>> => listed' # <<>> /\ Last(listed') = Last(items)
        /\ Len(listed) \in Nat /\ Len(items) \in Nat
        /\ DOMAIN listed = 1..Len(listed) /\ DOMAIN items = 1..Len(items)
        /\ DOMAIN listed' = 1..(Len(listed) + Len(items))
        /\ \A i \in 1..Len(listed) : listed'[i] = listed[i]
        /\ \A i \in DOMAIN listed' :
             \/ i \in 1..Len(listed)
             \/ i - Len(listed) \in 1..Len(items) /\ listed'[i] = items[i - Len(listed)]
    BY <1>1, <1>4, <1>5, Concatenated
  <1>7. /\ listDone' <=> Len(items) < listSize
        /\ documents' = documents /\ present' = present /\ listSize' = listSize
    BY <1>4 DEF ListNext
  <1>8. ~listDone' => items # <<>>
    BY <1>2, <1>7
  <1>9. ASSUME NEW d \in present' \ ToSet(listed')
        PROVE  ~listDone' /\ Last(listed') < d
    <2>1. d \in documents \ ToSet(items) /\ Last(listed) < d /\ d \in Nat
      BY <1>1, <1>2, <1>6, <1>7, <1>9
    <2>2. Len(items) = listSize /\ Last(items) < d
      BY <2>1, <1>3, <1>5
    <2> QED
      BY <2>2, <1>2, <1>6, <1>7, <1>8
  <1>10. ListKnown'
    BY <1>1, <1>6, <1>7, <1>8, <1>9 DEF ListKnown
  <1>11. ASSUME NEW i \in DOMAIN listed', NEW j \in DOMAIN listed', i < j
         PROVE  listed'[i] < listed'[j]
    <2>1. CASE j \in 1..Len(listed)
      <3>1. i \in 1..Len(listed)
        BY <2>1, <1>6, <1>11
      <3> QED
        BY <2>1, <3>1, <1>1, <1>6, <1>11
    <2>2. CASE i \in 1..Len(listed) /\ j \notin 1..Len(listed)
      <3>1. listed'[i] = listed[i] /\ listed'[j] \in Nat /\ Last(listed) < listed'[j]
        BY <2>2, <1>5, <1>6
      <3>2. Len(listed) \in DOMAIN listed /\ Last(listed) = listed[Len(listed)]
        BY <2>2, <1>6 DEF Last
      <3>3. listed[i] \in Nat /\ i \in DOMAIN listed
        BY <2>2, <1>1, <1>2, <1>6
      <3>4. i = Len(listed) \/ listed[i] < Last(listed)
        BY <2>2, <3>2, <3>3, <1>1, <1>6
      <3> QED
        BY <3>1, <3>2, <3>3, <3>4, <1>3
    <2>3. CASE i \notin 1..Len(listed)
      <3>1. j \notin 1..Len(listed)
        BY <2>3, <1>6, <1>11
      <3>2. /\ i - Len(listed) \in DOMAIN items /\ j - Len(listed) \in DOMAIN items
            /\ listed'[i] = items[i - Len(listed)] /\ listed'[j] = items[j - Len(listed)]
        BY <2>3, <3>1, <1>6
      <3>3. i - Len(listed) < j - Len(listed)
        BY <1>6, <1>11
      <3> QED
        BY <3>2, <3>3, <1>5
    <2> QED
      BY <2>1, <2>2, <2>3
  <1>12. ListingMissesNothing'
    BY <1>9, <1>11 DEF ListingMissesNothing
  <1>13. CollectionInv'
    BY <1>1, <1>5, <1>6, <1>7, CollectionQuiet DEF IInv, CollectionInv, ListNext
  <1> QED
    BY <1>10, <1>12, <1>13 DEF IInv, CollectionInv

\* A new document is not owed to a listing that has begun.
LEMMA CreateDocumentStep ==
    ASSUME IInv, NEW d \in Documents, CreateDocument(d)
    PROVE  IInv'
  <1>1. /\ documents' = documents \cup {d} /\ changes' \in 0..MaxChanges
        /\ UNCHANGED <<table, collectionVars, listSize, listed, listDone, present>>
    BY ListAssumption DEF CreateDocument, IInv, TypeOK
  <1>2. present' \subseteq documents' /\ ToSet(listed') \subseteq documents'
    BY <1>1 DEF IInv, TypeOK
  <1>3. CollectionInv'
    BY <1>1, <1>2, CollectionQuiet DEF IInv, CollectionInv
  <1>4. ListKnown' /\ ListingMissesNothing'
    BY <1>1 DEF IInv, ListKnown, ListingMissesNothing
  <1> QED
    BY <1>3, <1>4 DEF IInv, CollectionInv

\* The collection does not touch the documents.
LEMMA ListQuiet ==
    ASSUME IInv, CollectionInv', UNCHANGED documentVars
    PROVE  IInv'
  <1>1. ListKnown' /\ ListingMissesNothing'
    BY DEF IInv, ListKnown, ListingMissesNothing, documentVars
  <1> QED
    BY <1>1 DEF IInv, CollectionInv

\* Every step keeps the inductive invariant.
LEMMA NextIInv == IInv /\ [Next]_vars => IInv'
  <1> SUFFICES ASSUME IInv, [Next]_vars PROVE IInv'
    OBVIOUS
  <1>1. CollectionInv
    BY DEF IInv, CollectionInv
  <1>2. ASSUME NEW p \in Openings, Open(p) PROVE IInv'
    BY <1>1, <1>2, OpenStep, ListQuiet DEF Open
  <1>3. CASE FollowNext
    BY <1>1, <1>3, FollowNextStep, ListQuiet DEF FollowNext
  <1>4. CASE FollowPrev
    BY <1>1, <1>4, FollowPrevStep, ListQuiet DEF FollowPrev, Leave
  <1>5. ASSUME NEW cursorKey \in {AfterKey, BeforeKey}, NEW e \in Edits,
               UseCursor(cursorKey, e.key, e.raw)
        PROVE  IInv'
    <2>1. UNCHANGED documentVars
      BY <1>5 DEF UseCursor, Leave
    <2> QED
      BY <2>1, <1>1, <1>5, UseCursorStep, ListQuiet
  <1>6. ASSUME NEW r \in Ids, Change(r) PROVE IInv'
    BY <1>1, <1>6, ChangeStep, ListQuiet DEF Change
  <1>7. CASE UNCHANGED vars
    <2>1. CollectionInv'
      BY <1>1, <1>7, CollectionQuiet DEF vars, documentVars, CollectionInv, TypeOK
    <2> QED
      BY <2>1, <1>7, ListQuiet DEF vars
  <1> QED
    BY <1>2, <1>3, <1>4, <1>5, <1>6, <1>7, ListFirstStep, ListNextStep, CreateDocumentStep
       DEF Next

\* Whatever requests are made and whatever changes meanwhile, the pages, the
\* walks and the listings are those of the inductive invariant.
THEOREM Invariance == Spec => []IInv
  BY InitIInv, NextIInv, PTL DEF Spec

\* Every variable keeps its type.
THEOREM TypeCorrect == Spec => []TypeOK
  <1>1. IInv => TypeOK
    BY DEF IInv
  <1> QED
    BY <1>1, Invariance, PTL

\* A walk by "next" links returns its rows in order and once, and no row that
\* was there all the time is left out, for every configuration and table
\* (parseSort's tie breaker, createCollectionResponse's cursors).
THEOREM WalkComplete == Spec => []WalkMissesNothing
  <1>1. IInv => WalkMissesNothing
    BY DEF IInv
  <1> QED
    BY <1>1, Invariance, PTL

\* The links of every page lead back to its query: parse undoes serialize
\* (createCollectionResponse).
THEOREM LinksKept == Spec => []LinksKeepTheQuery
  <1>1. ASSUME IInv, page.query # Absent
        PROVE  LET q == page.query
               IN  /\ Parse(SelfLink(q)) = q
                   /\ page.hasNextPage /\ q.before = Absent =>
                        Parse(NextLink(q, page)) = [q EXCEPT !.after = page.endPosition]
                   /\ page.hasPreviousPage /\ q.after = Absent =>
                        Parse(PrevLink(q, page)) = [q EXCEPT !.before = page.startPosition]
    <2>1. PageOK(page)
      BY <1>1 DEF IInv, PageKnown, NoPage
    <2>2. QueryOK(page.query) /\ (page.hasNextPage \/ page.hasPreviousPage => page.items # <<>>)
      BY <2>1 DEF PageOK
    <2>3. Parse(SelfLink(page.query)) = page.query
      BY <2>2, RoundTrip DEF SelfLink
    <2> QED
      BY <2>1, <2>2, <2>3, Continued DEF NextLink, PrevLink
  <1>2. IInv => LinksKeepTheQuery
    BY <1>1 DEF LinksKeepTheQuery
  <1> QED
    BY <1>2, Invariance, PTL

\* A walk over the documents returns them in order and once, and in the end
\* every one there was when it began (listDocuments).
THEOREM ListingComplete == Spec => []ListingMissesNothing
  <1>1. IInv => ListingMissesNothing
    BY DEF IInv
  <1> QED
    BY <1>1, Invariance, PTL

\* What Parse accepts with a cursor is the query the cursor was made for.
LEMMA CursorBinds ==
    ASSUME NEW q, NEW position, NEW p, NEW key \in {AfterKey, BeforeKey},
           key \in DOMAIN p, p[key] = CreateCursor(q, position), Parse(p) # Reject
    PROVE  /\ Parse(p).sort = q.sort
           /\ Parse(p).filters = q.filters
           /\ Parse(p).search = q.search
  <1> DEFINE sort == ParseSort(Param(p, SortKey, DefaultSort))
             filters == ParseFilters(p)
             search == ParseSearch(p)
             fingerprint == Fingerprint(sort, filters, search)
             after == DecodeCursor(p, AfterKey, fingerprint)
             before == DecodeCursor(p, BeforeKey, fingerprint)
             size == ParsePageSize(Param(p, SizeKey, DefaultSize))
  <1>1. /\ after # Reject /\ before # Reject
        /\ Parse(p) = [size |-> size, sort |-> sort, filters |-> filters, search |-> search,
                       after |-> after, before |-> before]
    BY DEF Parse
  <1>2. DecodeCursor(p, key, fingerprint) # Reject
    BY <1>1
  <1>3. p[key].fingerprint = fingerprint
    BY <1>2 DEF DecodeCursor
  <1>4. p[key].fingerprint = Fingerprint(q.sort, q.filters, q.search)
    BY DEF CreateCursor, EncodeCursor, Contract
  <1>5. sort = q.sort /\ filters = q.filters /\ search = q.search
    BY <1>3, <1>4 DEF Fingerprint
  <1> HIDE DEF sort, filters, search, after, before, size
  <1> QED
    BY <1>1, <1>5

\* A cursor is accepted only beside the query it was made for: whatever the
\* client changes, the sort, the filters and the search of the page are those
\* of the page it comes from (decodeCursor).
THEOREM CursorsBound == Spec => CursorsKeepTheirQuery
  <1>1. ASSUME NEW cursorKey \in {AfterKey, BeforeKey}, NEW e \in Edits,
               UseCursor(cursorKey, e.key, e.raw), status' = 200
        PROVE  /\ page'.query.sort = page.query.sort
               /\ page'.query.filters = page.query.filters
               /\ page'.query.search = page.query.search
    <2>1. PICK p, position : /\ cursorKey \in DOMAIN p
                             /\ p[cursorKey] = CreateCursor(page.query, position)
                             /\ Respond(p)
      BY <1>1 DEF UseCursor, Leave
    <2>2. Parse(p) # Reject /\ \E items \in Pages(Parse(p)) : page' = PageOf(Parse(p), items)
      BY <1>1, <2>1 DEF Respond
    <2>3. page'.query = Parse(p)
      BY <2>2 DEF PageOf
    <2> QED
      BY <2>1, <2>2, <2>3, CursorBinds
  <1>2. \A cursorKey \in {AfterKey, BeforeKey}, e \in Edits :
          UseCursor(cursorKey, e.key, e.raw) /\ status' = 200 =>
            /\ page'.query.sort = page.query.sort
            /\ page'.query.filters = page.query.filters
            /\ page'.query.search = page.query.search
    BY <1>1
  <1> QED
    BY <1>2, PTL DEF CursorsKeepTheirQuery
=============================================================================
