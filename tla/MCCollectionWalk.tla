------------------------- MODULE MCCollectionWalk -------------------------
(* Three orders, two of them with the same total, and the requests clients  *)
(* make, for TLC's runs of CollectionWalk.                                 *)
EXTENDS CollectionWalk

OrderIds == 1..3
Orders ==
    <<[id |-> 1, total |-> 5, status |-> "paid",  createdAt |-> 1, words |-> {"invoice"}],
      [id |-> 2, total |-> 5, status |-> "paid",  createdAt |-> 3, words |-> {"invoice"}],
      [id |-> 3, total |-> 7, status |-> "draft", createdAt |-> 2, words |-> {}]>>
Statuses == [f \in {"status"} |-> {"draft", "paid"}]
ByTotal == <<Token("total", "desc")>>
Invoice == [text |-> "invoice", padded |-> TRUE]
Day(instant) == [instant |-> instant, form |-> "local"]
From == <<"filter", "createdAt", "gte">>
Until == <<"filter", "createdAt", "lte">>

Requests ==
    {<<>>,
     [key \in {SizeKey} |-> 1],
     [key \in {SizeKey, SortKey} |->
        IF key = SizeKey THEN 1 ELSE <<Token("total", "asc")>>],
     [key \in {<<"filter", "status">>, SearchKey, SizeKey} |->
        CASE key = SizeKey -> 1 [] key = SearchKey -> Invoice [] OTHER -> "paid"],
     [key \in {From, Until, SizeKey} |->
        CASE key = SizeKey -> 1 [] key = From -> Day(2) [] OTHER -> Day(3)],
     [key \in {SizeKey, SortKey} |->
        IF key = SizeKey THEN 1 ELSE <<Token("toString", "asc"), Token("total", "asc")>>],
     [key \in {SortKey} |-> <<Token("customerEmail", "asc")>>],
     [key \in {SizeKey} |-> 3],
     [key \in {SortKey} |-> <<Token("total", "asc"), Token("total", "desc")>>],
     [key \in {From} |-> Day(NoInstant)],
     [key \in {AfterKey} |-> Malformed]}

Changes ==
    {[key |-> SizeKey, raw |-> 2],
     [key |-> SortKey, raw |-> ByTotal],
     [key |-> <<"filter", "status">>, raw |-> "paid"],
     [key |-> SearchKey, raw |-> Invoice]}

\* The two clients do not meet: one of them at a time, and nothing of the
\* other's is there.
OneClient == \/ page = NoPage /\ table = {}
             \/ listSize = 0 /\ documents = {}
=============================================================================
