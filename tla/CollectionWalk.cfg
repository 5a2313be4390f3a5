CONSTANTS
    DefaultSize = 2
    MaxSize = 2
    Sorts = {"total", "id"}
    DefaultSort <- ByTotal
    TieBreaker = "id"
    Inherited = {"toString"}
    EnumValues <- Statuses
    RangeFilters = {"createdAt"}
    Searchable = TRUE
    Absent = Absent
    Reject = Reject
    NoInstant = NoInstant
    Ids <- OrderIds
    Row <- Orders
    Openings <- Requests
    Edits <- Changes
    Documents = {1, 2, 3}
    ListSizes = {1, 2}
    MaxChanges = 3
SPECIFICATION Spec
INVARIANTS IInv WalkMissesNothing LinksKeepTheQuery ListingMissesNothing
PROPERTY CursorsKeepTheirQuery
CONSTRAINT OneClient
