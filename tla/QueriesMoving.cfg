SPECIFICATION Spec
CONSTANTS
    DefaultSize = 2
    MaxSize = 3
    AskedPages <- FirstPages
    AskedSizes <- Sizes
    Window = 1
    Actors = {"a1", "a2"}
    Actions <- TwoActions
    Entities = {"e1", "e2"}
    Contents <- Rows
    MaxRows = 3
    MaxClock = 2
    MaxPages = 3
INVARIANTS
    TypeOK
    WalkSkipsNothing
    PageHoldsItsTotal
    MetaNamesPageRead
    SummaryGrows
