SPECIFICATION Spec
CONSTANTS
    Kinds <- Decisions
    Policy <- DraftPolicy
    Codes = {c1}
    Payloads = {p1}
    None = None
    Slots = {s1, s2}
    Searches = {home, other}
    Home = home
    Users <- Switchable
    MaxVersion = 2
SYMMETRY SlotSymmetry
INVARIANTS
    TypeOK
    SessionMatchesToken
    RefusalExplained
    ReloadShowsMove
    ViewFollowsQuery
    BusyMeansWaiting
PROPERTIES
    MovesWhatWasShown
