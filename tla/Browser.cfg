SPECIFICATION BrowserSpec
CONSTANTS
    Selections = {s1, s2}
    Quotes = {q1, q2}
    NoSelection = NoSelection
    NoQuote = NoQuote
    MaxChanges = 3
    MaxCalls = 2
    Leads = {l1, l2}
    NoLead = NoLead
    Abiertos = {"nuevo", "contactado"}
    Cierres = {"ganado"}
    Units = {u1}
    Files = {f1, f2}
    Params = {p1, p2}
    Nothing = Nothing
    Floors = {a}
    Departamentos = {d1}
    Good = {g1, g2}
    Bad = {bad}
    NoShape = NoShape
    NoTarget = NoTarget
    MaxPoints = 3
INVARIANTS
    QuietPageIsCurrent
    OneDownloadPerRequest
    SettledBoardIsServer
    SavedIsShown
    NothingSpinsForever
    ConfirmsTheReviewed
    DrawingIsKept
PROPERTIES OneQuotePerSelection
\* a tab may be left alone at the bounds
CHECK_DEADLOCK FALSE
