SPECIFICATION Spec
CONSTANTS
    Leads = {l1, l2}
    Calls = {c1, c2, c3}
    MaxTs = 5
    Serial = TRUE
SYMMETRY Symmetry
CHECK_DEADLOCK FALSE
INVARIANTS HistoryInv
PROPERTIES ImplementsHistory
