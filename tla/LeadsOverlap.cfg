SPECIFICATION Spec
CONSTANTS
    Leads = {l1}
    Calls = {c1, c2}
    MaxTs = 3
    Serial = FALSE
SYMMETRY Symmetry
CHECK_DEADLOCK FALSE
PROPERTIES TimelineAppendOnly
