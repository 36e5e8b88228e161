SPECIFICATION Spec
CONSTANTS
    Leads = {l1, l2}
    Calls = {c1, c2, c3}
    MaxTs = 5
    Serial = FALSE
SYMMETRY Symmetry
CHECK_DEADLOCK FALSE
INVARIANTS DesenlaceSiiCerrado TimelineSorted AuditMatchesCommits
