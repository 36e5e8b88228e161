SPECIFICATION FairSpec
CONSTANTS
    Leads = {l1}
    Runs = {r1, r2}
    NoLead = NoLead
    MaxAttempts = 3
    MaxStalls = 2
    LockLoss = TRUE
INVARIANTS EmailInv EmailFollowsCommit CompletedIsNotified SendsBounded
PROPERTIES NotifiedOrFailed
