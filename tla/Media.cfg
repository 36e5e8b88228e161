SPECIFICATION FairSpec
CONSTANTS
    Uploads = {u1}
    Assets = {}
    Runs = {r1, r2}
    NoMedia = NoMedia
    NoImage = NoImage
    Widths = {1, 2, 5}
    Breakpoints = {2, 4}
    MaxAttempts = 2
    MaxStalls = 1
    LockLoss = TRUE
INVARIANTS ReadyHasVariants
PROPERTIES ConfirmedSettles
