SPECIFICATION FairSpec
CONSTANTS
    Uploads = {u1}
    Assets = {a1}
    Runs = {r1}
    NoMedia = NoMedia
    NoImage = NoImage
    Widths = {3, 4}
    Breakpoints = {2, 4}
    MaxAttempts = 2
    MaxStalls = 0
    LockLoss = FALSE
INVARIANTS MediaInv CompletedIsOneImage
PROPERTIES ReseedIsIdempotent SeedReturns
