SPECIFICATION FairSpec
CONSTANTS
    Quotes = {q1}
    Runs = {r1, r2}
    NoQuote = NoQuote
    NoObject = NoObject
    MaxPrecio = 2
    MaxDia = 2
    MaxAttempts = 2
    MaxStalls = 1
    LockLoss = TRUE
INVARIANTS PipelineInv PdfShowsRepliedTotal CompletedIsPublished
PROPERTIES JobsFinish
CHECK_DEADLOCK FALSE

