SPECIFICATION Spec
CONSTANTS
    Quotes = {q1}
    Runs = {r1, r2}
    NoQuote = NoQuote
    NoObject = NoObject
    MaxPrecio = 2
    MaxDia = 3
    MaxAttempts = 3
    MaxStalls = 2
    LockLoss = FALSE
INVARIANTS PdfKeyImpliesObject
PROPERTIES PublishedIsFrozen ImplementsDelivery
CHECK_DEADLOCK FALSE
SYMMETRY Symmetry
