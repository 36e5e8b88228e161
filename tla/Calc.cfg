SPECIFICATION CalcSpec
CONSTANTS
    LastMonth <- TheEnd
    Runs = {r1, r2}
    Idle = Idle
    Plans <- SomePlans
    Precios = {1, 99, 100}
    Cacs = {123456}
    ViewboxMax = 2
    Vertices <- SomePoints
    MaxVertices = 4
INVARIANTS
    QuoteReconciles
    RefusesExactlyTheDegenerate
    VerdictIsGeometric
    EventsFindTheirMonth
\* the clock, the drawing and the request end at their bounds
CHECK_DEADLOCK FALSE
