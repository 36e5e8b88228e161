SPECIFICATION Spec
CONSTANTS
    Selections = {s1, s2}
    Quotes = {q1, q2}
    NoSelection = NoSelection
    NoQuote = NoQuote
    MaxChanges = 3
INVARIANT RetainedIsOfSelection
CHECK_DEADLOCK FALSE
