SPECIFICATION Spec
CONSTANTS
    a1 = a1
    Agreement = {a1}
    MaxAnswered = 2
    MaxRecords = 3
    MaxPending = 1
    Splits = TRUE
    Stalls = FALSE
INVARIANT NoOverbilling
