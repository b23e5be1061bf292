SPECIFICATION Spec
CONSTANTS
    a1 = a1
    Agreement = {a1}
    MaxAnswered = 4
    MaxRecords = 3
    MaxPending = 1
    Splits = FALSE
    Stalls = FALSE
INVARIANT TypeOK
INVARIANT NoOverbilling
INVARIANT NoClosedAtZero
INVARIANT YoungerCarryNothing
