SPECIFICATION FairSpec
CONSTANTS
    Producer = {p, q, r}
    Exit = Exit
    Slots = 2
    MaxRecords = 2
    Terminate = Terminate
    NoItem = NoItem
INVARIANTS
    TypeOK
    NobodyForgotten
PROPERTIES
    Promise
    CallsReturn
