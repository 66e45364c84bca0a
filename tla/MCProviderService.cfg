SPECIFICATION HistorySpec
CONSTANTS
    a = a  A = A  B = B
    NoThread = NoThread
    NoDevice = NoDevice
    NoCamera = NoCamera
    Thread = {t1, t2, t3}
    Device = {d1, d2, d3}
    Name = {a, A, B}
    Upper <- MCUpper
    Faulty = {A}
    Exclusive = {B}
    Unfit = {A}
    MaxRewritten = 1
    MaxDisturbed = 2
SYMMETRY Symmetry
CONSTRAINT Bound
INVARIANTS
    TypeOK
    ReferencesExact
    GrabStarted
    PublishedStarted
    ImageOfRequestedCamera
    AtRestOneHandle
    WaitsForOneDevice
PROPERTIES
    WorkingEntryStays
    Promise
